------------------------- MODULE Sx8ResourceProofs -------------------------
(***************************************************************************)
(* More of the inductive invariant of the SX8 driver, on top of that of    *)
(* Sx8Proofs and for the same instances: what the driver counts, holds and *)
(* scans.                                                                  *)
(*                                                                         *)
(* n_msgs and hw_sg_used are exact; every variable stays in its range; the *)
(* probe holds what its steps acquired, nothing runs before the state      *)
(* machine is started or uses the host once carm_remove_one has emptied    *)
(* the ports, one after the other; and every message and handler about an  *)
(* array is about the device cur_scan_dev stands at.                       *)
(***************************************************************************)
EXTENDS Sx8Proofs, FiniteSetTheorems

-----------------------------------------------------------------------------
(* The sum of the entries of the requests that have a tag.  MapThenSumSet   *)
(* recurses over the set and removes a tag it chooses; that the order does  *)
(* not matter is shown with a least counterexample.                         *)

\* The scatter/gather entries that the requests r have under the tags S.
Entries(r, S) == MapThenSumSet(LAMBDA t : r[t].n_elem, S)

\* h gives the entries of every set of tags below n.
Sums(h, r, n) ==
    /\ h \in [SUBSET (0 .. n - 1) -> Nat]
    /\ h[{}] = 0
    /\ \A s \in SUBSET (0 .. n - 1) : \A x \in (0 .. n - 1) \ s : h[s \cup {x}] = h[s] + r[x].n_elem

\* One tag more: the sets with it have its entries as well.
LEMMA SumsMore ==
    ASSUME NEW r, NEW n \in Nat, \A x \in 0 .. n : r[x].n_elem \in Nat, NEW h, Sums(h, r, n)
    PROVE  \E k : Sums(k, r, n + 1)
<1> DEFINE U == 0 .. n - 1
           V == 0 .. (n + 1) - 1
           e == r[n].n_elem
           k == [s \in SUBSET V |-> IF n \in s THEN h[s \ {n}] + e ELSE h[s]]
<1>1. V = U \cup {n} /\ n \notin U /\ V = 0 .. n
  OBVIOUS
<1>n. \A x \in V : r[x].n_elem \in Nat
  BY <1>1, Zenon
<1>e. e \in Nat
  BY <1>1, <1>n, Zenon
<1>2. /\ h \in [SUBSET U -> Nat] /\ h[{}] = 0
      /\ \A s \in SUBSET U : \A x \in U \ s : h[s \cup {x}] = h[s] + r[x].n_elem
  BY Zenon DEF Sums
<1> HIDE DEF U, V, e
<1>3. \A s \in SUBSET V : s \ {n} \in SUBSET U /\ (n \notin s => s \in SUBSET U)
  BY <1>1, Zenon
<1>4. k \in [SUBSET V -> Nat]
  <2> SUFFICES ASSUME NEW s \in SUBSET V
               PROVE  (IF n \in s THEN h[s \ {n}] + e ELSE h[s]) \in Nat
    BY Zenon
  <2>1. CASE n \in s
    <3>1. h[s \ {n}] \in Nat
      BY <1>2, <1>3, Zenon
    <3>2. h[s \ {n}] + e \in Nat
      BY <1>e, <3>1
    <3> QED
      BY <2>1, <3>2, Zenon
  <2>2. CASE n \notin s
    BY <1>2, <1>3, <2>2, Zenon
  <2> QED
    BY <2>1, <2>2, Zenon
<1>5. k[{}] = 0
  BY <1>2, Zenon
<1>6. \A s \in SUBSET V : \A x \in V \ s : k[s \cup {x}] = k[s] + r[x].n_elem
  <2> SUFFICES ASSUME NEW s \in SUBSET V, NEW x \in V \ s
               PROVE  k[s \cup {x}] = k[s] + r[x].n_elem
    BY Zenon
  <2>0. s \cup {x} \in SUBSET V
    BY Zenon
  <2>1. CASE x = n
    <3>1. (s \cup {n}) \ {n} = s /\ n \notin s
      BY <2>1, Zenon
    <3>2. k[s \cup {n}] = h[(s \cup {n}) \ {n}] + e
      BY <2>0, <2>1, Zenon
    <3>3. k[s] = h[s]
      BY <3>1, Zenon
    <3> QED
      BY <2>1, <3>1, <3>2, <3>3, Zenon DEF e
  <2>2. CASE x # n /\ n \in s
    <3>1. (s \cup {x}) \ {n} = (s \ {n}) \cup {x} /\ x \in U \ (s \ {n}) /\ s \ {n} \in SUBSET U
      BY <1>1, <1>3, <2>2, Zenon
    <3>2. k[s \cup {x}] = h[(s \cup {x}) \ {n}] + e /\ k[s] = h[s \ {n}] + e
      BY <2>0, <2>2, Zenon
    <3>3. h[(s \ {n}) \cup {x}] = h[s \ {n}] + r[x].n_elem
      BY <1>2, <3>1, Zenon
    <3>4. h[s \ {n}] \in Nat /\ r[x].n_elem \in Nat
      BY <1>2, <1>n, <3>1, Zenon
    <3>5. (h[s \ {n}] + r[x].n_elem) + e = (h[s \ {n}] + e) + r[x].n_elem
      BY <1>e, <3>4
    <3> QED
      BY <3>1, <3>2, <3>3, <3>5, Zenon
  <2>3. CASE x # n /\ n \notin s
    <3>1. n \notin s \cup {x} /\ s \in SUBSET U /\ x \in U \ s
      BY <1>1, <1>3, <2>3, Zenon
    <3>2. k[s \cup {x}] = h[s \cup {x}] /\ k[s] = h[s]
      BY <2>0, <3>1, Zenon
    <3> QED
      BY <1>2, <3>1, <3>2, Zenon
  <2> QED
    BY <2>1, <2>2, <2>3, Zenon
<1>7. Sums(k, r, n + 1)
  <2> HIDE DEF k
  <2> QED
    BY <1>4, <1>5, <1>6, Zenon DEF Sums, V
<1> QED
  BY <1>7, Zenon

\* There are such sums for any number of tags.
LEMMA SumsExist ==
    ASSUME NEW r, NEW N \in Nat, \A x \in 0 .. N - 1 : r[x].n_elem \in Nat
    PROVE  \E h : Sums(h, r, N)
<1> DEFINE None == {n \in 0 .. N : ~ \E h : Sums(h, r, n)}
<1> SUFFICES ASSUME None # {} PROVE FALSE
  <2>1. N \in 0 .. N
    OBVIOUS
  <2> QED
    BY <2>1, Zenon
<1>1. None \subseteq Nat
  <2>1. 0 .. N \subseteq Nat
    OBVIOUS
  <2> QED
    BY <2>1, Zenon
<1>2. PICK n \in None : \A m \in None : n <= m
  <2> HIDE DEF None
  <2> QED
    BY <1>1, Least, Zenon
<1>3. n # 0
  <2> DEFINE z == [s \in {{}} |-> 0]
  <2>1. 0 .. 0 - 1 = {}
    OBVIOUS
  <2>2. SUBSET {} = {{}}
    BY Zenon
  <2>3. z \in [{{}} -> Nat] /\ z[{}] = 0
    OBVIOUS
  <2> HIDE DEF z
  <2>4. Sums(z, r, 0)
    BY <2>1, <2>2, <2>3, Zenon DEF Sums
  <2> QED
    BY <2>4, Zenon
<1>4. n - 1 \in 0 .. N - 1 /\ n - 1 \in 0 .. N /\ n - 1 \in Nat /\ (n - 1) + 1 = n /\ ~(n <= n - 1)
  <2>1. n \in 0 .. N
    BY Zenon
  <2> HIDE DEF None
  <2> QED
    BY <1>3, <2>1
<1>5. PICK h : Sums(h, r, n - 1)
  BY <1>2, <1>4, Zenon
<1>6. \E k : Sums(k, r, (n - 1) + 1)
  <2>1. \A x \in 0 .. n - 1 : x \in 0 .. N - 1
    BY <1>4
  <2>2. \A x \in 0 .. n - 1 : r[x].n_elem \in Nat
    BY <2>1, Zenon
  <2> QED
    BY <1>4, <1>5, <2>2, SumsMore, Zenon
<1>7. \E k : Sums(k, r, n)
  BY <1>4, <1>6, Zenon
<1> QED
  BY <1>7, Zenon

\* q has the same entries as r under the tags S.
Agrees(q, r, S) == \A x \in S : q[x].n_elem = r[x].n_elem /\ r[x].n_elem \in Nat

\* What the recursion over a set of tags computes, whatever order it takes them in:
\* it depends on the entries of the tags in the set only.
LEMMA EntriesAre ==
    ASSUME NEW r, NEW N \in Nat, NEW h, Sums(h, r, N), NEW S \in SUBSET (0 .. N - 1),
           NEW q, Agrees(q, r, S)
    PROVE  Entries(q, S) = h[S]
<1> DEFINE Pick(s) == CHOOSE x \in s : TRUE
           Solves(g) == g = [s \in SUBSET S |-> IF s = {} THEN 0
                                               ELSE q[Pick(s)].n_elem + g[s \ {Pick(s)}]]
           f == CHOOSE g : Solves(g)
<1>1. Entries(q, S) = f[S]
  BY Zenon DEF Entries, MapThenSumSet, MapThenFoldSet
<1>2. \A s \in SUBSET S : s # {} => Pick(s) \in s /\ s \ {Pick(s)} \in SUBSET S
  BY Zenon
<1> HIDE DEF Pick
<1>3. \A s \in SUBSET S : s # {} => h[s] = q[Pick(s)].n_elem + h[s \ {Pick(s)}]
  <2> TAKE s \in SUBSET S
  <2> HAVE s # {}
  <2> DEFINE x == Pick(s)
             w == s \ {x}
  <2>1. x \in s /\ w \in SUBSET (0 .. N - 1) /\ x \in (0 .. N - 1) \ w /\ s = w \cup {x}
    BY <1>2, Zenon
  <2>2. q[x].n_elem = r[x].n_elem /\ r[x].n_elem \in Nat
    BY <2>1, Zenon DEF Agrees
  <2> HIDE DEF x, w
  <2>3. h[s] = h[w] + r[x].n_elem /\ h[w] \in Nat
    BY <2>1, Zenon DEF Sums
  <2>4. h[w] + r[x].n_elem = r[x].n_elem + h[w]
    BY <2>2, <2>3
  <2>5. h[s] = q[x].n_elem + h[w]
    BY <2>2, <2>3, <2>4, Zenon
  <2> QED
    BY <2>5, Zenon DEF x, w
<1>4. \E g : Solves(g)
  <2> DEFINE k == [s \in SUBSET S |-> h[s]]
  <2>1. \A s \in SUBSET S : k[s] = IF s = {} THEN 0 ELSE q[Pick(s)].n_elem + k[s \ {Pick(s)}]
    BY <1>2, <1>3, Zenon DEF Sums
  <2>2. k = [s \in SUBSET S |-> IF s = {} THEN 0 ELSE q[Pick(s)].n_elem + k[s \ {Pick(s)}]]
    <3>1. k = [s \in SUBSET S |-> k[s]]
      BY Zenon
    <3> HIDE DEF k
    <3> QED
      BY <2>1, <3>1, Zenon
  <2> QED
    BY <2>2, Zenon
<1>5. Solves(f)
  <2> HIDE DEF Solves
  <2> QED
    BY <1>4, Zenon
<1> HIDE DEF f
<1>6. \A s \in SUBSET S : f[s] = IF s = {} THEN 0 ELSE q[Pick(s)].n_elem + f[s \ {Pick(s)}]
  BY <1>5, Zenon
<1>7. \A s \in SUBSET S : IsFiniteSet(s) /\ Cardinality(s) \in Nat
  <2>1. IsFiniteSet(0 .. N - 1)
    BY FS_Interval, SMT
  <2>2. \A s \in SUBSET S : IsFiniteSet(s)
    BY <2>1, FS_Subset, Zenon
  <2> QED
    BY <2>2, FS_CardinalityType, Zenon
<1> DEFINE Wrong == {s \in SUBSET S : f[s] # h[s]}
           Sizes == {Cardinality(s) : s \in Wrong}
<1>8. Wrong = {}
  <2> SUFFICES ASSUME Wrong # {} PROVE FALSE
    BY Zenon
  <2>1. Sizes \subseteq Nat /\ Sizes # {}
    BY <1>7, Zenon
  <2>2. PICK n \in Sizes : \A m \in Sizes : n <= m
    <3> HIDE DEF Sizes
    <3> QED
      BY <2>1, Least, Zenon
  <2>3. PICK s \in Wrong : n = Cardinality(s)
    BY Zenon
  <2>4. s \in SUBSET S /\ f[s] # h[s]
    BY Zenon
  <2>5. s # {}
    BY <1>6, <2>4, Zenon DEF Sums
  <2> DEFINE w == s \ {Pick(s)}
  <2>6. w \in SUBSET S /\ Pick(s) \in s
    BY <1>2, <2>4, <2>5, Zenon
  <2>7. f[w] # h[w]
    BY <1>3, <1>6, <2>4, <2>5, Zenon
  <2>8. Cardinality(w) \in Sizes
    BY <2>6, <2>7, Zenon
  <2>9. Cardinality(w) = Cardinality(s) - 1
    BY <1>7, <2>4, <2>6, FS_RemoveElement, Zenon
  <2>10. n <= Cardinality(w) /\ n \in Nat
    BY <2>1, <2>2, <2>8, Zenon
  <2> HIDE DEF Sizes, Wrong, w
  <2> QED
    BY <2>3, <2>9, <2>10
<1>9. S \in SUBSET S
  BY Zenon
<1> QED
  BY <1>1, <1>8, <1>9, Zenon

RequestType == [n_elem : Nat, rq : Request \cup {Special}, type : MsgType \cup {"none"}]

\* There are sums for all sets of tags, and they are what Entries computes.
LEMMA EntriesSums ==
    ASSUME NEW q \in [Tag -> RequestType]
    PROVE  \E h : /\ Sums(h, q, CARM_MAX_REQ)
                  /\ \A z, Z : Z \in SUBSET Tag /\ (\A x \in Z : z[x].n_elem = q[x].n_elem) => Entries(z, Z) = h[Z]
<1>1. CARM_MAX_REQ \in Nat
  BY Sx8Assumption, Zenon
<1>2. \A x \in 0 .. CARM_MAX_REQ - 1 : q[x].n_elem \in Nat
  BY Zenon DEF RequestType, Tag
<1>3. PICK h : Sums(h, q, CARM_MAX_REQ)
  BY <1>1, <1>2, SumsExist, Zenon
<1>4. ASSUME NEW z, NEW Z \in SUBSET Tag, \A x \in Z : z[x].n_elem = q[x].n_elem
      PROVE  Entries(z, Z) = h[Z]
  <2>1. Agrees(z, q, Z) /\ Z \in SUBSET (0 .. CARM_MAX_REQ - 1)
    BY <1>2, <1>4, Zenon DEF Agrees, Tag
  <2> QED
    BY <1>1, <1>3, <2>1, EntriesAre
<1> QED
  BY <1>3, <1>4, Zenon

\* Two tables of requests have the same entries for the tags of a set.
SameEntries(q, r, S) == \A x \in S : q[x].n_elem = r[x].n_elem

\* Requests with the same entries have the same sum.
LEMMA EntriesSame ==
    ASSUME NEW r \in [Tag -> RequestType], NEW q \in [Tag -> RequestType],
           NEW S \in SUBSET Tag, SameEntries(q, r, S)
    PROVE  Entries(r, S) \in Nat /\ Entries(q, S) = Entries(r, S)
<1>1. PICK h : /\ Sums(h, r, CARM_MAX_REQ)
               /\ \A z, Z : Z \in SUBSET Tag /\ (\A x \in Z : z[x].n_elem = r[x].n_elem) => Entries(z, Z) = h[Z]
  BY EntriesSums, Zenon
<1>2. Entries(r, S) = h[S] /\ Entries(q, S) = h[S]
  BY <1>1, Zenon DEF SameEntries
<1>3. h[S] \in Nat
  BY <1>1, Zenon DEF Sums, Tag
<1> QED
  BY <1>2, <1>3, Zenon

\* The entries of a set of tags with one more, and of the same tags before.
LEMMA EntriesMore ==
    ASSUME NEW r \in [Tag -> RequestType], NEW q \in [Tag -> RequestType],
           NEW S \in SUBSET Tag, NEW t \in Tag \ S, SameEntries(q, r, S)
    PROVE  Entries(r, S) \in Nat /\ Entries(q, S \cup {t}) = Entries(r, S) + q[t].n_elem
<1>1. PICK h : /\ Sums(h, q, CARM_MAX_REQ)
               /\ \A z, Z : Z \in SUBSET Tag /\ (\A x \in Z : z[x].n_elem = q[x].n_elem) => Entries(z, Z) = h[Z]
  BY EntriesSums, Zenon
<1>2. Entries(r, S) = h[S]
  BY <1>1, Zenon DEF SameEntries
<1>3. S \cup {t} \in SUBSET Tag
  BY Zenon
<1>4. Entries(q, S \cup {t}) = h[S \cup {t}]
  BY <1>1, <1>3, Zenon
<1>5. h[S] \in Nat /\ h[S \cup {t}] = h[S] + q[t].n_elem
  BY <1>1, Zenon DEF Sums, Tag
<1> QED
  BY <1>2, <1>4, <1>5, Zenon

\* The entries of a set of tags with one less.
LEMMA EntriesLess ==
    ASSUME NEW r \in [Tag -> RequestType], NEW q \in [Tag -> RequestType],
           NEW S \in SUBSET Tag, NEW t \in S, SameEntries(q, r, S \ {t})
    PROVE  Entries(q, S \ {t}) \in Nat /\ Entries(r, S) = Entries(q, S \ {t}) + r[t].n_elem
<1>1. PICK R : R = S \ {t}
  BY Zenon
<1>2. R \in SUBSET Tag /\ t \in Tag \ R /\ R \cup {t} = S
  BY <1>1, Zenon
<1>3. SameEntries(r, q, R)
  BY <1>1, Zenon DEF SameEntries
<1>4. Entries(q, R) \in Nat /\ Entries(r, R \cup {t}) = Entries(q, R) + r[t].n_elem
  BY <1>2, <1>3, EntriesMore, Zenon
<1> QED
  BY <1>1, <1>2, <1>4, Zenon

\* No tags have no entries.
LEMMA EntriesNone ==
    ASSUME NEW r \in [Tag -> RequestType]
    PROVE  Entries(r, {}) = 0
<1>1. PICK h : /\ Sums(h, r, CARM_MAX_REQ)
               /\ \A z, Z : Z \in SUBSET Tag /\ (\A x \in Z : z[x].n_elem = r[x].n_elem) => Entries(z, Z) = h[Z]
  BY EntriesSums, Zenon
<1>2. Entries(r, {}) = h[{}]
  BY <1>1, Zenon
<1> QED
  BY <1>1, <1>2, Zenon DEF Sums

-----------------------------------------------------------------------------
(* The counters of carm_get_request and carm_put_request *)

\* n_msgs counts the tags in use, hw_sg_used their entries.
Counts ==
    /\ n_msgs = Cardinality(msg_alloc)
    /\ hw_sg_used = Entries(req, msg_alloc)
    /\ hw_sg_used <= CARM_MAX_HOST_SG
    /\ \A t \in Tag : req[t].n_elem <= CARM_MAX_REQ_SG

\* The tags in use are finitely many.
LEMMA TagsFinite ==
    ASSUME Types
    PROVE  /\ msg_alloc \in SUBSET Tag /\ IsFiniteSet(msg_alloc) /\ Cardinality(msg_alloc) \in 0 .. CARM_MAX_REQ
           /\ req \in [Tag -> RequestType]
<1>1. CARM_MAX_REQ \in Nat \ {0}
  BY Sx8Assumption, Zenon
<1>2. IsFiniteSet(Tag) /\ Cardinality(Tag) = CARM_MAX_REQ
  BY <1>1, FS_Interval DEF Tag
<1>3. msg_alloc \subseteq Tag
  BY MessageTags, Zenon
<1>4. IsFiniteSet(msg_alloc) /\ Cardinality(msg_alloc) <= CARM_MAX_REQ
  BY <1>2, <1>3, FS_Subset, Zenon
<1>5. Cardinality(msg_alloc) \in Nat
  BY <1>4, FS_CardinalityType, Zenon
<1>6. Cardinality(msg_alloc) \in 0 .. CARM_MAX_REQ
  BY <1>1, <1>4, <1>5
<1> QED
  BY <1>3, <1>4, <1>6, Zenon DEF Types, HostTypes, RequestType

\* A request that is given a tag is counted with its entries.
LEMMA CountsGet ==
    ASSUME Types, Types', Counts, NEW t \in Tag \ msg_alloc, msg_alloc' = msg_alloc \cup {t}, n_msgs' = n_msgs + 1,
           \A s \in Tag \ {t} : req'[s].n_elem = req[s].n_elem,
           req'[t].n_elem <= CARM_MAX_REQ_SG,
           hw_sg_used' = hw_sg_used + req'[t].n_elem, hw_sg_used' <= CARM_MAX_HOST_SG
    PROVE  Counts'
<1>1. /\ msg_alloc \in SUBSET Tag /\ IsFiniteSet(msg_alloc) /\ req \in [Tag -> RequestType]
  BY TagsFinite, Zenon
<1>2. req' \in [Tag -> RequestType]
  BY Zenon DEF Types, HostTypes, RequestType
<1>3. Cardinality(msg_alloc \cup {t}) = Cardinality(msg_alloc) + 1
  BY <1>1, FS_AddElement, Zenon
<1>4. SameEntries(req', req, msg_alloc)
  BY <1>1, Zenon DEF SameEntries
<1>5. Entries(req', msg_alloc \cup {t}) = Entries(req, msg_alloc) + req'[t].n_elem
  BY <1>1, <1>2, <1>4, EntriesMore, Zenon
<1>6. \A s \in Tag : req'[s].n_elem <= CARM_MAX_REQ_SG
  BY Zenon DEF Counts
<1> QED
  BY <1>3, <1>5, <1>6, Zenon DEF Counts

\* A tag that is put takes its entries with it.
LEMMA CountsPut ==
    ASSUME Types, Types', Counts, NEW t \in msg_alloc, SetTags(Put(t))
    PROVE  Counts'
<1> DEFINE S == msg_alloc \ {t}
<1>1. /\ msg_alloc \in SUBSET Tag /\ IsFiniteSet(msg_alloc) /\ req \in [Tag -> RequestType]
  BY TagsFinite, Zenon
<1>2. req' \in [Tag -> RequestType] /\ t \in Tag
  BY <1>1, Zenon DEF Types, HostTypes, RequestType
<1>3. /\ msg_alloc' = S /\ n_msgs' = n_msgs - 1 /\ hw_sg_used' = hw_sg_used - req[t].n_elem
      /\ req' = [req EXCEPT ![t] = Free]
  BY Zenon DEF SetTags, Put
<1>4. Cardinality(S) = Cardinality(msg_alloc) - 1
  BY <1>1, FS_RemoveElement, Zenon
<1>5. (\A s \in S : req'[s] = req[s]) /\ \A s \in Tag : req'[s] = req[s] \/ req'[s] = Free
  BY <1>1, <1>2, <1>3, Zenon
<1>6. Entries(req', S) \in Nat /\ Entries(req, msg_alloc) = Entries(req', S) + req[t].n_elem
  <2>1. SameEntries(req', req, msg_alloc \ {t})
    BY <1>5, Zenon DEF SameEntries
  <2> QED
    BY <1>1, <1>2, <2>1, EntriesLess, Zenon
<1> HIDE DEF S
<1>7. req[t].n_elem \in Nat
  BY <1>1, <1>2, Zenon DEF RequestType
<1>8. hw_sg_used' = Entries(req', S) /\ hw_sg_used' <= CARM_MAX_HOST_SG
  BY <1>3, <1>6, <1>7, Sx8Assumption DEF Counts
<1>9. Free.n_elem <= CARM_MAX_REQ_SG
  BY Sx8Assumption DEF Free
<1> QED
  BY <1>3, <1>4, <1>5, <1>8, <1>9, Zenon DEF Counts

\* A step that leaves the tags alone, or the entries of every request.
LEMMA CountsSame ==
    ASSUME Types, Types', Counts, UNCHANGED <<msg_alloc, n_msgs, hw_sg_used>>,
           \A s \in Tag : req'[s].n_elem = req[s].n_elem
    PROVE  Counts'
<1>1. /\ msg_alloc \in SUBSET Tag /\ req \in [Tag -> RequestType] /\ req' \in [Tag -> RequestType]
  BY TagsFinite, Zenon DEF Types, HostTypes, RequestType
<1>2. SameEntries(req', req, msg_alloc)
  BY <1>1, Zenon DEF SameEntries
<1>3. Entries(req', msg_alloc) = Entries(req, msg_alloc)
  BY <1>1, <1>2, EntriesSame, Zenon
<1> QED
  BY <1>3, Zenon DEF Counts

\* The counters stay exact: a request is counted when it gets its tag and no
\* longer when the tag is put, and carm_get_request leaves room for one more.
LEMMA CountsNext ==
    ASSUME IInv, Types', Counts, [Next]_vars
    PROVE  Counts'
<1>0. Types /\ fsm \in FsmType
  BY Zenon DEF IInv, Types, HostTypes
<1>u. ASSUME UNCHANGED tags
      PROVE  Counts'
  BY <1>u, Zenon DEF Counts, tags
<1>1. CASE UNCHANGED vars
  BY <1>1, <1>u, Zenon DEF vars
<1>2. CASE \/ \E q \in Queue : RqEmpty(q) \/ RqBusy(q)
           \/ \E p \in Port : RqNoTag(p) \/ DelGendisk(p) \/ CleanupQueue(p)
           \/ OobSend \/ SkipEvent \/ EndOfResponses \/ HandleRest \/ Interrupt
  BY <1>2, <1>u, Zenon DEF RqEmpty, RqBusy, RqNoTag, DelGendisk, CleanupQueue, OobSend, SkipEvent,
     EndOfResponses, HandleRest, Interrupt
<1>3. CASE \/ FsmStart \/ FsmSwitch \/ AddDisk \/ FsmWrite \/ Reschedule \/ ArrayInfoFails \/ ProbeStage \/ ProbeFails \/ Unbind \/ FreeHost
           \/ Adapter \/ \E r \in Request : Submit(r)
  BY <1>3, <1>u, Zenon DEF FsmStart, FsmSwitch, AddDisk, FsmWrite, Reschedule, ArrayInfoFails, ProbeStage, ProbeFails, Unbind, FreeHost,
     Adapter, Take, Respond, AdapterEvent, Submit
<1>4. CASE \E p \in Port : RqMapFails(p)
  BY <1>4, <1>u, Zenon DEF RqMapFails, EndRq, SetTags, Tags, tags
<1>5. ASSUME NEW p \in Port, RqSend(p)
      PROVE  Counts'
  <2>1. GetTag \in Tag \ msg_alloc
    BY <1>0, <1>5, GetTagFree, Zenon DEF RqSend
  <2>2. PICK n \in 1 .. CARM_MAX_REQ_SG :
            /\ req' = [req EXCEPT ![GetTag] = [n_elem |-> n, rq |-> Head(rqs[p]), type |-> "rw"]]
            /\ hw_sg_used' = hw_sg_used + n
    <3>1. Head(rqs[p]) \in Request
      BY <1>0, <1>5, SeqHeadTail, Zenon DEF RqSend, Types, QueueTypes
    <3> QED
      BY <1>5, <3>1, Sx8Assumption, Zenon DEF RqSend
  <2>3. req'[GetTag].n_elem = n /\ \A s \in Tag \ {GetTag} : req'[s].n_elem = req[s].n_elem
    BY <1>0, <2>1, <2>2, Zenon DEF Types, HostTypes
  <2>4. hw_sg_used \in Nat
    <3>1. Entries(req, msg_alloc) \in Nat
      BY <1>0, TagsFinite, EntriesSame, Zenon DEF SameEntries
    <3> QED
      BY <3>1, Zenon DEF Counts
  <2>5. hw_sg_used' <= CARM_MAX_HOST_SG /\ n <= CARM_MAX_REQ_SG
    <3>1. hw_sg_used < CARM_MAX_HOST_SG - CARM_MAX_REQ_SG
      BY <1>5, Zenon DEF RqSend, CanGet
    <3>2. CARM_MAX_HOST_SG \in Nat /\ CARM_MAX_REQ_SG \in Nat
      BY Sx8Assumption, Zenon
    <3> QED
      BY <2>2, <2>4, <3>1, <3>2
  <2>6. msg_alloc' = msg_alloc \cup {GetTag} /\ n_msgs' = n_msgs + 1
    BY <1>5, Zenon DEF RqSend
  <2>7. /\ req'[GetTag].n_elem <= CARM_MAX_REQ_SG
        /\ hw_sg_used' = hw_sg_used + req'[GetTag].n_elem
    BY <2>2, <2>3, <2>5, Zenon
  <2> QED
    BY <1>0, <2>1, <2>3, <2>5, <2>6, <2>7, CountsGet, Zenon
<1>p. ASSUME NEW t, SetTags(Put(t))
      PROVE  Counts'
  <2>1. CASE t \in msg_alloc
    BY <1>0, <1>p, <2>1, CountsPut, Zenon
  <2>2. CASE t \notin msg_alloc
    BY <1>u, <1>p, <2>2, Zenon DEF SetTags, Put, Tags, tags
  <2> QED
    BY <2>1, <2>2, Zenon
<1>6. CASE HandleResp
  BY <1>6, <1>p, Zenon DEF HandleResp, EndRq
<1>7. CASE GetSpecial
  <2>1. GetTag \in Tag \ msg_alloc
    BY <1>0, <1>7, GetTagFree, Zenon DEF GetSpecial
  <2>2. /\ req' = [req EXCEPT ![GetTag].n_elem = 0] /\ UNCHANGED hw_sg_used
        /\ msg_alloc' = msg_alloc \cup {GetTag} /\ n_msgs' = n_msgs + 1
    BY <1>7, Zenon DEF GetSpecial
  <2>3. req'[GetTag].n_elem = 0 /\ \A s \in Tag \ {GetTag} : req'[s].n_elem = req[s].n_elem
    BY <1>0, <2>1, <2>2 DEF Types, HostTypes
  <2>4. hw_sg_used \in Nat
    <3>1. Entries(req, msg_alloc) \in Nat
      BY <1>0, TagsFinite, EntriesSame, Zenon DEF SameEntries
    <3> QED
      BY <3>1, Zenon DEF Counts
  <2>5. req'[GetTag].n_elem <= CARM_MAX_REQ_SG /\ hw_sg_used' = hw_sg_used + req'[GetTag].n_elem
    BY <2>2, <2>3, <2>4, Sx8Assumption
  <2>6. hw_sg_used' <= CARM_MAX_HOST_SG
    BY <2>2, Zenon DEF Counts
  <2> QED
    BY <1>0, <2>1, <2>2, <2>3, <2>5, <2>6, CountsGet, Zenon
<1>8. CASE SpecialFails
  BY <1>8, <1>p, <1>u, Zenon DEF SpecialFails
<1>9. CASE SendSpecial
  <2>1. fsm.tag \in Tag
    BY <1>0, <1>9 DEF SendSpecial, FsmType, Idle
  <2>2. UNCHANGED <<msg_alloc, n_msgs, hw_sg_used>>
    BY <1>9, Zenon DEF SendSpecial
  <2>3. \A s \in Tag : req'[s].n_elem = req[s].n_elem
    BY <1>0, <1>9, <2>1, Zenon DEF SendSpecial, Types, HostTypes
  <2> QED
    BY <1>0, <2>2, <2>3, CountsSame, Zenon
<1> QED
  BY <1>1, <1>2, <1>3, <1>4, <1>5, <1>6, <1>7, <1>8, <1>9,
     Zenon DEF Next, Locked, RunRq, RunIrq, Fsm, Message_, Bind, Unwind

-----------------------------------------------------------------------------
(* The ranges of the other variables *)

WaitRange == wait_q_prod \in 0 .. WIDTH - 1 /\ wait_q_cons \in 0 .. WIDTH - 1 /\ stopped \subseteq Queue
PortRange == dev_active \subseteq Port /\ up \subseteq Port /\ cleaned \subseteq Port
Ranges    == WaitRange /\ PortRange /\ resp_idx \in 0 .. WIDTH - 1 /\ intr \in BOOLEAN /\ comp \in BOOLEAN

\* wait_q_prod and wait_q_cons wrap, and wait_q holds queues only.
LEMMA WaitRangeNext ==
    ASSUME Types, WaitRange
    PROVE  /\ \A q \in Queue : carm_push_q(q) => WaitRange'
           /\ \A c, rest : EndRq(c, rest) => WaitRange'
           /\ UNCHANGED wait => WaitRange'
<1>0. wait_q_prod + 1 \in Nat /\ wait_q_cons + 1 \in Nat /\ WIDTH \in Nat \ {0}
  <2>1. wait_q_prod \in Nat /\ wait_q_cons \in Nat
    BY Zenon DEF Types, QueueTypes
  <2>2. WIDTH \in Nat \ {0}
    BY Sx8Assumption, Zenon
  <2> QED
    BY <2>1, <2>2
<1>1. (wait_q_prod + 1) % WIDTH \in 0 .. WIDTH - 1 /\ (wait_q_cons + 1) % WIDTH \in 0 .. WIDTH - 1
  BY <1>0, Remainder, Zenon
<1>2. ASSUME NEW q \in Queue, carm_push_q(q)
      PROVE  WaitRange'
  BY <1>1, <1>2, Zenon DEF carm_push_q, WaitRange
<1>3. UNCHANGED wait => WaitRange'
  BY Zenon DEF WaitRange, wait
<1>4. ASSUME NEW c, NEW rest, EndRq(c, rest)
      PROVE  WaitRange'
  <2>1. CASE UNCHANGED wait
    BY <1>3, <2>1, Zenon
  <2>2. CASE wait_q_cons' = (wait_q_cons + 1) % WIDTH /\ stopped' \subseteq stopped /\ UNCHANGED wait_q_prod
    BY <1>1, <2>2, Zenon DEF WaitRange
  <2> QED
    BY <1>4, <2>1, <2>2, Zenon DEF EndRq, carm_round_robin
<1> QED
  BY <1>2, <1>3, <1>4, Zenon

\* Every step keeps them.
LEMMA RangesNext ==
    ASSUME IInv, Ranges, [Next]_vars
    PROVE  Ranges'
<1>0. Types /\ WaitRange /\ PortRange /\ resp_idx \in 0 .. WIDTH - 1 /\ intr \in BOOLEAN /\ comp \in BOOLEAN
  BY Zenon DEF IInv, Ranges
<1>w. /\ \A q \in Queue : carm_push_q(q) => WaitRange'
      /\ \A c, rest : EndRq(c, rest) => WaitRange'
      /\ UNCHANGED wait => WaitRange'
  BY <1>0, WaitRangeNext, Zenon
<1>p. UNCHANGED <<scan, bind>> => PortRange' /\ comp' \in BOOLEAN
  BY <1>0, Zenon DEF PortRange, scan, bind
<1>q. Port \subseteq Queue
  BY Zenon DEF Queue
<1>1. CASE UNCHANGED vars
  BY <1>0, <1>1, <1>w, <1>p, Zenon DEF vars, Ranges, card
<1>2. CASE \/ \E q \in Queue : RqEmpty(q) \/ RqBusy(q)
           \/ \E p \in Port : RqNoTag(p) \/ RqMapFails(p)
           \/ OobSend \/ SkipEvent \/ HandleResp
  BY <1>0, <1>2, <1>w, <1>p, <1>q, Zenon DEF RqEmpty, RqBusy, RqNoTag, RqMapFails, OobSend, SkipEvent, HandleResp, Ranges, card
<1>3. CASE \E p \in Port : RqSend(p)
  BY <1>0, <1>3, <1>w, <1>p, Zenon DEF RqSend, Ranges
<1>4. CASE EndOfResponses
  <2>1. Top \in Frame /\ Top.fn = "irq"
    BY <1>0, <1>4, SeqHeadTail, Zenon DEF EndOfResponses, InIrq, Top, Types, QueueTypes
  <2>2. Top.work \in Nat /\ resp_idx \in Nat /\ WIDTH \in Nat \ {0}
    BY <1>0, <2>1, Frames, Sx8Assumption, Zenon DEF Types, CardTypes
  <2>3. resp_idx + Top.work \in Nat
    BY <2>2
  <2>4. (resp_idx + Top.work) % WIDTH \in 0 .. WIDTH - 1
    BY <2>2, <2>3, Remainder, Zenon
  <2> QED
    BY <1>0, <1>4, <1>w, <1>p, <2>4, Zenon DEF EndOfResponses, Ranges, card
<1>5. CASE HandleRest
  <2>1. PortRange'
    BY <1>0, <1>5, Zenon DEF HandleRest, PortRange, bind
  <2> QED
    BY <1>0, <1>5, <1>w, <2>1, Zenon DEF HandleRest, Ranges, card, bind
<1>6. CASE Interrupt \/ Adapter \/ \E r \in Request : Submit(r)
  BY <1>0, <1>6, <1>w, <1>p, Zenon DEF Interrupt, Adapter, Take, Respond, AdapterEvent, Submit, Ranges, card
<1>7. CASE FsmStart \/ Message_ \/ FsmWrite \/ Reschedule
  BY <1>0, <1>7, <1>w, <1>p, Zenon DEF FsmStart, Message_, GetSpecial, SpecialFails, ArrayInfoFails, SendSpecial, FsmWrite, Reschedule, Ranges, card
<1>8. CASE FsmSwitch
  <2>1. PortRange' /\ comp' \in BOOLEAN
    BY <1>0, <1>8, Zenon DEF FsmSwitch, PortRange
  <2> QED
    BY <1>0, <1>8, <1>w, <2>1, Zenon DEF FsmSwitch, Ranges, card
<1>9. CASE AddDisk
  <2> DEFINE S == dev_active \ up
  <2>1. S \subseteq Port /\ S \subseteq Int /\ 0 \in Int /\ \A x \in S : x >= 0
    <3>1. Port \subseteq Int /\ 0 \in Int /\ \A x \in Port : x >= 0
      BY Sx8Assumption DEF Port
    <3>2. S \subseteq Port
      BY <1>0, Zenon DEF PortRange
    <3> HIDE DEF S
    <3> QED
      BY <3>1, <3>2, Zenon
  <2>2. ASSUME ~(dev_active \subseteq up)
        PROVE  Min(S) \in Port
    <3>1. S # {}
      BY <2>2, Zenon
    <3>2. Min(S) \in S
      <4> HIDE DEF S
      <4> QED
        BY <2>1, <3>1, MinMember, Zenon
    <3> QED
      BY <2>1, <3>2, Zenon
  <2>3. up' \subseteq Port
    BY <1>0, <1>9, <2>2, Zenon DEF AddDisk, PortRange
  <2> QED
    BY <1>0, <1>9, <1>w, <2>3, Zenon DEF AddDisk, Ranges, PortRange, scan, card
<1>10. CASE ProbeStage \/ ProbeFails \/ Unbind \/ FreeHost
  BY <1>0, <1>10, <1>w, Zenon DEF ProbeStage, ProbeFails, Unbind, FreeHost, Ranges, PortRange, scan, card
<1>11. CASE \E p \in Port : DelGendisk(p) \/ CleanupQueue(p)
  BY <1>0, <1>11, <1>w, Zenon DEF DelGendisk, CleanupQueue, Ranges, PortRange, scan, card
<1> QED
  BY <1>1, <1>2, <1>3, <1>4, <1>5, <1>6, <1>7, <1>8, <1>9, <1>10, <1>11,
     Zenon DEF Next, Locked, RunRq, RunIrq, Fsm, Bind, Unwind

-----------------------------------------------------------------------------
(* What the probe holds, and what is left when it is released *)

\* What carm_init_one has acquired when it is about to take a step.
HeldAt ==
    [device |-> {}, regions |-> {"device"},
     dma_mask |-> {"device", "regions"}, host |-> {"device", "regions"},
     mmio |-> {"device", "regions", "host"}, shm |-> {"device", "regions", "host", "mmio"},
     oob_q |-> {"device", "regions", "host", "mmio", "shm"},
     blkdev |-> {"device", "regions", "host", "mmio", "shm", "oob_q"},
     disks |-> {"device", "regions", "host", "mmio", "shm", "oob_q", "major", "blkdev"},
     irq |-> {"device", "regions", "host", "mmio", "shm", "oob_q", "major", "blkdev", "disks"},
     hw |-> {"device", "regions", "host", "mmio", "shm", "oob_q", "major", "blkdev", "disks", "irq"},
     wait |-> {"device", "regions", "host", "mmio", "shm", "oob_q", "major", "blkdev", "disks", "irq"},
     removing |-> {"device", "regions", "host", "mmio", "shm", "oob_q", "major", "blkdev", "disks"},
     failed |-> {}, gone |-> {}]
Holds == pci \in DOMAIN HeldAt /\ held = HeldAt[pci]

\* Every step of the probe gains what the next one expects, and the releases
\* its failure jumps to are those of all it has.
LEMMA StagesHold ==
    \A s \in DOMAIN NextStage :
        /\ s \in DOMAIN HeldAt /\ NextStage[s] \in DOMAIN HeldAt
        /\ HeldAt[NextStage[s]] = HeldAt[s] \cup Gains(s)
        /\ (HeldAt[s] \cup Leaves(s)) \ {Release[i] : i \in ErrOut[s] .. Len(Release)} = {}
<1>1. Len(Release) = 10
  BY DEF Release
<1>2. DOMAIN NextStage = {"device", "regions", "dma_mask", "host", "mmio", "shm", "oob_q", "blkdev", "disks", "irq", "hw"}
  BY Zenon DEF NextStage
<1>3. ASSUME NEW s \in DOMAIN NextStage
      PROVE  /\ s \in DOMAIN HeldAt /\ NextStage[s] \in DOMAIN HeldAt
             /\ HeldAt[NextStage[s]] = HeldAt[s] \cup Gains(s)
  BY <1>2, <1>3 DEF HeldAt, NextStage, Gains
<1>4. ASSUME NEW s \in DOMAIN NextStage, NEW x \in HeldAt[s] \cup Leaves(s)
      PROVE  \E i \in ErrOut[s] .. 10 : Release[i] = x
  <2>1. x \in {"irq", "disks", "blkdev", "major", "oob_q", "shm", "mmio", "host", "regions", "device"}
    BY <1>2, <1>4 DEF HeldAt, Leaves
  <2> QED
    BY <1>2, <1>4, <2>1 DEF HeldAt, Leaves, ErrOut, Release
<1> QED
  BY <1>1, <1>3, <1>4, Zenon

\* What is held goes by the step the probe is at.
LEMMA HoldsNext ==
    ASSUME Holds, [Next]_vars
    PROVE  Holds'
<1>u. ASSUME UNCHANGED <<pci, held>>
      PROVE  Holds'
  BY <1>u, Zenon DEF Holds
<1>1. CASE UNCHANGED vars
  BY <1>1, <1>u, Zenon DEF vars, bind
<1>2. CASE Locked
  BY <1>2, <1>u, Zenon DEF Locked, RunRq, RunIrq, RqEmpty, RqBusy, RqNoTag, RqMapFails, RqSend, OobSend,
     HandleResp, SkipEvent, EndOfResponses, HandleRest, bind
<1>3. CASE Fsm
  BY <1>3, <1>u, Zenon DEF Fsm, Message_, FsmStart, FsmSwitch, GetSpecial, SpecialFails, ArrayInfoFails, SendSpecial, AddDisk, FsmWrite, Reschedule, bind
<1>4. CASE Interrupt \/ Adapter \/ \E r \in Request : Submit(r)
  BY <1>4, <1>u, Zenon DEF Interrupt, Adapter, Take, Respond, AdapterEvent, Submit, bind
<1>5. CASE ProbeStage
  BY <1>5, StagesHold, Zenon DEF ProbeStage, Holds
<1>6. CASE ProbeFails
  <2>1. held' = {} /\ pci' = "failed"
    BY <1>6, StagesHold, Zenon DEF ProbeFails, Holds
  <2> QED
    BY <2>1 DEF Holds, HeldAt
<1>7. CASE Unbind
  <2>1. held' = HeldAt["wait"] \ {"irq"} /\ pci' = "removing"
    BY <1>7, Zenon DEF Unbind, Holds
  <2> QED
    BY <2>1 DEF Holds, HeldAt
<1>8. CASE \E p \in Port : DelGendisk(p) \/ CleanupQueue(p)
  BY <1>8, <1>u, Zenon DEF DelGendisk, CleanupQueue
<1>9. CASE FreeHost
  <2>1. /\ held' = HeldAt["removing"] \ {"disks", "blkdev", "major", "oob_q", "shm", "mmio", "host", "regions", "device"}
        /\ pci' = "gone"
    BY <1>9, Zenon DEF FreeHost, Holds
  <2> QED
    BY <2>1 DEF Holds, HeldAt
<1> QED
  BY <1>1, <1>2, <1>3, <1>4, <1>5, <1>6, <1>7, <1>8, <1>9, Zenon DEF Next, Bind, Unwind

\* Before the state machine is started there is nothing to do for the driver.
Before == ~Started => stack = <<>> /\ msg_alloc = {} /\ oob = <<>> /\ up = {} /\ ~comp

\* The probe completes when the state machine has come to rest, which it then
\* does not leave; the disks are freed after that.
Completed ==
    /\ comp => state = "PROBE_FINISHED" /\ Quiet
    /\ pci \in {"removing", "gone"} => comp
    /\ cleaned # {} => pci \in {"removing", "gone"}

\* A queue holds the requests of its own port.
OwnQueue == \A p \in Port : \A i \in DOMAIN rqs[p] : rqs[p][i][1] = p

\* No request of a port that is cleaned up is queued or has a tag.
CleanedPort(p) == p \notin up /\ rqs[p] = <<>> /\ \A t \in msg_alloc : req[t].rq[1] # p

\* A port that has been cleaned up is not used again; after the last one
\* nothing runs, and after blk_cleanup_queue(oob_q) nothing is in flight.
Emptied ==
    /\ OwnQueue
    /\ \A p \in cleaned : CleanedPort(p)
    /\ cleaned = Port => stack = <<>>
    /\ pci = "gone" => cleaned = Port /\ oob = <<>> /\ msg_alloc = {}

\* Only a driver whose state machine has been started gets anything to do.
LEMMA BeforeNext ==
    ASSUME IInv, Before, [Next]_vars
    PROVE  Before'
<1>0. ~Started => Quiet /\ state = "INVALID"
  BY Zenon DEF IInv, Turns
<1>s. ASSUME Started, UNCHANGED pci
      PROVE  Before'
  BY <1>s, Zenon DEF Before, Started
<1>u. ASSUME UNCHANGED <<pci, stack, msg_alloc, oob, up, comp>>
      PROVE  Before'
  BY <1>u, Zenon DEF Before, Started
<1>1. CASE UNCHANGED vars
  BY <1>1, <1>u, Zenon DEF vars, tags, bind
<1>2. CASE RunRq
  <2>1. stack # <<>> /\ UNCHANGED pci
    BY <1>2, Zenon DEF RunRq, RqEmpty, RqBusy, RqNoTag, RqMapFails, RqSend, OobSend, InRq, bind
  <2> QED
    BY <1>s, <2>1, Zenon DEF Before
<1>3. CASE RunIrq
  <2>1. stack # <<>> /\ UNCHANGED pci
    BY <1>3, Zenon DEF RunIrq, HandleResp, SkipEvent, EndOfResponses, HandleRest, InIrq, bind
  <2> QED
    BY <1>s, <2>1, Zenon DEF Before
<1>4. CASE Fsm
  <2>1. ~Quiet
    BY <1>4 DEF Fsm, Message_, FsmStart, FsmSwitch, GetSpecial, SpecialFails, ArrayInfoFails, SendSpecial, AddDisk, FsmWrite, Reschedule, Quiet, Idle
  <2>2. UNCHANGED pci
    BY <1>4, Zenon DEF Fsm, Message_, FsmStart, FsmSwitch, GetSpecial, SpecialFails, ArrayInfoFails, SendSpecial, AddDisk, FsmWrite, Reschedule, bind
  <2> QED
    BY <1>0, <1>s, <2>1, <2>2, Zenon
<1>5. CASE Interrupt
  <2>1. CASE Started
    BY <1>5, <1>s, <2>1, Zenon DEF Interrupt, bind
  <2>2. CASE ~Started
    BY <1>0, <1>5, <1>u, <2>2, Zenon DEF Interrupt, bind, tags, Before
  <2> QED
    BY <2>1, <2>2, Zenon
<1>6. CASE Adapter
  BY <1>6, <1>u, Zenon DEF Adapter, Take, Respond, AdapterEvent, tags, bind
<1>7. CASE \E r \in Request : Submit(r)
  <2>1. up # {} /\ UNCHANGED pci
    BY <1>7, Zenon DEF Submit, bind
  <2> QED
    BY <1>s, <2>1, Zenon DEF Before
<1>8. CASE ProbeStage \/ ProbeFails
  <2>1. ~Started /\ UNCHANGED <<stack, msg_alloc, oob, up, comp>>
    BY <1>8, Stages, Zenon DEF ProbeStage, ProbeFails, Started, tags
  <2> QED
    BY <2>1, Zenon DEF Before
<1>9. CASE Unbind \/ Unwind
  <2>1. Started'
    BY <1>9, Zenon DEF Unbind, Unwind, DelGendisk, CleanupQueue, FreeHost, Started
  <2> QED
    BY <2>1, Zenon DEF Before
<1> QED
  BY <1>1, <1>2, <1>3, <1>4, <1>5, <1>6, <1>7, <1>8, <1>9, Zenon DEF Next, Locked, Bind

\* fsm_task is not scheduled again after HST_PROBE_FINISHED, and carm_remove_one
\* comes after the completion it signals.
LEMMA CompletedNext ==
    ASSUME IInv, Before, Completed, [Next]_vars
    PROVE  Completed'
<1>0. Types /\ Turns
  BY Zenon DEF IInv
<1>u. ASSUME UNCHANGED <<state, work, fsm, bind>>
      PROVE  Completed'
  BY <1>u, Zenon DEF Completed, Quiet, bind
<1>1. CASE UNCHANGED vars
  BY <1>1, <1>u, Zenon DEF vars
<1>2. CASE RunRq
  BY <1>2, <1>u, Zenon DEF RunRq, RqEmpty, RqBusy, RqNoTag, RqMapFails, RqSend, OobSend
<1>3. CASE HandleResp \/ SkipEvent \/ EndOfResponses \/ Interrupt
  BY <1>3, <1>u, Zenon DEF HandleResp, SkipEvent, EndOfResponses, Interrupt
<1>4. CASE HandleRest
  <2>1. 1 \in DOMAIN stack /\ stack[1] = Top /\ Top \in Frame /\ Top.fn = "handle"
    BY <1>0, <1>4, Pop, Zenon DEF HandleRest, Top, Types, QueueTypes
  <2>2. state = Expected[Top.type] /\ Top.type \in DOMAIN Expected
    BY <1>0, <2>1, Frames, Zenon DEF Turns, Handles
  <2>3. state # "PROBE_FINISHED"
    BY <2>2 DEF Expected
  <2>4. UNCHANGED bind
    BY <1>4, Zenon DEF HandleRest
  <2> QED
    BY <2>3, <2>4, Zenon DEF Completed, bind
<1>5. CASE FsmStart \/ Message_ \/ FsmWrite \/ Reschedule
  <2>1. ~Quiet
    BY <1>5 DEF Message_, FsmStart, GetSpecial, SpecialFails, ArrayInfoFails, SendSpecial, FsmWrite, Reschedule, Quiet, Idle
  <2>2. UNCHANGED bind
    BY <1>5, Zenon DEF Message_, FsmStart, GetSpecial, SpecialFails, ArrayInfoFails, SendSpecial, FsmWrite, Reschedule
  <2> QED
    BY <2>1, <2>2, Zenon DEF Completed, bind
<1>6. CASE AddDisk
  <2>1. ~Quiet
    BY <1>6 DEF AddDisk, Quiet, Idle
  <2> QED
    BY <1>6, <2>1, Zenon DEF Completed, AddDisk
<1>7. CASE FsmSwitch
  <2>1. ~Quiet /\ fsm # Idle
    BY <1>7 DEF FsmSwitch, Quiet, Idle
  <2>2. ~comp /\ ~work /\ state = fsm.state
    BY <1>0, <1>7, <2>1, Zenon DEF FsmSwitch, Completed, Turns
  <2>3. fsm.state = "PROBE_FINISHED" => fsm' = Idle
    BY <1>7, Zenon DEF FsmSwitch, Sends
  <2> QED
    BY <1>7, <2>2, <2>3, Zenon DEF FsmSwitch, Completed, Quiet
<1>8. CASE Adapter \/ \E r \in Request : Submit(r)
  BY <1>8, <1>u, Zenon DEF Adapter, Take, Respond, AdapterEvent, Submit
<1>9. CASE ProbeStage
  <2>1. ~Started /\ ~comp
    BY <1>9, Stages, Zenon DEF ProbeStage, Started, Before
  <2>2. cleaned = {} /\ NextStage[pci] \notin {"removing", "gone"}
    BY <1>9, <2>1 DEF ProbeStage, Started, Completed, NextStage
  <2> QED
    BY <1>9, <2>1, <2>2, Zenon DEF ProbeStage, Completed
<1>10. CASE ProbeFails
  <2>1. ~Started
    BY <1>10, Stages, Zenon DEF ProbeFails, Started
  <2> QED
    BY <1>10, <2>1, Zenon DEF ProbeFails, Started, Completed, Quiet
<1>11. CASE Unbind \/ FreeHost
  BY <1>11 DEF Unbind, FreeHost, Completed, Quiet
<1>12. CASE \E p \in Port : DelGendisk(p) \/ CleanupQueue(p)
  BY <1>12 DEF DelGendisk, CleanupQueue, Completed, Quiet
<1> QED
  BY <1>1, <1>2, <1>3, <1>4, <1>5, <1>6, <1>7, <1>8, <1>9, <1>10, <1>11, <1>12,
     Zenon DEF Next, Locked, RunIrq, Fsm, Bind, Unwind

\* A request that is fetched leaves its own port's queue.
LEMMA Fetched ==
    ASSUME Types, OwnQueue, NEW p \in Port, rqs[p] # <<>>, rqs' = [rqs EXCEPT ![p] = Tail(@)]
    PROVE  /\ OwnQueue' /\ Head(rqs[p]) \in Request /\ Head(rqs[p])[1] = p
           /\ \A q \in Port \ {p} : rqs'[q] = rqs[q]
<1>1. rqs \in [Port -> Seq(Request)] /\ rqs[p] \in Seq(Request)
  BY Zenon DEF Types, QueueTypes
<1>2. /\ Head(rqs[p]) = rqs[p][1] /\ Head(rqs[p]) \in Request /\ 1 \in DOMAIN rqs[p]
      /\ \A i \in DOMAIN Tail(rqs[p]) : i + 1 \in DOMAIN rqs[p] /\ Tail(rqs[p])[i] = rqs[p][i + 1]
  BY <1>1, Pop, Zenon
<1>3. rqs'[p] = Tail(rqs[p]) /\ \A q \in Port \ {p} : rqs'[q] = rqs[q]
  BY <1>1, Zenon
<1>4. \A i \in DOMAIN rqs'[p] : rqs'[p][i][1] = p
  BY <1>2, <1>3 DEF OwnQueue
<1>5. \A q \in Port \ {p} : \A i \in DOMAIN rqs'[q] : rqs'[q][i][1] = q
  BY <1>3, Zenon DEF OwnQueue
<1>6. OwnQueue'
  BY <1>4, <1>5, Zenon DEF OwnQueue
<1>7. Head(rqs[p])[1] = p
  BY <1>2, Zenon DEF OwnQueue
<1> QED
  BY <1>2, <1>3, <1>6, <1>7, Zenon

\* carm_free_disks empties one port after the other, and none fills again.
LEMMA EmptiedNext ==
    ASSUME IInv, Ranges, Holds, Before, Completed, Emptied, [Next]_vars
    PROVE  Emptied'
<1>0. /\ Types /\ OwnQueue /\ cleaned \subseteq Port /\ up \subseteq Port
      /\ \A p \in cleaned : CleanedPort(p)
      /\ cleaned = Port => stack = <<>>
      /\ pci = "gone" => cleaned = Port /\ oob = <<>> /\ msg_alloc = {}
  BY Zenon DEF IInv, Emptied, OwnQueue, CleanedPort, Ranges, PortRange
<1>g. ASSUME OwnQueue', \A p \in cleaned' : CleanedPort(p)', cleaned' = Port => stack' = <<>>,
             pci' = "gone" => cleaned' = Port /\ oob' = <<>> /\ msg_alloc' = {}
      PROVE  Emptied'
  BY <1>g, Zenon DEF Emptied, OwnQueue, CleanedPort
<1>n. Port # {} /\ OOB \notin Port /\ msg_alloc \subseteq Tag
  <2>1. Port # {} /\ OOB \notin Port
    BY Sx8Assumption DEF Port, OOB
  <2> QED
    BY <1>0, <2>1, MessageTags, Zenon
<1>c. cleaned # {} => comp /\ Quiet /\ pci \in {"removing", "gone"}
  BY Zenon DEF Completed
<1>i. ASSUME cleaned = {}, UNCHANGED <<rqs, cleaned, pci>>
      PROVE  Emptied'
  BY <1>0, <1>n, <1>i, Zenon DEF Emptied, OwnQueue
<1>u. ASSUME UNCHANGED <<rqs, cleaned, up, msg_alloc, req>>
      PROVE  OwnQueue' /\ \A p \in cleaned' : CleanedPort(p)'
  BY <1>0, <1>u, Zenon DEF OwnQueue, CleanedPort
<1>f. ASSUME cleaned # Port, UNCHANGED <<pci, cleaned>>
      PROVE  cleaned' # Port /\ pci' # "gone"
  BY <1>0, <1>f, Zenon
<1>1. CASE UNCHANGED vars
  BY <1>0, <1>1, <1>u, <1>g, Zenon DEF vars, tags, bind
<1>2. CASE \/ \E q \in Queue : RqEmpty(q) \/ RqBusy(q)
           \/ \E p \in Port : RqNoTag(p)
           \/ OobSend \/ SkipEvent \/ EndOfResponses \/ HandleRest
  <2>1. stack # <<>> /\ UNCHANGED <<rqs, tags, bind>>
    BY <1>2, Zenon DEF RqEmpty, RqBusy, RqNoTag, OobSend, SkipEvent, EndOfResponses, HandleRest, InRq, InIrq
  <2> QED
    BY <1>0, <1>g, <1>u, <1>f, <2>1, Zenon DEF tags, bind
<1>3. ASSUME NEW p \in Port, RqMapFails(p)
      PROVE  Emptied'
  <2>1. /\ stack # <<>> /\ rqs[p] # <<>> /\ rqs' = [rqs EXCEPT ![p] = Tail(@)]
        /\ UNCHANGED <<tags, bind>>
    BY <1>3, Zenon DEF RqMapFails, InRq, EndRq, SetTags, Tags, tags
  <2>2. OwnQueue' /\ \A q \in Port \ {p} : rqs'[q] = rqs[q]
    BY <1>0, <2>1, Fetched, Zenon
  <2>3. p \notin cleaned
    BY <1>0, <2>1, Zenon DEF CleanedPort
  <2>4. \A q \in cleaned' : CleanedPort(q)'
    BY <1>0, <2>1, <2>2, <2>3, Zenon DEF CleanedPort, tags, bind
  <2> QED
    BY <1>0, <1>f, <1>g, <2>1, <2>2, <2>4, Zenon DEF bind
<1>4. ASSUME NEW p \in Port, RqSend(p)
      PROVE  Emptied'
  <2>1. /\ stack # <<>> /\ rqs[p] # <<>> /\ rqs' = [rqs EXCEPT ![p] = Tail(@)]
        /\ msg_alloc' = msg_alloc \cup {GetTag}
        /\ UNCHANGED bind
    BY <1>4, Zenon DEF RqSend, InRq
  <2>2. OwnQueue' /\ Head(rqs[p])[1] = p /\ \A q \in Port \ {p} : rqs'[q] = rqs[q]
    BY <1>0, <2>1, Fetched, Zenon
  <2>3. p \notin cleaned
    BY <1>0, <2>1, Zenon DEF CleanedPort
  <2>4. GetTag \in Tag \ msg_alloc
    BY <1>0, <1>4, GetTagFree, Zenon DEF RqSend
  <2>5. req'[GetTag].rq = Head(rqs[p]) /\ \A t \in Tag \ {GetTag} : req'[t] = req[t]
    BY <1>0, <1>4, <2>4 DEF RqSend, Types, HostTypes
  <2>6. ASSUME NEW q \in cleaned
        PROVE  CleanedPort(q)'
    <3>1. q # p /\ rqs'[q] = <<>> /\ q \notin up' /\ \A t \in msg_alloc : req[t].rq[1] # q
      BY <1>0, <2>1, <2>2, <2>3, Zenon DEF CleanedPort, bind
    <3>2. ASSUME NEW t \in msg_alloc'
          PROVE  req'[t].rq[1] # q
      <4>1. CASE t = GetTag
        BY <2>2, <2>5, <3>1, <4>1, Zenon
      <4>2. CASE t \in msg_alloc
        BY <1>n, <2>4, <2>5, <3>1, <4>2, Zenon
      <4> QED
        BY <2>1, <3>2, <4>1, <4>2, Zenon
    <3> QED
      BY <3>1, <3>2, Zenon DEF CleanedPort
  <2> QED
    BY <1>0, <1>f, <1>g, <2>1, <2>2, <2>6, Zenon DEF bind
<1>5. CASE HandleResp
  <2>1. PICK t : SetTags(Put(t))
    BY <1>5, Zenon DEF HandleResp, EndRq
  <2>2. stack # <<>> /\ UNCHANGED <<rqs, bind>>
    BY <1>5, Zenon DEF HandleResp, InIrq
  <2>3. msg_alloc' \subseteq msg_alloc /\ \A s \in msg_alloc' : req'[s] = req[s]
    BY <1>0, <1>n, <2>1, Zenon DEF SetTags, Put, Tags, Types, HostTypes
  <2>4. OwnQueue' /\ \A p \in cleaned' : CleanedPort(p)'
    BY <1>0, <2>2, <2>3, Zenon DEF OwnQueue, CleanedPort, bind
  <2> QED
    BY <1>0, <1>g, <1>f, <2>2, <2>4, Zenon DEF bind
<1>6. CASE Fsm
  <2>1. ~Quiet
    BY <1>6 DEF Fsm, Message_, FsmStart, FsmSwitch, GetSpecial, SpecialFails, ArrayInfoFails, SendSpecial, AddDisk, FsmWrite, Reschedule, Quiet, Idle
  <2>2. UNCHANGED <<rqs, cleaned, pci>>
    BY <1>6, Zenon DEF Fsm, Message_, FsmStart, FsmSwitch, GetSpecial, SpecialFails, ArrayInfoFails, SendSpecial, AddDisk, FsmWrite, Reschedule, bind
  <2> QED
    BY <1>c, <1>i, <2>1, <2>2, Zenon
<1>7. CASE Interrupt
  <2>1. "irq" \in held /\ UNCHANGED <<rqs, tags, bind>>
    BY <1>7, Zenon DEF Interrupt
  <2>2. pci \notin {"removing", "gone"}
    BY <2>1 DEF Holds, HeldAt
  <2> QED
    BY <1>c, <1>i, <2>1, <2>2, Zenon DEF bind
<1>8. CASE Adapter
  BY <1>0, <1>8, <1>u, <1>g, Zenon DEF Adapter, Take, Respond, AdapterEvent, tags, bind
<1>9. ASSUME NEW r \in Request, Submit(r)
      PROVE  Emptied'
  <2> DEFINE p == r[1]
  <2>1. p \in up /\ rqs' = [rqs EXCEPT ![p] = Append(@, r)] /\ UNCHANGED <<tags, bind>>
    BY <1>9, Zenon DEF Submit
  <2>2. p \in Port /\ p \notin cleaned
    BY <1>0, <2>1, Zenon DEF CleanedPort
  <2>3. OwnQueue'
    <3>1. rqs \in [Port -> Seq(Request)] /\ rqs[p] \in Seq(Request)
      BY <1>0, <2>2, Zenon DEF Types, QueueTypes
    <3>2. \A i \in DOMAIN Append(rqs[p], r) : Append(rqs[p], r)[i] = r \/ (i \in DOMAIN rqs[p] /\ Append(rqs[p], r)[i] = rqs[p][i])
      BY <3>1
    <3>3. rqs'[p] = Append(rqs[p], r) /\ \A q \in Port \ {p} : rqs'[q] = rqs[q]
      BY <2>1, <2>2, <3>1, Zenon
    <3>4. \A i \in DOMAIN rqs'[p] : rqs'[p][i][1] = p
      <4>1. \A i \in DOMAIN rqs[p] : rqs[p][i][1] = p
        BY <1>0, <2>2, Zenon DEF OwnQueue
      <4> QED
        BY <3>2, <3>3, <4>1
    <3> QED
      BY <1>0, <3>3, <3>4, Zenon DEF OwnQueue
  <2>4. \A q \in cleaned' : CleanedPort(q)'
    <3>1. \A q \in Port \ {p} : rqs'[q] = rqs[q]
      BY <1>0, <2>1, Zenon DEF Types, QueueTypes
    <3> QED
      BY <1>0, <2>1, <2>2, <3>1, Zenon DEF CleanedPort, tags, bind
  <2> QED
    BY <1>f, <1>g, <2>1, <2>2, <2>3, <2>4, Zenon DEF bind
<1>10. CASE ProbeStage \/ ProbeFails
  <2>1. pci \in DOMAIN NextStage /\ UNCHANGED <<rqs, cleaned>> /\ (pci' = NextStage[pci] \/ pci' = "failed")
    BY <1>10, Zenon DEF ProbeStage, ProbeFails
  <2>2. pci' # "gone" /\ pci \notin {"removing", "gone"}
    BY <2>1 DEF NextStage
  <2> QED
    BY <1>0, <1>c, <1>g, <1>n, <2>1, <2>2, Zenon DEF OwnQueue
<1>11. CASE Unbind
  <2>1. pci = "wait" /\ pci' = "removing" /\ UNCHANGED <<rqs, cleaned>>
    BY <1>11, Zenon DEF Unbind
  <2> QED
    BY <1>0, <1>c, <1>g, <1>n, <2>1, Zenon DEF OwnQueue
<1>12. ASSUME NEW p \in Port, DelGendisk(p)
       PROVE  Emptied'
  <2>1. p \in up /\ up' \subseteq up /\ UNCHANGED <<rqs, tags, pci, cleaned>>
    BY <1>12, Zenon DEF DelGendisk
  <2>2. p \notin cleaned
    BY <1>0, <2>1, Zenon DEF CleanedPort
  <2>3. OwnQueue' /\ \A q \in cleaned' : CleanedPort(q)'
    BY <1>0, <2>1, Zenon DEF OwnQueue, CleanedPort, tags
  <2> QED
    BY <1>f, <1>g, <2>1, <2>2, <2>3, Zenon
<1>13. ASSUME NEW p \in Port, CleanupQueue(p)
       PROVE  Emptied'
  <2>1. /\ pci = "removing" /\ p \notin up /\ stack = <<>> /\ Drained(p) /\ cleaned' = cleaned \cup {p}
        /\ UNCHANGED <<rqs, tags, stack, pci, up>>
    BY <1>13, Zenon DEF CleanupQueue
  <2>2. ASSUME NEW t \in msg_alloc
        PROVE  req[t].rq[1] # p
    <3>1. req[t].rq \in Request \cup {Special}
      BY <1>0, <1>n, Zenon DEF Types, HostTypes
    <3>2. Special[1] # p
      BY <1>n, Zenon DEF Special
    <3> QED
      BY <2>1, <3>1, <3>2, Zenon DEF Drained, InFlight
  <2>3. CleanedPort(p)
    BY <2>1, <2>2, Zenon DEF CleanedPort, Drained
  <2>4. OwnQueue' /\ \A q \in cleaned' : CleanedPort(q)'
    BY <1>0, <2>1, <2>3, Zenon DEF OwnQueue, CleanedPort, tags
  <2> QED
    BY <1>g, <2>1, <2>4, Zenon
<1>14. CASE FreeHost
  <2>1. cleaned = Port /\ oob = <<>> /\ ~InFlight(Special) /\ UNCHANGED <<rqs, tags, stack, oob, up, cleaned>>
    BY <1>14, Zenon DEF FreeHost
  <2>2. ASSUME NEW t \in msg_alloc
        PROVE  FALSE
    <3>1. req[t].rq \in Request
      BY <1>0, <1>n, <2>1, Zenon DEF Types, HostTypes, InFlight
    <3>2. req[t].rq[1] \in Port
      BY <3>1, Sx8Assumption, Zenon DEF Port
    <3> QED
      BY <1>0, <2>1, <3>2, Zenon DEF CleanedPort
  <2> QED
    BY <1>0, <1>g, <1>u, <2>1, <2>2, Zenon DEF tags
<1> QED
  BY <1>1, <1>2, <1>3, <1>4, <1>5, <1>6, <1>7, <1>8, <1>9, <1>10, <1>11, <1>12, <1>13, <1>14,
     Zenon DEF Next, Locked, RunRq, RunIrq, Bind, Unwind

-----------------------------------------------------------------------------
(* The device that is scanned *)

\* A message or answer with tag t is about array a.
OobSays(t, a)  == \E i \in DOMAIN oob : oob[i].tag = t /\ oob[i].array = a
HwSays(t, a)   == \E i \in DOMAIN hw : hw[i].tag = t /\ hw[i].array = a
BusySays(t, a) == \E m \in busy : m.tag = t /\ m.array = a
RingSays(t, a) == \E i \in DOMAIN ring : ring[i] \in Answer /\ ring[i].tag = t /\ ring[i].array = a
Says(t, a)     == OobSays(t, a) \/ HwSays(t, a) \/ BusySays(t, a) \/ RingSays(t, a)

\* The tag is that of an array_info message.
Asks(t) == req[t].type = "array_info"

\* The one that is under way asks for the array cur_scan_dev stands at, which
\* is one of those the channel scan has reported, until its answer is handled.
AsksForDev == \A t \in Tag, a \in Port \cup {-1} : Asks(t) /\ Says(t, a) => a = cur_scan_dev
ScansPresent ==
    /\ fsm.pc \in {"get", "got"} /\ fsm.state = "DEV_SCAN" => cur_scan_dev \in dev_present
    /\ \A t \in Tag : Asks(t) => cur_scan_dev \in dev_present
    /\ \A i \in DOMAIN stack : Handles(i) /\ stack[i].type = "array_info" =>
        stack[i].answer.array = cur_scan_dev /\ cur_scan_dev \in dev_present
Scanned == AsksForDev /\ ScansPresent /\ ActivatesArrays

\* Only fsm_task gives a tag the type array_info.
LEMMA AsksNext ==
    ASSUME IInv, IInv', [Next]_vars, ~SendSpecial
    PROVE  \A t \in Tag : Asks(t)' => Asks(t)
<1>0. Types /\ HostTypes /\ fsm \in FsmType
  BY Zenon DEF IInv, Types, HostTypes
<1>u. ASSUME UNCHANGED req
      PROVE  \A t \in Tag : Asks(t)' => Asks(t)
  BY <1>u, Zenon DEF Asks
<1>1. CASE UNCHANGED vars \/ Interrupt \/ Adapter \/ Bind \/ \E r \in Request : Submit(r)
  BY <1>1, <1>u, Zenon DEF vars, tags, Interrupt, Adapter, Take, Respond, AdapterEvent, Bind, ProbeStage, ProbeFails,
     Unbind, Unwind, DelGendisk, CleanupQueue, FreeHost, Submit
<1>2. CASE \/ \E q \in Queue : RqEmpty(q) \/ RqBusy(q)
           \/ \E p \in Port : RqNoTag(p) \/ RqMapFails(p)
           \/ OobSend \/ SkipEvent \/ EndOfResponses \/ HandleRest
  BY <1>2, <1>u, Zenon DEF RqEmpty, RqBusy, RqNoTag, RqMapFails, EndRq, SetTags, Tags, OobSend, SkipEvent,
     EndOfResponses, HandleRest, tags
<1>3. CASE \E p \in Port : RqSend(p)
  <2>1. GetTag \in Tag
    BY <1>0, <1>3, GetTagFree, Zenon DEF RqSend
  <2>2. req'[GetTag].type = "rw" /\ \A t \in Tag \ {GetTag} : req'[t] = req[t]
    BY <1>0, <1>3, <2>1 DEF RqSend, HostTypes
  <2> QED
    BY <2>2, Zenon DEF Asks
<1>p. ASSUME NEW t, SetTags(Put(t))
      PROVE  \A s \in Tag : Asks(s)' => Asks(s)
  BY <1>0, <1>p, Zenon DEF SetTags, Put, Tags, Asks, Free, HostTypes
<1>4. CASE HandleResp
  BY <1>4, <1>p, Zenon DEF HandleResp, EndRq
<1>5. CASE FsmStart \/ FsmSwitch \/ AddDisk \/ FsmWrite \/ Reschedule \/ ArrayInfoFails
  BY <1>5, <1>u, Zenon DEF FsmStart, FsmSwitch, AddDisk, FsmWrite, Reschedule, ArrayInfoFails, tags
<1>6. CASE GetSpecial
  BY <1>0, <1>6, Zenon DEF GetSpecial, HostTypes, Asks
<1>7. CASE SpecialFails
  BY <1>7, <1>p, <1>u, Zenon DEF SpecialFails, tags
<1> QED
  BY <1>1, <1>2, <1>3, <1>4, <1>5, <1>6, <1>7, Zenon DEF Next, Locked, RunRq, RunIrq, Fsm, Message_

\* Messages and answers keep their array on their way.
LEMMA SaysNext ==
    ASSUME IInv, IInv', [Next]_vars, ~SendSpecial
    PROVE  \A t \in Tag, a \in Port \cup {-1} : Says(t, a)' /\ Asks(t)' => Says(t, a)
<1>0. Types /\ Once /\ Placed /\ QueueTypes /\ CardTypes
  BY Zenon DEF IInv, Owned, Types
<1>u. ASSUME UNCHANGED <<oob, hw, busy, ring>>
      PROVE  \A t, a : Says(t, a)' => Says(t, a)
  BY <1>u, Zenon DEF Says, OobSays, HwSays, BusySays, RingSays
<1>1. CASE UNCHANGED vars \/ Interrupt \/ Bind \/ \E r \in Request : Submit(r)
  BY <1>1, <1>u, Zenon DEF vars, card, Interrupt, Bind, ProbeStage, ProbeFails,
     Unbind, Unwind, DelGendisk, CleanupQueue, FreeHost, Submit
<1>2. CASE \/ \E q \in Queue : RqEmpty(q) \/ RqBusy(q)
           \/ \E p \in Port : RqNoTag(p) \/ RqMapFails(p)
           \/ EndOfResponses \/ HandleRest
  BY <1>2, <1>u, Zenon DEF RqEmpty, RqBusy, RqNoTag, RqMapFails, EndOfResponses, HandleRest, card
<1>3. ASSUME NEW p \in Port, RqSend(p)
      PROVE  \A t \in Tag, a \in Port \cup {-1} : Says(t, a)' /\ Asks(t)' => Says(t, a)
  <2> DEFINE m == [tag |-> GetTag, rq |-> Head(rqs[p]), type |-> "rw", array |-> -1]
  <2>1. GetTag \in Tag /\ GetTag \notin msg_alloc
    BY <1>0, <1>3, GetTagFree, Zenon DEF RqSend
  <2>2. hw' = Append(hw, m) /\ m.tag = GetTag /\ UNCHANGED <<oob, busy, ring>>
    BY <1>3, Zenon DEF RqSend
  <2>3. m \in Message
    <3>1. Head(rqs[p]) \in Request
      BY <1>0, <1>3, SeqHeadTail, Zenon DEF RqSend, QueueTypes
    <3> QED
      BY <2>1, <3>1, Zenon DEF Message, MsgType
  <2>4. req'[GetTag].type # "array_info"
    BY <1>0, <1>3, <2>1 DEF RqSend, Types, HostTypes
  <2> HIDE DEF m
  <2>5. \A i \in DOMAIN hw' : hw'[i] = m \/ \E j \in DOMAIN hw : hw'[i] = hw[j]
    BY <1>0, <2>1, <2>2, <2>3, Queued, Zenon DEF Placed
  <2>6. \A t, a : HwSays(t, a)' => t = GetTag \/ HwSays(t, a)
    BY <2>2, <2>5, Zenon DEF HwSays
  <2> QED
    BY <2>2, <2>4, <2>6, Zenon DEF Says, OobSays, BusySays, RingSays, Asks
<1>4. CASE OobSend
  <2> DEFINE m == Head(oob)
  <2>1. hw' = Append(hw, m) /\ oob \in Seq(Message) /\ oob # <<>> /\ oob' = Tail(oob) /\ UNCHANGED <<busy, ring>>
    BY <1>0, <1>4, Zenon DEF OobSend, QueueTypes
  <2>2. /\ m = oob[1] /\ m \in Message /\ 1 \in DOMAIN oob
        /\ \A i \in DOMAIN oob' : i + 1 \in DOMAIN oob /\ oob'[i] = oob[i + 1]
    BY <2>1, Pop, Zenon
  <2> HIDE DEF m
  <2>3. m.tag \in Tag /\ InOob(m.tag)
    BY <1>0, <2>2, MessageTags, Zenon DEF InOob
  <2>4. \A i \in DOMAIN hw' : hw'[i] = m \/ \E j \in DOMAIN hw : hw'[i] = hw[j]
    BY <1>0, <2>1, <2>2, <2>3, Queued, Zenon DEF Placed
  <2>5. \A t, a : HwSays(t, a)' => OobSays(t, a) \/ HwSays(t, a)
    BY <2>2, <2>4, Zenon DEF HwSays, OobSays
  <2>6. \A t, a : OobSays(t, a)' => OobSays(t, a)
    BY <2>2, Zenon DEF OobSays
  <2> QED
    BY <2>1, <2>5, <2>6, Zenon DEF Says, BusySays, RingSays
<1>5. CASE Take
  <2>1. hw \in Seq(Message) /\ hw # <<>> /\ hw' = Tail(hw) /\ busy' = busy \cup {Head(hw)} /\ UNCHANGED <<oob, ring>>
    BY <1>0, <1>5, Zenon DEF Take, CardTypes
  <2>2. /\ Head(hw) = hw[1] /\ 1 \in DOMAIN hw
        /\ \A i \in DOMAIN hw' : i + 1 \in DOMAIN hw /\ hw'[i] = hw[i + 1]
    BY <2>1, Pop, Zenon
  <2>3. \A t, a : HwSays(t, a)' => HwSays(t, a)
    BY <2>2, Zenon DEF HwSays
  <2>4. \A t, a : BusySays(t, a)' => BusySays(t, a) \/ HwSays(t, a)
    BY <2>1, <2>2, Zenon DEF HwSays, BusySays
  <2> QED
    BY <2>1, <2>3, <2>4, Zenon DEF Says, OobSays, RingSays
<1>6. ASSUME NEW s \in Tag, Respond(s)
      PROVE  \A t, a : Says(t, a)' => Says(t, a)
  <2>1. PICK m \in busy, ok \in BOOLEAN :
            /\ ring' = [ring EXCEPT ![ring_in] = [tag |-> m.tag, ok |-> ok, array |-> m.array]]
            /\ busy' = busy \ {m}
    BY <1>6, Zenon DEF Respond
  <2>2. UNCHANGED <<oob, hw>>
    BY <1>6, Zenon DEF Respond
  <2>3. \A t, a : RingSays(t, a)' => RingSays(t, a) \/ BusySays(t, a)
    BY <1>0, <2>1, Zenon DEF RingSays, BusySays, CardTypes
  <2>4. \A t, a : BusySays(t, a)' => BusySays(t, a)
    BY <2>1, Zenon DEF BusySays
  <2> QED
    BY <2>2, <2>3, <2>4, Zenon DEF Says, OobSays, HwSays
<1>r. ASSUME NEW i, NEW e \in {NoAnswer, Event}, ring' = [ring EXCEPT ![i] = e] \/ ring' = ring
      PROVE  \A t, a : RingSays(t, a)' => RingSays(t, a)
  BY <1>0, <1>r, NotAnswers, Zenon DEF RingSays, CardTypes
<1>7. CASE HandleResp \/ SkipEvent \/ AdapterEvent
  <2>1. UNCHANGED <<oob, hw, busy>>
    BY <1>7, Zenon DEF HandleResp, SkipEvent, AdapterEvent
  <2>2. \A t, a : RingSays(t, a)' => RingSays(t, a)
    BY <1>7, <1>r, Zenon DEF HandleResp, SkipEvent, AdapterEvent
  <2> QED
    BY <2>1, <2>2, Zenon DEF Says, OobSays, HwSays, BusySays
<1>8. CASE FsmStart \/ FsmSwitch \/ AddDisk \/ FsmWrite \/ Reschedule \/ ArrayInfoFails \/ GetSpecial \/ SpecialFails
  BY <1>8, <1>u, Zenon DEF FsmStart, FsmSwitch, AddDisk, FsmWrite, Reschedule, ArrayInfoFails, GetSpecial, SpecialFails, card
<1> QED
  BY <1>1, <1>2, <1>3, <1>4, <1>5, <1>6, <1>7, <1>8, Zenon DEF Next, Locked, RunRq, RunIrq, Fsm, Message_, Adapter

\* The array_info message asks for the array cur_scan_dev stands at: the scan
\* goes on only when no message is under way.
LEMMA AsksForDevNext ==
    ASSUME IInv, IInv', AsksForDev, [Next]_vars
    PROVE  AsksForDev'
<1>0. Types /\ Placed /\ Turns /\ fsm \in FsmType
  BY Zenon DEF IInv, Owned, Types, HostTypes
<1>n. NoSent => \A t \in Tag : ~Asks(t)
  BY Zenon DEF NoSent, Sent, Asks, Expected
<1>1. CASE SendSpecial
  <2> DEFINE y == Sends[fsm.state]
             m == [tag |-> fsm.tag, rq |-> Special, type |-> y,
                   array |-> IF y = "array_info" THEN cur_scan_dev ELSE -1]
  <2>0. fsm.pc = "got" /\ fsm # Idle /\ UNCHANGED <<hw, busy, ring, cur_scan_dev>>
    BY <1>1 DEF SendSpecial, card, scan, Idle
  <2>1. fsm.tag \in Tag /\ NoSent
    <3>1. fsm.tag \in Tag
      BY <1>0, <2>0 DEF FsmType, Idle
    <3>2. NoSent
      BY <1>0, <2>0, Zenon DEF Turns, NoSent, Quiet
    <3> QED
      BY <3>1, <3>2, Zenon
  <2>2. /\ req'[fsm.tag].type = y
        /\ \A t \in Tag \ {fsm.tag} : req'[t] = req[t]
    BY <1>0, <1>1, <2>1, Zenon DEF SendSpecial, Types, HostTypes
  <2>3. oob' = <<m>> \o oob
    BY <1>1, Zenon DEF SendSpecial
  <2>4. m.tag = fsm.tag /\ (y = "array_info" => m.array = cur_scan_dev)
    BY Zenon
  <2>5. ~InOob(fsm.tag) /\ ~InHw(fsm.tag) /\ ~InBusy(fsm.tag) /\ ~InRing(fsm.tag)
    BY <1>0, <2>0, <2>1, Zenon DEF Placed, Got
  <2> HIDE DEF m, y
  <2>6. \A i \in DOMAIN oob' : oob'[i] = m \/ \E j \in DOMAIN oob : oob'[i] = oob[j]
    <3>1. oob \in Seq(Message) /\ Len(oob) \in Nat /\ DOMAIN oob = 1 .. Len(oob)
      BY <1>0, SeqLength, Zenon DEF Types, QueueTypes
    <3> QED
      BY <2>3, <3>1
  <2>7. \A t \in Tag : Asks(t)' => t = fsm.tag /\ y = "array_info"
    BY <1>n, <2>1, <2>2, Zenon DEF Asks
  <2>8. \A a : ~HwSays(fsm.tag, a) /\ ~BusySays(fsm.tag, a) /\ ~RingSays(fsm.tag, a) /\ ~OobSays(fsm.tag, a)
    BY <2>5, Zenon DEF HwSays, BusySays, RingSays, OobSays, InHw, InBusy, InRing, InOob
  <2>9. \A t, a : Says(t, a)' => Says(t, a) \/ a = m.array
    BY <2>0, <2>6, Zenon DEF Says, OobSays, HwSays, BusySays, RingSays
  <2> QED
    BY <2>0, <2>4, <2>7, <2>8, <2>9, Zenon DEF AsksForDev, Says
<1>2. CASE ~SendSpecial /\ UNCHANGED cur_scan_dev
  BY <1>2, AsksNext, SaysNext, Zenon DEF AsksForDev
<1>3. CASE FsmSwitch
  <2>1. fsm # Idle /\ UNCHANGED req
    BY <1>3 DEF FsmSwitch, Idle, tags
  <2>2. NoSent
    BY <1>0, <2>1, Zenon DEF Turns, NoSent, Quiet
  <2> QED
    BY <1>n, <2>1, <2>2, Zenon DEF AsksForDev, Asks
<1>4. UNCHANGED cur_scan_dev \/ FsmSwitch
  <2>1. CASE Locked
    BY <2>1, Zenon DEF Locked, RunRq, RunIrq, RqEmpty, RqBusy, RqNoTag, RqMapFails, RqSend, OobSend,
       HandleResp, SkipEvent, EndOfResponses, HandleRest, scan
  <2>2. CASE Fsm
    BY <2>2, Zenon DEF Fsm, Message_, FsmStart, GetSpecial, SpecialFails, ArrayInfoFails, SendSpecial, AddDisk, FsmWrite,
       Reschedule, scan
  <2>3. CASE Bind \/ Interrupt \/ UNCHANGED vars
    BY <2>3, Zenon DEF Bind, ProbeStage, ProbeFails, Unbind, Unwind, DelGendisk, CleanupQueue, FreeHost, Interrupt, vars, scan
  <2>4. CASE Adapter \/ \E r \in Request : Submit(r)
    BY <2>4, Zenon DEF Adapter, Take, Respond, AdapterEvent, Submit, scan
  <2> QED
    BY <2>1, <2>2, <2>3, <2>4, Zenon DEF Next
<1> QED
  BY <1>1, <1>2, <1>3, <1>4, Zenon

\* A step that enters no handler and sends no array_info leaves the scan alone.
LEMMA ScansKept ==
    ASSUME ScansPresent, UNCHANGED cur_scan_dev, dev_present \subseteq dev_present', Keeps(stack'),
           fsm' = fsm \/ fsm'.pc \notin {"get", "got"}, \A t \in Tag : Asks(t)' => Asks(t)
    PROVE  ScansPresent'
<1>1. PICK d \in Int : \A i \in DOMAIN stack' :
          stack'[i].fn = "handle" => i - d \in DOMAIN stack /\ stack[i - d] = stack'[i]
  BY Zenon DEF Keeps
<1>2. \A i \in DOMAIN stack' : Handles(i)' /\ stack'[i].type = "array_info" =>
          stack'[i].answer.array = cur_scan_dev' /\ cur_scan_dev' \in dev_present'
  BY <1>1 DEF ScansPresent, Handles
<1>3. \A t \in Tag : Asks(t)' => cur_scan_dev' \in dev_present'
  BY Zenon DEF ScansPresent
<1>4. fsm'.pc \in {"get", "got"} /\ fsm'.state = "DEV_SCAN" => cur_scan_dev' \in dev_present'
  BY Zenon DEF ScansPresent
<1> QED
  BY <1>2, <1>3, <1>4, Zenon DEF ScansPresent

\* cur_scan_dev stands at a device that is present while its array is asked for.
LEMMA ScansPresentNext ==
    ASSUME TagsFit, IInv, IInv', AsksForDev, ScansPresent, [Next]_vars
    PROVE  ScansPresent'
<1>0. Types /\ Placed /\ Turns /\ fsm \in FsmType /\ stack \in Seq(Frame) /\ dev_present \subseteq Port
  BY Zenon DEF IInv, Owned, Types, HostTypes, QueueTypes
<1>k. ASSUME ~SendSpecial, UNCHANGED cur_scan_dev, dev_present \subseteq dev_present', Keeps(stack'),
             fsm' = fsm \/ fsm'.pc \notin {"get", "got"}
      PROVE  ScansPresent'
  BY <1>k, AsksNext, ScansKept, Zenon
<1>s. fsm.pc # "got" => ~SendSpecial
  BY Zenon DEF SendSpecial
<1>r. ASSUME stack' = stack \/ (stack # <<>> /\ stack' = Tail(stack))
      PROVE  Keeps(stack')
  BY <1>0, <1>r, KeepsHandlers, Zenon
<1>h. ASSUME stack # <<>>
      PROVE  ~SendSpecial
  BY <1>h, Zenon DEF SendSpecial
<1>e. ASSUME NEW c, NEW rest \in Seq(Frame), EndRq(c, rest), Keeps(rest)
      PROVE  Keeps(stack')
  BY <1>0, <1>e, EndRqTypes, KeepsHandlers, Zenon
<1>1. CASE UNCHANGED vars
  BY <1>0, <1>1, KeepsHandlers, ScansKept, Zenon DEF vars, scan, tags, Asks
<1>2. CASE \/ \E q \in Queue : RqEmpty(q) \/ RqBusy(q)
           \/ \E p \in Port : RqNoTag(p) \/ RqSend(p)
           \/ OobSend \/ EndOfResponses
  <2>1. stack # <<>> /\ (stack' = stack \/ stack' = Tail(stack)) /\ UNCHANGED <<scan, fsm>>
    BY <1>2, Zenon DEF RqEmpty, RqBusy, RqNoTag, RqSend, OobSend, EndOfResponses, InRq, InIrq, Return
  <2> QED
    BY <1>h, <1>k, <1>r, <2>1, Zenon DEF scan
<1>3. CASE \E p \in Port : RqMapFails(p)
  <2>1. EndRq(Tags, Tail(stack)) /\ stack # <<>> /\ UNCHANGED <<scan, fsm>>
    BY <1>3, Zenon DEF RqMapFails, InRq
  <2>2. Tail(stack) \in Seq(Frame) /\ Keeps(Tail(stack))
    BY <1>0, <2>1, KeepsHandlers, SeqHeadTail, Zenon
  <2> QED
    BY <1>e, <1>h, <1>k, <2>1, <2>2, Zenon DEF scan
<1>4. CASE SkipEvent
  <2>1. stack # <<>> /\ InIrq /\ stack' = NextSlot /\ UNCHANGED <<scan, fsm>>
    BY <1>4, Zenon DEF SkipEvent, InIrq
  <2> QED
    BY <1>0, <1>h, <1>k, <2>1, KeepsHandlers, Zenon DEF scan
<1>5. CASE HandleRest
  <2>1. stack # <<>> /\ stack' = Tail(stack) /\ UNCHANGED <<cur_scan_dev, fsm>> /\ dev_present \subseteq dev_present'
    BY <1>5, Zenon DEF HandleRest, Return
  <2> QED
    BY <1>h, <1>k, <1>r, <2>1, Zenon
<1>6. CASE Interrupt
  <2>1. resp_idx % RMSG_Q_LEN \in 0 .. RMSG_Q_LEN - 1
    BY <1>0, Sx8Assumption, Remainder, Zenon DEF Types, CardTypes
  <2>2. Keeps(stack')
    BY <1>0, <1>6, <2>1, Frames, KeepsHandlers, Zenon DEF Interrupt
  <2>3. UNCHANGED <<scan, tags, fsm>>
    BY <1>6, Zenon DEF Interrupt
  <2> QED
    BY <2>2, <2>3, ScansKept, Zenon DEF scan, tags, Asks
<1>7. CASE Adapter \/ ProbeStage \/ ProbeFails \/ Unbind \/ FreeHost \/ \E p \in Port : CleanupQueue(p)
  <2>1. UNCHANGED <<scan, tags, fsm, stack>>
    BY <1>7, Zenon DEF Adapter, Take, Respond, AdapterEvent, ProbeStage, ProbeFails, Unbind, FreeHost, CleanupQueue
  <2> QED
    BY <1>0, <2>1, KeepsHandlers, ScansKept, Zenon DEF scan, tags, Asks
<1>8. CASE (\E p \in Port : DelGendisk(p)) \/ (\E r \in Request : Submit(r))
  <2>1. \A p \in Port : Keeps(<<Rq(p)>>) /\ Keeps(<<>>)
    BY <1>0, Frames, KeepsHandlers, Zenon DEF Queue
  <2>2. \A r \in Request : r[1] \in Port
    BY Sx8Assumption, Zenon DEF Port
  <2>3. Keeps(stack')
    BY <1>8, <2>1, <2>2, Zenon DEF DelGendisk, Submit
  <2>4. UNCHANGED <<scan, tags, fsm>>
    BY <1>8, Zenon DEF DelGendisk, Submit
  <2> QED
    BY <2>3, <2>4, ScansKept, Zenon DEF scan, tags, Asks
<1>9. CASE HandleResp
  <2> DEFINE a == ring[Top.idx]
             t == TAG_DECODE(a.tag)
             y == req[t].type
             rest == IF y \in DOMAIN Expected THEN <<Handle(y, a)>> \o NextSlot ELSE NextSlot
  <2>1. a \in Answer /\ EndRq(Put(t), rest) /\ InIrq /\ stack # <<>> /\ UNCHANGED <<scan, fsm>>
    BY <1>9, Zenon DEF HandleResp, InIrq
  <2>2. Top.idx \in DOMAIN ring
    BY <1>0, <2>1, NextSlotType, Zenon DEF Types, CardTypes
  <2>3. t = a.tag /\ t \in Tag /\ a.array \in Port \cup {-1}
    <3>1. a.tag \in Tag /\ InRing(a.tag) /\ a.array \in Port \cup {-1}
      BY <1>0, <2>1, <2>2, MessageTags, Zenon DEF InRing, Answer
    <3>2. a.tag \in msg_alloc
      BY <1>0, <3>1, Zenon DEF Placed
    <3> QED
      BY <1>0, <3>1, <3>2, Decoded, Zenon DEF Types
  <2>4. Says(t, a.array)
    BY <2>1, <2>2, <2>3, Zenon DEF Says, RingSays
  <2>5. y = "array_info" => a.array = cur_scan_dev /\ cur_scan_dev \in dev_present
    BY <2>3, <2>4, Zenon DEF AsksForDev, ScansPresent, Asks
  <2>6. NextSlot \in Seq(Frame) /\ Keeps(NextSlot)
    BY <1>0, <2>1, NextSlotType, KeepsHandlers, Zenon
  <2> HIDE DEF a, t
  <2>7. CASE ~Sent(t)
    <3>1. rest = NextSlot
      BY <2>7, Zenon DEF Sent
    <3> QED
      BY <1>e, <1>h, <1>k, <2>1, <2>6, <3>1, Zenon DEF scan
  <2>8. CASE Sent(t)
    <3>1. NoHandle /\ y \in DOMAIN Expected /\ Quiet
      BY <1>0, <2>3, <2>8, Zenon DEF Turns, Sent
    <3>2. \A i \in DOMAIN NextSlot : NextSlot[i].fn # "handle"
      BY <2>6, <3>1, Zenon DEF Keeps, NoHandle, Handles
    <3>3. rest = <<Handle(y, a)>> \o NextSlot
      BY <3>1, Zenon
    <3>4. Handle(y, a) \in Frame /\ Handle(y, a).type = y /\ Handle(y, a).answer = a
      BY <2>1, <3>1, Frames, Zenon DEF Handle
    <3> HIDE DEF rest
    <3>5. /\ rest \in Seq(Frame) /\ DOMAIN rest = 1 .. Len(rest) /\ Len(rest) \in Nat
          /\ \A i \in DOMAIN rest : rest[i].fn = "handle" => rest[i] = Handle(y, a)
      <4>1. /\ rest \in Seq(Frame) /\ DOMAIN rest = 1 .. Len(NextSlot) + 1 /\ Len(NextSlot) \in Nat
            /\ rest[1] = Handle(y, a) /\ \A i \in 2 .. Len(NextSlot) + 1 : rest[i] = NextSlot[i - 1]
        BY <2>6, <3>3, <3>4, Push, SeqLength
      <4>2. DOMAIN NextSlot = 1 .. Len(NextSlot)
        BY <2>6, SeqLength, Zenon
      <4>3. \A i \in DOMAIN rest : rest[i].fn = "handle" => rest[i] = Handle(y, a)
        BY <3>2, <4>1, <4>2
      <4> QED
        BY <4>1, <4>3, SeqLength, Zenon
    <3>6. \A i \in DOMAIN stack' : Handles(i)' => stack'[i] = Handle(y, a)
      <4>1. CASE stack' = rest
        BY <3>5, <4>1, Zenon DEF Handles
      <4>2. ASSUME NEW q \in Queue, stack' = <<Rq(q)>> \o rest
            PROVE  \A i \in DOMAIN stack' : Handles(i)' => stack'[i] = Handle(y, a)
        <5>1. /\ DOMAIN stack' = 1 .. Len(rest) + 1 /\ stack'[1].fn = "rq"
              /\ \A i \in 2 .. Len(rest) + 1 : stack'[i] = rest[i - 1]
          BY <3>5, <4>2, Push, Frames
        <5>2. \A i \in 1 .. Len(rest) + 1 : i = 1 \/ (i \in 2 .. Len(rest) + 1 /\ i - 1 \in DOMAIN rest)
          BY <3>5
        <5> QED
          BY <3>5, <5>1, <5>2, Zenon DEF Handles
      <4>3. stack' = rest \/ \E q \in Queue : stack' = <<Rq(q)>> \o rest
        BY <1>0, <2>1, <3>5, EndRqTypes, Zenon
      <4> QED
        BY <4>1, <4>2, <4>3, Zenon
    <3>7. \A s \in Tag : Asks(s)' => Asks(s)
      BY <1>h, <2>1, AsksNext, Zenon
    <3>8. \A s \in Tag : Asks(s)' => cur_scan_dev' \in dev_present'
      BY <2>1, <3>7, Zenon DEF ScansPresent, scan
    <3>9. \A i \in DOMAIN stack' : Handles(i)' /\ stack'[i].type = "array_info" =>
              stack'[i].answer.array = cur_scan_dev' /\ cur_scan_dev' \in dev_present'
      BY <2>1, <2>5, <3>4, <3>6, Zenon DEF scan
    <3>10. fsm'.pc \in {"get", "got"} /\ fsm'.state = "DEV_SCAN" => cur_scan_dev' \in dev_present'
      BY <2>1, Zenon DEF ScansPresent, scan
    <3> QED
      BY <3>8, <3>9, <3>10, Zenon DEF ScansPresent
  <2> QED
    BY <2>7, <2>8, Zenon
<1>10. CASE FsmStart \/ FsmWrite \/ Reschedule \/ SpecialFails \/ ArrayInfoFails \/ AddDisk
  <2>1. UNCHANGED <<scan, stack>> /\ (fsm' = fsm \/ fsm'.pc \notin {"get", "got"})
    BY <1>10 DEF FsmStart, FsmWrite, Reschedule, SpecialFails, ArrayInfoFails, AddDisk, FsmAt, FsmSet, Idle
  <2>2. \A t \in Tag : Asks(t)' => Asks(t)
    <3>1. CASE SendSpecial
      BY <1>10, <3>1 DEF SendSpecial, FsmStart, FsmWrite, Reschedule, SpecialFails, ArrayInfoFails, AddDisk,
         FsmAt, FsmSet, Idle
    <3>2. CASE ~SendSpecial
      BY <3>2, AsksNext, Zenon
    <3> QED
      BY <3>1, <3>2, Zenon
  <2> QED
    BY <1>0, <2>1, <2>2, KeepsHandlers, ScansKept, Zenon DEF scan
<1>f. ASSUME fsm # Idle
      PROVE  NoHandle /\ \A t \in Tag : ~Asks(t)
  <2>1. NoHandle /\ NoSent
    BY <1>0, <1>f, Zenon DEF Turns, NoSent, NoHandle, Quiet
  <2> QED
    BY <2>1, Zenon DEF NoSent, Sent, Asks, Expected
<1>11. CASE FsmSwitch
  <2>1. fsm.pc = "switch" /\ fsm # Idle /\ UNCHANGED <<stack, req, dev_present>>
    BY <1>11 DEF FsmSwitch, Idle, tags
  <2>2. NoHandle /\ \A t \in Tag : ~Asks(t)
    BY <1>f, <2>1, Zenon
  <2>3. fsm'.pc \in {"get", "got"} /\ fsm'.state = "DEV_SCAN" => cur_scan_dev' \in dev_present
    <3>0. fsm.state \in HostState \ {"INVALID"}
      BY <1>0, <2>1 DEF FsmType, Idle, Turns, Quiet
    <3>1. CASE fsm.state # "DEV_SCAN"
      BY <1>11, <3>0, <3>1, Switched DEF FsmAt, FsmSet, Idle
    <3>2. CASE fsm.state = "DEV_SCAN" /\ NextDev = {}
      <4>1. fsm' = FsmSet("DEV_ACTIVATE")
        BY <1>11, <3>2 DEF FsmSwitch
      <4> QED
        BY <4>1 DEF FsmSet
    <3>3. CASE fsm.state = "DEV_SCAN" /\ NextDev # {}
      <4>1. cur_scan_dev' = Min(NextDev)
        BY <1>11, <3>3 DEF FsmSwitch
      <4>0. NextDev \subseteq dev_present /\ NextDev \subseteq Port
        BY <1>0, Zenon DEF NextDev
      <4>2. NextDev \subseteq Int /\ 0 \in Int /\ \A x \in NextDev : x >= 0
        BY <4>0, Sx8Assumption DEF Port
      <4>3. Min(NextDev) \in NextDev
        BY <3>3, <4>2, MinMember, Zenon
      <4> QED
        BY <4>0, <4>1, <4>3, Zenon
    <3> QED
      BY <3>1, <3>2, <3>3, Zenon
  <2> QED
    BY <2>1, <2>2, <2>3, Zenon DEF ScansPresent, NoHandle, Handles, Asks
<1>12. CASE GetSpecial
  <2>1. fsm.pc = "get" /\ fsm'.pc = "got" /\ fsm'.state = fsm.state /\ fsm # Idle /\ UNCHANGED <<stack, scan>>
    BY <1>12 DEF GetSpecial, Idle
  <2>2. NoHandle /\ \A t \in Tag : ~Asks(t)
    BY <1>f, <2>1, Zenon
  <2>3. \A t \in Tag : ~Asks(t)'
    BY <1>s, <2>1, <2>2, AsksNext, Zenon
  <2> QED
    BY <2>1, <2>2, <2>3, Zenon DEF ScansPresent, NoHandle, Handles, scan
<1>13. CASE SendSpecial
  <2>1. /\ fsm.pc = "got" /\ fsm # Idle /\ fsm'.pc = "idle" /\ UNCHANGED scan
        /\ stack' = <<>> \/ stack' = <<Rq(OOB)>>
    BY <1>13 DEF SendSpecial, Idle
  <2>2. \A t \in Tag : ~Asks(t)
    BY <1>f, <2>1, Zenon
  <2>3. fsm.tag \in Tag /\ fsm.state \in DOMAIN Sends
    BY <1>0, <2>1 DEF FsmType, Idle
  <2>4. req'[fsm.tag].type = Sends[fsm.state] /\ \A s \in Tag \ {fsm.tag} : req'[s] = req[s]
    BY <1>0, <1>13, <2>3, Zenon DEF SendSpecial, Types, HostTypes
  <2>5. Sends[fsm.state] = "array_info" => fsm.state = "DEV_SCAN"
    BY <2>3 DEF Sends
  <2>6. \A t \in Tag : Asks(t)' => cur_scan_dev' \in dev_present'
    BY <2>1, <2>2, <2>4, <2>5, Zenon DEF Asks, ScansPresent, scan
  <2>7. \A i \in DOMAIN stack' : ~Handles(i)'
    <3>1. Rq(OOB).fn # "handle"
      BY Frames, Zenon DEF Queue
    <3> QED
      BY <2>1, <3>1 DEF Handles
  <2> QED
    BY <2>1, <2>6, <2>7, Zenon DEF ScansPresent
<1> QED
  BY <1>1, <1>2, <1>3, <1>4, <1>5, <1>6, <1>7, <1>8, <1>9, <1>10, <1>11, <1>12, <1>13,
     Zenon DEF Next, Locked, RunRq, RunIrq, Fsm, Message_, Bind, Unwind

\* A port is activated only when its own array_info has been answered.
LEMMA ActivatesNext ==
    ASSUME IInv, ScansPresent, ActivatesArrays, [Next]_vars
    PROVE  ActivatesArrays'
<1>0. Types /\ stack \in Seq(Frame)
  BY Zenon DEF IInv, Types, QueueTypes
<1>u. ASSUME UNCHANGED <<dev_active, dev_present>>
      PROVE  ActivatesArrays'
  BY <1>u, Zenon DEF ActivatesArrays
<1>1. CASE UNCHANGED vars \/ RunRq
  BY <1>1, <1>u, Zenon DEF vars, scan, RunRq, RqEmpty, RqBusy, RqNoTag, RqMapFails, RqSend, OobSend
<1>2. CASE HandleResp \/ SkipEvent \/ EndOfResponses \/ Interrupt \/ Adapter
  BY <1>2, <1>u, Zenon DEF HandleResp, SkipEvent, EndOfResponses, Interrupt, Adapter, Take, Respond, AdapterEvent, scan
<1>3. CASE HandleRest
  <2>1. 1 \in DOMAIN stack /\ stack[1] = Top
    BY <1>0, <1>3, Pop, Zenon DEF HandleRest, Top
  <2>2. Top.fn = "handle" /\ dev_present \subseteq dev_present'
    BY <1>3, Zenon DEF HandleRest
  <2>3. Top.type = "array_info" => Top.answer.array = cur_scan_dev /\ cur_scan_dev \in dev_present
    BY <2>1, <2>2, Zenon DEF ScansPresent, Handles
  <2>4. dev_active' = dev_active \/ (dev_active' = dev_active \cup {cur_scan_dev} /\ cur_scan_dev \in Arrays \cap dev_present)
    BY <1>3, <2>3, Zenon DEF HandleRest, ArrayExists
  <2> QED
    BY <2>2, <2>4, Zenon DEF ActivatesArrays
<1>4. CASE Fsm
  BY <1>4, <1>u, Zenon DEF Fsm, Message_, FsmStart, FsmSwitch, GetSpecial, SpecialFails, ArrayInfoFails, SendSpecial, AddDisk, FsmWrite, Reschedule, scan
<1>5. CASE Bind \/ \E r \in Request : Submit(r)
  BY <1>5, <1>u, Zenon DEF Bind, ProbeStage, ProbeFails, Unbind, Unwind, DelGendisk, CleanupQueue, FreeHost, Submit, scan
<1> QED
  BY <1>1, <1>2, <1>3, <1>4, <1>5, Zenon DEF Next, Locked, RunIrq

-----------------------------------------------------------------------------
(* The whole, and the theorems *)

\* The whole of it: the tags and their turns, the counters, the ranges, the
\* resources and the scan.
Whole == IInv /\ Counts /\ Ranges /\ Holds /\ Before /\ Completed /\ Emptied /\ Scanned

\* Before the probe there is nothing to count, to release or to scan.
LEMMA WholeInit == Init => Whole
<1> SUFFICES ASSUME Init PROVE Whole
  BY Zenon
<1>1. IInv
  BY IInvInit, Zenon
<1>2. Counts
  <2>1. req \in [Tag -> RequestType] /\ msg_alloc = {} /\ n_msgs = 0 /\ hw_sg_used = 0 /\ \A t \in Tag : req[t].n_elem = 0
    BY <1>1, Zenon DEF IInv, Types, HostTypes, RequestType, Init, Free
  <2>2. Entries(req, {}) = 0 /\ Cardinality({}) = 0
    BY <2>1, EntriesNone, FS_EmptySet, Zenon
  <2>3. 0 <= CARM_MAX_HOST_SG /\ 0 <= CARM_MAX_REQ_SG
    BY Sx8Assumption
  <2> QED
    BY <2>1, <2>2, <2>3, Zenon DEF Counts
<1>3. Ranges
  <2>1. 0 \in 0 .. WIDTH - 1
    BY Sx8Assumption
  <2> QED
    BY <2>1, Zenon DEF Init, Ranges, WaitRange, PortRange
<1>4. Holds
  BY DEF Init, Holds, HeldAt
<1>5. Before
  BY Zenon DEF Init, Before
<1>6. Completed
  BY DEF Init, Completed
<1>7. Emptied
  <2>1. Port # {}
    BY Sx8Assumption DEF Port
  <2>2. \A p \in Port : \A i \in DOMAIN rqs[p] : FALSE
    BY DEF Init
  <2>3. cleaned = {} /\ pci # "gone"
    BY DEF Init
  <2> QED
    BY <2>1, <2>2, <2>3, Zenon DEF Emptied, OwnQueue
<1>8. Scanned
  <2>1. \A t \in Tag : ~Asks(t)
    BY DEF Init, Free, Asks
  <2>2. DOMAIN stack = {} /\ fsm.pc = "idle"
    BY DEF Init, Idle
  <2>3. ActivatesArrays
    BY Zenon DEF Init, ActivatesArrays
  <2> QED
    BY <2>1, <2>2, <2>3, Zenon DEF Scanned, AsksForDev, ScansPresent
<1> QED
  BY <1>1, <1>2, <1>3, <1>4, <1>5, <1>6, <1>7, <1>8, Zenon DEF Whole

\* Every step keeps the whole.
LEMMA WholeNext ==
    ASSUME TagsFit, Whole, [Next]_vars
    PROVE  Whole'
<1>0. IInv /\ Counts /\ Ranges /\ Holds /\ Before /\ Completed /\ Emptied /\ AsksForDev /\ ScansPresent /\ ActivatesArrays
  BY Zenon DEF Whole, Scanned
<1>1. IInv' /\ Types'
  BY <1>0, IInvNext, Zenon DEF IInv
<1>2. Counts' /\ Ranges' /\ Holds' /\ Before' /\ Completed' /\ Emptied'
  BY <1>0, <1>1, CountsNext, RangesNext, HoldsNext, BeforeNext, CompletedNext, EmptiedNext, Zenon
<1>3. Scanned'
  BY <1>0, <1>1, AsksForDevNext, ScansPresentNext, ActivatesNext, Zenon DEF Scanned
<1> QED
  BY <1>1, <1>2, <1>3, Zenon DEF Whole

\* The whole holds throughout.
LEMMA WholeAlways ==
    ASSUME TagsFit
    PROVE  Spec => []Whole
BY WholeInit, WholeNext, PTL DEF Spec

\* n_msgs and hw_sg_used, which decide whether carm_get_request hands out a tag
\* and whether carm_end_rq starts a queue, are exact, and the adapter never gets
\* more scatter/gather entries than CARM_MAX_HOST_SG.
THEOREM CountersAreExact ==
    ASSUME TagsFit
    PROVE  Spec => []Accounting
<1>1. Whole => Accounting
  BY Zenon DEF Whole, Counts, Accounting, Entries
<1> QED
  BY <1>1, WholeAlways, PTL

\* carm_handle_array_info activates the port at cur_scan_dev, which is the one
\* the answer is about, although the answer's own array is not looked at.
THEOREM OnlyArraysActivated ==
    ASSUME TagsFit
    PROVE  Spec => []ActivatesArrays
<1>1. Whole => ActivatesArrays
  BY Zenon DEF Whole, Scanned
<1> QED
  BY <1>1, WholeAlways, PTL

\* Whichever step of carm_init_one fails, and when carm_remove_one is done, all
\* is released, and nothing that uses the host is left once it is freed.
THEOREM NothingUsesFreedHost ==
    ASSUME TagsFit
    PROVE  Spec => []FreedQuiet
<1>1. Whole => FreedQuiet
  <2> SUFFICES ASSUME Whole PROVE FreedQuiet
    BY Zenon
  <2>0. Holds /\ Before /\ Completed /\ Emptied /\ Turns
    BY Zenon DEF Whole, IInv
  <2>1. pci \in {"failed", "gone"} => held = {}
    BY <2>0 DEF Holds, HeldAt
  <2>2. "host" \notin held => ~Started \/ pci = "gone"
    BY <2>0 DEF Holds, HeldAt, Started
  <2>3. ~Started => stack = <<>> /\ ~work /\ fsm = Idle /\ msg_alloc = {} /\ oob = <<>>
    BY <2>0, Zenon DEF Before, Turns, Quiet
  <2>4. pci = "gone" => stack = <<>> /\ ~work /\ fsm = Idle /\ msg_alloc = {} /\ oob = <<>>
    BY <2>0, Zenon DEF Completed, Emptied, Quiet
  <2> QED
    BY <2>1, <2>2, <2>3, <2>4, Zenon DEF FreedQuiet
<1> QED
  BY <1>1, WholeAlways, PTL

\* Every field of struct carm_host stays within its type: the tags and the wait
\* queue's slots within their arrays, the counters within their width.
THEOREM Sx8TypeCorrect ==
    ASSUME TagsFit
    PROVE  Spec => []TypeOK
<1>1. Whole => TypeOK
  <2> SUFFICES ASSUME Whole PROVE TypeOK
    BY Zenon
  <2>0. Types /\ Counts /\ Ranges /\ Holds /\ HostTypes /\ QueueTypes /\ CardTypes
    BY Zenon DEF Whole, IInv, Types
  <2>1. /\ msg_alloc \subseteq Tag /\ req \in [Tag -> RequestType]
        /\ Cardinality(msg_alloc) \in 0 .. CARM_MAX_REQ /\ Entries(req, msg_alloc) \in Nat
    BY <2>0, TagsFinite, EntriesSame, Zenon DEF SameEntries
  <2>2. req \in [Tag -> [n_elem : 0 .. CARM_MAX_REQ_SG, rq : Request \cup {Special}, type : MsgType \cup {"none"}]]
    <3>1. ASSUME NEW t \in Tag
          PROVE  req[t] \in [n_elem : 0 .. CARM_MAX_REQ_SG, rq : Request \cup {Special}, type : MsgType \cup {"none"}]
      <4>1. req[t] \in RequestType /\ req[t].n_elem <= CARM_MAX_REQ_SG
        BY <2>0, <2>1, Zenon DEF Counts
      <4>2. req[t].n_elem \in 0 .. CARM_MAX_REQ_SG
        <5>1. req[t].n_elem \in Nat /\ CARM_MAX_REQ_SG \in Nat
          BY <4>1, Sx8Assumption, Zenon DEF RequestType
        <5> QED
          BY <4>1, <5>1
      <4> QED
        BY <4>1, <4>2, Zenon DEF RequestType
    <3> QED
      BY <2>1, <3>1, Zenon
  <2>3. /\ pci \in DOMAIN NextStage \cup {"wait", "failed", "removing", "gone"}
        /\ held \subseteq DOMAIN NextStage \cup {"major"}
    BY <2>0 DEF Holds, HeldAt, NextStage
  <2>4. fsm \in {Idle} \cup [pc : {"reschedule"}] \cup [pc : {"switch", "get", "err_out", "activate"}, state : HostState]
               \cup [pc : {"got"}, state : DOMAIN Sends, tag : Tag]
               \cup [pc : {"set"}, state : HostState, new : HostState]
    <3>1. DOMAIN Sends \subseteq HostState /\ {"DEV_ACTIVATE", "DEV_SCAN"} \subseteq HostState
      BY Tables, Zenon DEF HostState
    <3> QED
      BY <2>0, <3>1, Zenon DEF HostTypes, FsmType
  <2>5. n_msgs \in 0 .. CARM_MAX_REQ /\ hw_sg_used \in Nat
    BY <2>0, <2>1, Zenon DEF Counts
  <2>6. {wait_q_prod, wait_q_cons, resp_idx} \subseteq 0 .. WIDTH - 1
    BY <2>0, Zenon DEF Ranges, WaitRange
  <2> QED
    BY <2>0, <2>1, <2>2, <2>3, <2>4, <2>5, <2>6,
       Zenon DEF TypeOK, HostTypes, QueueTypes, CardTypes, Ranges, WaitRange, PortRange
<1> QED
  BY <1>1, WholeAlways, PTL

=============================================================================
