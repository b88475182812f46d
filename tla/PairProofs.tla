----------------------------- MODULE PairProofs -----------------------------
(***************************************************************************)
(* The pairs of entry points, and the check of one pair.                   *)
(*                                                                         *)
(* DeviceDriver.ParseAndInitialize, for every .info file: the list of      *)
(* pairs holds every two functions that may run concurrently exactly once, *)
(* through a clone where the network matters and directly elsewhere.       *)
(*                                                                         *)
(* The checker procedure of a pair reports exactly the regions whose       *)
(* recorded accesses conflict without a common lock, for every driver,     *)
(* every set of locks and regions, and runs of every length.  At every     *)
(* point of the two calls the instrumented state is a function of the      *)
(* record of accesses so far (Recorded), because no update ever adds a     *)
(* lock that the entry point skips (Unskipped) and the second call starts  *)
(* from the state the checker required (Fresh).                            *)
(***************************************************************************)
EXTENDS EntryPointPairing, PairCheck, TLAPS

-----------------------------------------------------------------------------
(* The pairs of a driver: the inductive invariant *)

IsSeq(s) == s \in Seq(Range(s))

\* x and y are the same function of the driver: one may be the clone of the other.
SameFunction(x, y) ==
    /\ x.name = y.name /\ x.api = y.api /\ x.module = y.module
    /\ x.init = y.init /\ x.exit = y.exit

\* What the second reading leaves: one function per name, listed as itself and,
\* if it needs one, as its clone.
Listed ==
    /\ \A x \in Range(EntryPoints) : x.clone \in BOOLEAN /\ (x.clone => NeedsClone(x))
    /\ \A x, y \in Range(EntryPoints) : x.name = y.name => SameFunction(x, y)
    /\ \A x \in Range(EntryPoints) : \E y \in Range(EntryPoints) : y.name = x.name /\ ~ y.clone
    /\ \A x \in Range(EntryPoints) :
        NeedsClone(x) => \E y \in Range(EntryPoints) : y.name = x.name /\ y.clone

\* Where the reader and the loops are.
Progress ==
    /\ IsSeq(EntryPoints) /\ IsSeq(EntryPointPairs)
    /\ status = "modules" => EntryPoints = <<>>
    /\ status \notin {"pairing", "done"} => EntryPointPairs = <<>> /\ i = 1 /\ j = 1
    /\ i \in Nat \ {0} /\ j \in Nat \ {0}
    /\ i <= Len(EntryPoints) => j <= Len(EntryPoints)
    /\ status = "done" => i > Len(EntryPoints)

ToBePaired(x, y) == CanBePaired(x, y) /\ CanRunConcurrently(x, y)

Justified ==
    \A p \in Range(EntryPointPairs) :
        p.ep1 \in Range(EntryPoints) /\ p.ep2 \in Range(EntryPoints) /\ ToBePaired(p.ep1, p.ep2)

IsPairOf(p, q) == IsPair(p, Name(q.ep1), Name(q.ep2))

Distinct ==
    \A m, n \in 1 .. Len(EntryPointPairs) : IsPairOf(EntryPointPairs[m], EntryPointPairs[n]) => m = n

\* The iterations of the nested loops that are over.
Visited(k, l) == k < i \/ (k = i /\ l < j)

IsListed(pairs, x, y) == \E p \in Range(pairs) : IsPair(p, Name(x), Name(y))

Collected ==
    \A k, l \in 1 .. Len(EntryPoints) :
        Visited(k, l) /\ ToBePaired(EntryPoints[k], EntryPoints[l])
            => IsListed(EntryPointPairs, EntryPoints[k], EntryPoints[l])

PairingInv == Progress /\ Listed /\ Justified /\ Distinct /\ Collected

-----------------------------------------------------------------------------
(* Lemmas on sequences *)

\* Appending keeps what is in a sequence.
LEMMA Appended ==
    ASSUME NEW s, IsSeq(s), NEW e
    PROVE  /\ IsSeq(Append(s, e)) /\ Range(Append(s, e)) = Range(s) \cup {e}
           /\ Len(s) \in Nat /\ Len(Append(s, e)) = Len(s) + 1
           /\ Append(s, e)[Len(s) + 1] = e
           /\ \A k \in 1 .. Len(s) : Append(s, e)[k] = s[k]
<1>1. \A S : s \in Seq(S) => /\ Append(s, e) \in Seq(S \cup {e}) /\ Len(s) \in Nat
                             /\ Len(Append(s, e)) = Len(s) + 1 /\ Append(s, e)[Len(s) + 1] = e
                             /\ \A k \in 1 .. Len(s) : Append(s, e)[k] = s[k]
  OBVIOUS
<1>2. /\ Append(s, e) \in Seq(Range(s) \cup {e}) /\ Len(s) \in Nat
      /\ Len(Append(s, e)) = Len(s) + 1 /\ Append(s, e)[Len(s) + 1] = e
      /\ \A k \in 1 .. Len(s) : Append(s, e)[k] = s[k]
  BY <1>1, Zenon DEF IsSeq
<1>3. 1 .. (Len(s) + 1) = 1 .. Len(s) \cup {Len(s) + 1}
  BY <1>2
<1>4. Range(Append(s, e)) = Range(s) \cup {e}
  BY <1>2, <1>3, Zenon DEF Range
<1> QED
  BY <1>2, <1>4, Zenon DEF IsSeq

\* An entry and its clone are added one after the other.
LEMMA AppendedTwo ==
    ASSUME NEW s, IsSeq(s)
    PROVE  \A e, f : s \o <<>> = s /\ s \o <<e>> = Append(s, e) /\ s \o <<e, f>> = Append(Append(s, e), f)
<1>1. \A S, e, f : s \in Seq(S) => s \o <<>> = s /\ s \o <<e>> = Append(s, e) /\ s \o <<e, f>> = Append(Append(s, e), f)
  OBVIOUS
<1> QED
  BY <1>1, Zenon DEF IsSeq

\* The empty list.
LEMMA EmptyList == IsSeq(<<>>) /\ Range(<<>>) = {} /\ Len(<<>>) = 0
<1>1. Len(<<>>) = 0 /\ 1 .. 0 = {} /\ \A S : <<>> \in Seq(S)
  OBVIOUS
<1> QED
  BY <1>1, Zenon DEF IsSeq, Range

-----------------------------------------------------------------------------
(* Lemmas on the tables and on the tests of the pairing loop *)

\* No operation of the network runs with the network disabled or disables it.
LEMMA NotNetwork ==
    \A s : s \in NetworkDisabled \cup DisablesNetwork => s \notin NetworkAPI
BY DEF NetworkDisabled, DisablesNetwork, NetworkAPI, RTNLAPI, NetDeviceRTNL, EthtoolRTNL

\* x stands for itself through its clone in the pair with y.
Stands(x, y) == NeedsClone(x) /\ y.api \in NetworkAPI

\* CanBePaired takes the clone of an entry point exactly where the other one is a
\* network operation that the entry point cuts off.
LEMMA PairedAs ==
    ASSUME Listed, NEW x \in Range(EntryPoints), NEW y \in Range(EntryPoints)
    PROVE  CanBePaired(x, y) <=> (x.clone <=> Stands(x, y)) /\ (y.clone <=> Stands(y, x))
<1>1. /\ x.clone \in BOOLEAN /\ y.clone \in BOOLEAN
      /\ x.clone => NeedsClone(x)
      /\ y.clone => NeedsClone(y)
  BY Zenon DEF Listed
<1>2. /\ NeedsClone(x) => x.api \notin NetworkAPI
      /\ NeedsClone(y) => y.api \notin NetworkAPI
  BY NotNetwork, Zenon DEF NeedsClone, IsCalledWithNetworkDisabled, IsGoingToDisableNetwork
<1>3. CASE Stands(x, y)
  <2>1. y.api \in NetworkAPI /\ ~ NeedsClone(y) /\ ~ y.clone
    BY <1>1, <1>2, <1>3, Zenon DEF Stands
  <2>2. CanBePaired(x, y) <=> x.clone
    BY <1>1, <1>3, <2>1, Zenon DEF CanBePaired, Stands, NeedsClone
  <2> QED
    BY <1>1, <1>3, <2>1, <2>2, Zenon DEF Stands
<1>4. CASE Stands(y, x)
  <2>1. x.api \in NetworkAPI /\ ~ NeedsClone(x) /\ ~ x.clone
    BY <1>1, <1>2, <1>4, Zenon DEF Stands
  <2>2. CanBePaired(x, y) <=> y.clone
    BY <1>1, <1>4, <2>1, Zenon DEF CanBePaired, Stands, NeedsClone
  <2> QED
    BY <1>1, <1>4, <2>1, <2>2, Zenon DEF Stands
<1>5. CASE ~ Stands(x, y) /\ ~ Stands(y, x)
  BY <1>1, <1>5, Zenon DEF CanBePaired, Stands, NeedsClone
<1> QED
  BY <1>3, <1>4, <1>5, Zenon

\* Whether a clone is taken, and whether two entry points may run concurrently, is
\* the same for an entry point and its clone.
LEMMA SameAnswers ==
    ASSUME NEW x, NEW y, NEW v, NEW w, SameFunction(x, v), SameFunction(y, w)
    PROVE  /\ Stands(x, y) <=> Stands(v, w)
           /\ CanRunConcurrently(x, y) <=> CanRunConcurrently(v, w)
<1>1. Stands(x, y) <=> Stands(v, w)
  BY Zenon DEF SameFunction, Stands, NeedsClone, IsCalledWithNetworkDisabled, IsGoingToDisableNetwork
<1>2. \A S : (Either(x, y, S) <=> Either(v, w, S)) /\ (Both(x, y, S) <=> Both(v, w, S))
             /\ (SameModule(x, y, S) <=> SameModule(v, w, S))
  BY Zenon DEF SameFunction, Either, Both, SameModule
<1>3. /\ IsFileOperationsSerialised(x, y) <=> IsFileOperationsSerialised(v, w)
      /\ IsBlockOperationsSerialised(x, y) <=> IsBlockOperationsSerialised(v, w)
      /\ IsUSBOperationsSerialised(x, y) <=> IsUSBOperationsSerialised(v, w)
      /\ IsNFCOperationsSerialised(x, y) <=> IsNFCOperationsSerialised(v, w)
  BY <1>2, Zenon DEF IsFileOperationsSerialised, IsBlockOperationsSerialised, IsUSBOperationsSerialised,
                     IsNFCOperationsSerialised
<1>4. x.init = v.init /\ x.exit = v.exit /\ y.init = w.init /\ y.exit = w.exit
  BY Zenon DEF SameFunction
<1>5. CanRunConcurrently(x, y) <=> CanRunConcurrently(v, w)
  BY <1>2, <1>3, <1>4, Zenon DEF CanRunConcurrently
<1> QED
  BY <1>1, <1>5, Zenon

\* CanRunConcurrently does not depend on the order of its arguments.
LEMMA Symmetric ==
    ASSUME NEW x, NEW y
    PROVE  CanRunConcurrently(x, y) <=> CanRunConcurrently(y, x)
<1>1. \A S : (Either(x, y, S) <=> Either(y, x, S)) /\ (Both(x, y, S) <=> Both(y, x, S))
             /\ (SameModule(x, y, S) <=> SameModule(y, x, S))
  BY Zenon DEF Either, Both, SameModule
<1>2. /\ IsFileOperationsSerialised(x, y) <=> IsFileOperationsSerialised(y, x)
      /\ IsBlockOperationsSerialised(x, y) <=> IsBlockOperationsSerialised(y, x)
      /\ IsUSBOperationsSerialised(x, y) <=> IsUSBOperationsSerialised(y, x)
      /\ IsNFCOperationsSerialised(x, y) <=> IsNFCOperationsSerialised(y, x)
  BY <1>1, Zenon DEF IsFileOperationsSerialised, IsBlockOperationsSerialised, IsUSBOperationsSerialised,
                     IsNFCOperationsSerialised
<1> QED
  BY <1>1, <1>2, Zenon DEF CanRunConcurrently

-----------------------------------------------------------------------------
(* Each step keeps the invariant *)

\* Nothing is listed before the file is read.
LEMMA PairingInvInit == EPPInit => PairingInv
<1> SUFFICES ASSUME EPPInit PROVE PairingInv
  OBVIOUS
<1>1. Range(EntryPoints) = {} /\ Range(EntryPointPairs) = {} /\ IsSeq(EntryPoints) /\ IsSeq(EntryPointPairs)
      /\ Len(EntryPoints) = 0 /\ Len(EntryPointPairs) = 0
  BY EmptyList, Zenon DEF EPPInit
<1>2. 1 .. 0 = {} /\ 1 \in Nat \ {0} /\ ~ (1 <= 0)
  OBVIOUS
<1>3. Progress
  BY <1>1, <1>2, Zenon DEF EPPInit, Progress
<1> QED
  BY <1>1, <1>2, <1>3, Zenon DEF PairingInv, Listed, Justified, Distinct, Collected

\* The tests of the pairing loop read the list of modules, and nothing else of the state.
LEMMA SameTests ==
    ASSUME Modules' = Modules
    PROVE  /\ \A x : NeedsClone(x)' <=> NeedsClone(x)
           /\ \A x, y : ToBePaired(x, y)' <=> ToBePaired(x, y)
<1>1. \A x : (IsCalledWithNetworkDisabled(x)' <=> IsCalledWithNetworkDisabled(x))
             /\ (IsGoingToDisableNetwork(x)' <=> IsGoingToDisableNetwork(x))
  BY Zenon DEF IsCalledWithNetworkDisabled, IsGoingToDisableNetwork
<1>2. \A x : NeedsClone(x)' <=> NeedsClone(x)
  BY <1>1, Zenon DEF NeedsClone
<1>3. ASSUME NEW x, NEW y
      PROVE  CanBePaired(x, y)' <=> CanBePaired(x, y)
  BY <1>1 DEF CanBePaired
<1>4. \A x, y : ToBePaired(x, y)' <=> ToBePaired(x, y)
  BY <1>3, Zenon DEF ToBePaired
<1> QED
  BY <1>2, <1>4, Zenon

\* The invariant reads these variables only.
LEMMA PairingInvFrame ==
    ASSUME PairingInv, UNCHANGED <<Modules, EntryPoints, EntryPointPairs, i, j>>, Progress'
    PROVE  PairingInv'
<1>1. /\ Range(EntryPoints)' = Range(EntryPoints) /\ Range(EntryPointPairs)' = Range(EntryPointPairs)
      /\ EntryPoints' = EntryPoints /\ EntryPointPairs' = EntryPointPairs
  BY Zenon DEF Range
<1>2. \A x : NeedsClone(x)' <=> NeedsClone(x)
  BY SameTests, Zenon
<1>3. \A x, y : ToBePaired(x, y)' <=> ToBePaired(x, y)
  BY SameTests, Zenon
<1>4. Listed'
  BY <1>1, <1>2, Zenon DEF PairingInv, Listed
<1>5. Justified'
  BY <1>1, <1>3, Zenon DEF PairingInv, Justified
<1>6. Distinct'
  BY Zenon DEF PairingInv, Distinct
<1>7. Collected'
  BY <1>1, <1>3, Zenon DEF PairingInv, Collected, Visited, IsListed
<1> QED
  BY <1>4, <1>5, <1>6, <1>7, Zenon DEF PairingInv

\* While nothing is listed, no pair is, and no iteration is over.
LEMMA NotPairing ==
    ASSUME Progress, status \notin {"pairing", "done"}
    PROVE  Justified /\ Distinct /\ Collected
<1>1. EntryPointPairs = <<>> /\ i = 1 /\ j = 1
  BY Zenon DEF Progress
<1>2. Range(EntryPointPairs) = {} /\ Len(EntryPointPairs) = 0
  BY <1>1, EmptyList, Zenon
<1>3. 1 .. 0 = {} /\ \A k, l \in 1 .. Len(EntryPoints) : ~ (k < 1 \/ (k = 1 /\ l < 1))
  OBVIOUS
<1> QED
  BY <1>1, <1>2, <1>3, Zenon DEF Justified, Distinct, Collected, Visited

\* The first reading lists no entry point.
LEMMA ReadModuleStep == PairingInv /\ ReadModule => PairingInv'
<1> SUFFICES ASSUME PairingInv, ReadModule PROVE PairingInv'
  OBVIOUS
<1>1. /\ status = "modules" /\ status' \in {"modules", "entries"}
      /\ UNCHANGED <<EntryPoints, EntryPointPairs, i, j>> /\ EntryPoints = <<>>
  BY Zenon DEF ReadModule, PairingInv, Progress
<1>2. Progress' /\ status' \notin {"pairing", "done"}
  <2>1. IsSeq(EntryPoints)' /\ IsSeq(EntryPointPairs)'
    BY <1>1, Zenon DEF PairingInv, Progress, IsSeq, Range
  <2> QED
    BY <1>1, <2>1 DEF PairingInv, Progress
<1>3. Range(EntryPoints)' = {}
  BY <1>1, EmptyList, Zenon
<1>4. Listed'
  BY <1>3, Zenon DEF Listed
<1>5. (Progress /\ status \notin {"pairing", "done"} => Justified /\ Distinct /\ Collected)'
  BY NotPairing, PTL
<1> QED
  BY <1>2, <1>4, <1>5, Zenon DEF PairingInv

\* One entry of the second reading adds a function under a new name, itself first
\* and then the clone it needs, or nothing.
LEMMA ReadEntryStep == PairingInv /\ ReadEntry => PairingInv'
<1> SUFFICES ASSUME PairingInv, ReadEntry PROVE PairingInv'
  OBVIOUS
<1> DEFINE R == Range(EntryPoints)
           ep == NewEntryPoint(info[sec].entries[line], info[sec].api, FALSE)
           c == [ep EXCEPT !.clone = TRUE]
           known == \E k \in 1 .. Len(EntryPoints) : Name(EntryPoints[k]) = Name(ep)
<1>1. status = "entries" /\ UNCHANGED <<Modules, EntryPointPairs, i, j>> /\ status' \in {"entries", "exit"}
  BY Zenon DEF ReadEntry
<1>2. \/ EntryPoints' = EntryPoints
      \/ ~ known /\ NeedsClone(ep) /\ EntryPoints' = EntryPoints \o <<ep, c>>
      \/ ~ known /\ ~ NeedsClone(ep) /\ EntryPoints' = EntryPoints \o <<ep>>
  <2>1. EntryPoints \o <<>> = EntryPoints
    BY AppendedTwo, Zenon DEF PairingInv, Progress
  <2> QED
    BY <2>1, Zenon DEF ReadEntry
<1>3. ~ ep.clone /\ c.clone /\ ep.clone \in BOOLEAN /\ c.clone \in BOOLEAN /\ SameFunction(c, ep)
  BY DEF NewEntryPoint, SameFunction
<1>4. ~ known => \A x \in R : x.name # ep.name
  <2> SUFFICES ASSUME NEW x \in R, x.name = ep.name PROVE known
    BY Zenon
  <2>1. PICK y \in R : y.name = x.name /\ ~ y.clone
    BY Zenon DEF PairingInv, Listed
  <2>2. y.clone \in BOOLEAN
    BY Zenon DEF PairingInv, Listed
  <2>3. y.clone = ep.clone
    BY <1>3, <2>1, <2>2, Zenon
  <2>4. Name(y) = Name(ep)
    BY <2>1, <2>3, Zenon DEF Name
  <2> QED
    BY <2>4, Zenon DEF Range
<1> HIDE DEF ep, c, known
<1>5. \A x : NeedsClone(x)' <=> NeedsClone(x)
  BY <1>1, SameTests, Zenon
<1>6. NeedsClone(c) <=> NeedsClone(ep)
  BY <1>3, Zenon DEF SameFunction, NeedsClone, IsCalledWithNetworkDisabled, IsGoingToDisableNetwork
<1>7. /\ IsSeq(EntryPoints') /\ Len(EntryPoints') \in Nat
      /\ \/ Range(EntryPoints') = R
         \/ ~ known /\ NeedsClone(ep) /\ Range(EntryPoints') = R \cup {ep, c}
         \/ ~ known /\ ~ NeedsClone(ep) /\ Range(EntryPoints') = R \cup {ep}
  <2>1. IsSeq(EntryPoints)
    BY Zenon DEF PairingInv, Progress
  <2>0. \A s, e : IsSeq(s) => IsSeq(Append(s, e)) /\ Range(Append(s, e)) = Range(s) \cup {e}
    BY Appended, Zenon
  <2>2. IsSeq(Append(EntryPoints, ep)) /\ Range(Append(EntryPoints, ep)) = R \cup {ep}
    BY <2>0, <2>1, Zenon
  <2>3. /\ IsSeq(Append(Append(EntryPoints, ep), c))
        /\ Range(Append(Append(EntryPoints, ep), c)) = R \cup {ep} \cup {c}
    BY <2>0, <2>2, Zenon
  <2>4. EntryPoints \o <<ep>> = Append(EntryPoints, ep) /\ EntryPoints \o <<ep, c>> = Append(Append(EntryPoints, ep), c)
    BY <2>1, AppendedTwo
  <2>5. R \cup {ep} \cup {c} = R \cup {ep, c}
    BY Zenon
  <2>6. IsSeq(EntryPoints')
    BY <1>2, <2>1, <2>2, <2>3, <2>4, Zenon
  <2>7. Len(EntryPoints') \in Nat
    BY <2>6, Appended, Zenon
  <2> QED
    BY <1>2, <2>2, <2>3, <2>4, <2>5, <2>6, <2>7, Zenon
<1>8. Listed'
  <2>1. /\ \A x \in R : x.clone \in BOOLEAN /\ (x.clone => NeedsClone(x))
        /\ \A x, y \in R : x.name = y.name => SameFunction(x, y)
        /\ \A x \in R : \E y \in R : y.name = x.name /\ ~ y.clone
        /\ \A x \in R : NeedsClone(x) => \E y \in R : y.name = x.name /\ y.clone
    BY Zenon DEF PairingInv, Listed
  <2>2. CASE Range(EntryPoints') = R
    BY <1>5, <2>1, <2>2, Zenon DEF Listed
  <2>3. CASE ~ known /\ NeedsClone(ep) /\ Range(EntryPoints') = R \cup {ep, c}
    <3>1. c.name = ep.name /\ SameFunction(ep, c) /\ SameFunction(ep, ep) /\ SameFunction(c, c)
      BY <1>3, Zenon DEF SameFunction
    <3>2. \A x \in R : x.name # ep.name
      BY <1>4, <2>3, Zenon
    <3>3. \A x \in R \cup {ep, c} : x.clone \in BOOLEAN /\ (x.clone => NeedsClone(x))
      BY <1>3, <1>6, <2>1, <2>3, Zenon
    <3>4. \A x, y \in R \cup {ep, c} : x.name = y.name => SameFunction(x, y)
      BY <1>3, <2>1, <3>1, <3>2, Zenon
    <3>5. \A x \in R \cup {ep, c} : \E y \in R \cup {ep, c} : y.name = x.name /\ ~ y.clone
      BY <1>3, <2>1, <3>1, Zenon
    <3>6. \A x \in R \cup {ep, c} : NeedsClone(x) => \E y \in R \cup {ep, c} : y.name = x.name /\ y.clone
      BY <1>3, <2>1, <3>1, Zenon
    <3> QED
      BY <1>5, <2>3, <3>3, <3>4, <3>5, <3>6, Zenon DEF Listed
  <2>4. CASE ~ known /\ ~ NeedsClone(ep) /\ Range(EntryPoints') = R \cup {ep}
    <3>1. SameFunction(ep, ep)
      BY Zenon DEF SameFunction
    <3>2. \A x \in R : x.name # ep.name
      BY <1>4, <2>4, Zenon
    <3>3. \A x \in R \cup {ep} : x.clone \in BOOLEAN /\ (x.clone => NeedsClone(x))
      BY <1>3, <2>1, Zenon
    <3>4. \A x, y \in R \cup {ep} : x.name = y.name => SameFunction(x, y)
      BY <2>1, <3>1, <3>2, Zenon
    <3>5. \A x \in R \cup {ep} : \E y \in R \cup {ep} : y.name = x.name /\ ~ y.clone
      BY <1>3, <2>1, Zenon
    <3>6. \A x \in R \cup {ep} : NeedsClone(x) => \E y \in R \cup {ep} : y.name = x.name /\ y.clone
      BY <2>1, <2>4, Zenon
    <3> QED
      BY <1>5, <2>4, <3>3, <3>4, <3>5, <3>6, Zenon DEF Listed
  <2> QED
    BY <1>7, <2>2, <2>3, <2>4, Zenon
<1>9. Progress' /\ status' \notin {"pairing", "done"}
  <2>1. i = 1 /\ j = 1 /\ EntryPointPairs = <<>> /\ IsSeq(EntryPointPairs)
    BY <1>1, Zenon DEF PairingInv, Progress
  <2>2. IsSeq(EntryPoints)' /\ IsSeq(EntryPointPairs)' /\ 1 \in Nat \ {0}
    BY <1>1, <1>7, <2>1, Zenon DEF PairingInv, Progress
  <2>3. status' # "modules" /\ status' \notin {"pairing", "done"}
    BY <1>1
  <2> QED
    BY <1>1, <2>1, <2>2, <2>3, Zenon DEF Progress
<1>10. (Progress /\ status \notin {"pairing", "done"} => Justified /\ Distinct /\ Collected)'
  BY NotPairing, PTL
<1> QED
  BY <1>8, <1>9, <1>10, Zenon DEF PairingInv

\* The reader moves on: nothing is listed.
LEMMA ReaderStep == PairingInv /\ (ReadSharedStruct \/ EndSection) => PairingInv'
<1> SUFFICES ASSUME PairingInv, ReadSharedStruct \/ EndSection PROVE PairingInv'
  OBVIOUS
<1>1. /\ UNCHANGED <<Modules, EntryPoints, EntryPointPairs, i, j>>
      /\ status = "entries" /\ status' \in {"entries", "pairing"}
  BY Zenon DEF ReadSharedStruct, EndSection
<1>2. IsSeq(EntryPoints)' /\ IsSeq(EntryPointPairs)'
  BY <1>1, Zenon DEF PairingInv, Progress, IsSeq, Range
<1>3. status' # "modules" /\ status' # "done" /\ status \notin {"pairing", "done"}
  BY <1>1
<1>4. Progress'
  BY <1>1, <1>2, <1>3, Zenon DEF PairingInv, Progress
<1> QED
  BY <1>1, <1>4, PairingInvFrame, Zenon

\* One iteration of the nested loops: the pair of the two entry points is on the
\* list afterwards if it should be, and is there once.
LEMMA PairStep == PairingInv /\ Pair => PairingInv'
<1> SUFFICES ASSUME PairingInv, Pair PROVE PairingInv'
  OBVIOUS
<1>1. status = "pairing" /\ UNCHANGED <<Modules, EntryPoints>>
  BY Zenon DEF Pair
<1>2. CASE ~ (i <= Len(EntryPoints))
  <2>1. status' = "done" /\ UNCHANGED <<EntryPointPairs, i, j>>
    BY <1>2, Zenon DEF Pair
  <2>2. IsSeq(EntryPoints)' /\ IsSeq(EntryPointPairs)' /\ Len(EntryPoints) \in Nat /\ i \in Nat
    <3>1. IsSeq(EntryPoints)' /\ IsSeq(EntryPointPairs)'
      BY <1>1, <2>1, Zenon DEF PairingInv, Progress, IsSeq, Range
    <3>2. Len(EntryPoints) \in Nat /\ i \in Nat
      BY Appended, Zenon DEF PairingInv, Progress
    <3> QED
      BY <3>1, <3>2, Zenon
  <2>3. i > Len(EntryPoints)
    BY <1>2, <2>2
  <2>4. Progress'
    BY <1>1, <2>1, <2>2, <2>3, Zenon DEF PairingInv, Progress
  <2> QED
    BY <1>1, <2>1, <2>4, PairingInvFrame, Zenon
<1>3. CASE i <= Len(EntryPoints)
  <2> DEFINE n == Len(EntryPoints)
             ep1 == EntryPoints[i]
             ep2 == EntryPoints[j]
             new == [ep1 |-> ep1, ep2 |-> ep2]
             added == CanBePaired(ep1, ep2) /\ IsNewPair(Name(ep1), Name(ep2)) /\ CanRunConcurrently(ep1, ep2)
  <2>1. /\ status' = "pairing"
        /\ EntryPointPairs' = IF added THEN Append(EntryPointPairs, new) ELSE EntryPointPairs
        /\ IF j < n THEN j' = j + 1 /\ i' = i ELSE j' = 1 /\ i' = i + 1
    BY <1>1, <1>3, Zenon DEF Pair
  <2>2. IsSeq(EntryPoints) /\ IsSeq(EntryPointPairs) /\ n \in Nat /\ i \in 1 .. n /\ j \in 1 .. n
    <3>1. IsSeq(EntryPoints) /\ IsSeq(EntryPointPairs) /\ i \in Nat \ {0} /\ j \in Nat \ {0} /\ j <= n
      BY <1>3, Zenon DEF PairingInv, Progress
    <3>2. n \in Nat
      BY <3>1, Appended, Zenon
    <3> QED
      BY <1>3, <3>1, <3>2
  <2>3. ep1 \in Range(EntryPoints) /\ ep2 \in Range(EntryPoints) /\ new.ep1 = ep1 /\ new.ep2 = ep2
    BY <2>2, Zenon DEF Range
  <2> HIDE DEF n, ep1, ep2, new, added
  <2>4. /\ \A k, l \in 1 .. n : Visited(k, l)' => Visited(k, l) \/ (k = i /\ l = j)
        /\ i' \in Nat \ {0} /\ j' \in Nat \ {0} /\ (i' <= n => j' <= n)
    BY <2>1, <2>2 DEF Visited
  <2>5. /\ IsSeq(EntryPointPairs')
        /\ Range(EntryPointPairs') = IF added THEN Range(EntryPointPairs) \cup {new} ELSE Range(EntryPointPairs)
    <3>1. IsSeq(Append(EntryPointPairs, new)) /\ Range(Append(EntryPointPairs, new)) = Range(EntryPointPairs) \cup {new}
      BY <2>2, Appended, Zenon
    <3> QED
      BY <2>1, <2>2, <3>1, Zenon
  <2>6. \A x, y : ToBePaired(x, y)' <=> ToBePaired(x, y)
    BY <1>1, SameTests, Zenon
  <2>7. Range(EntryPoints)' = Range(EntryPoints) /\ EntryPoints' = EntryPoints /\ Len(EntryPoints)' = n
    BY <1>1, Zenon DEF n, Range
  <2>8. Progress'
    <3>1. IsSeq(EntryPoints)' /\ status' # "modules" /\ status' # "done"
      BY <2>1, <2>2, <2>7 DEF IsSeq
    <3> QED
      BY <2>1, <2>4, <2>5, <2>7, <3>1, Zenon DEF Progress
  <2>9. Listed'
    <3>1. \A x : NeedsClone(x)' <=> NeedsClone(x)
      BY <1>1, SameTests, Zenon
    <3> QED
      BY <2>7, <3>1, Zenon DEF PairingInv, Listed
  <2>10. Justified'
    <3>1. added => ToBePaired(ep1, ep2)
      BY Zenon DEF added, ToBePaired
    <3> QED
      BY <2>3, <2>5, <2>6, <2>7, <3>1, Zenon DEF PairingInv, Justified
  <2>11. Distinct'
    <3>1. CASE ~ added
      BY <2>1, <3>1, Zenon DEF PairingInv, Distinct
    <3>2. CASE added
      <4> DEFINE m0 == Len(EntryPointPairs)
      <4>1. /\ m0 \in Nat /\ Len(EntryPointPairs') = m0 + 1 /\ EntryPointPairs'[m0 + 1] = new
            /\ \A k \in 1 .. m0 : EntryPointPairs'[k] = EntryPointPairs[k]
        <5>1. EntryPointPairs' = Append(EntryPointPairs, new)
          BY <2>1, <3>2, Zenon
        <5> QED
          BY <2>2, <5>1, Appended
      <4>2. 1 .. (m0 + 1) = 1 .. m0 \cup {m0 + 1}
        BY <4>1
      <4>3. \A k \in 1 .. m0 : ~ IsPairOf(EntryPointPairs[k], new) /\ ~ IsPairOf(new, EntryPointPairs[k])
        BY <2>3, <3>2, Zenon DEF added, IsNewPair, IsPairOf, IsPair
      <4>4. \A k, l \in 1 .. m0 : IsPairOf(EntryPointPairs[k], EntryPointPairs[l]) => k = l
        BY Zenon DEF PairingInv, Distinct
      <4> HIDE DEF m0
      <4>5. \A k, l \in 1 .. (m0 + 1) : IsPairOf(EntryPointPairs'[k], EntryPointPairs'[l]) => k = l
        BY <4>1, <4>2, <4>3, <4>4, Zenon
      <4> QED
        BY <4>1, <4>5, Zenon DEF Distinct, IsPairOf, IsPair, Name
    <3> QED
      BY <3>1, <3>2, Zenon
  <2>12. Collected'
    <3>1. \A x, y : IsListed(EntryPointPairs, x, y) => IsListed(EntryPointPairs', x, y)
      BY <2>5, Zenon DEF IsListed
    <3>2. ToBePaired(ep1, ep2) => IsListed(EntryPointPairs', ep1, ep2)
      <4>1. CASE added
        BY <2>3, <2>5, <4>1, Zenon DEF IsListed, IsPair
      <4>2. CASE ToBePaired(ep1, ep2) /\ ~ added
        <5>1. IsListed(EntryPointPairs, ep1, ep2)
          BY <4>2, Zenon DEF added, ToBePaired, IsNewPair, IsListed, Range
        <5> QED
          BY <3>1, <5>1, Zenon
      <4> QED
        BY <4>1, <4>2, Zenon
    <3>3. \A k, l \in 1 .. n : Visited(k, l) /\ ToBePaired(EntryPoints[k], EntryPoints[l])
                                  => IsListed(EntryPointPairs, EntryPoints[k], EntryPoints[l])
      BY Zenon DEF PairingInv, Collected, n
    <3>4. \A k, l \in 1 .. n : Visited(k, l)' /\ ToBePaired(EntryPoints[k], EntryPoints[l])
                                  => IsListed(EntryPointPairs', EntryPoints[k], EntryPoints[l])
      BY <1>1, <2>4, <3>1, <3>2, <3>3, Zenon DEF ep1, ep2
    <3> QED
      BY <2>6, <2>7, <3>4, Zenon DEF Collected
  <2> QED
    BY <2>8, <2>9, <2>10, <2>11, <2>12, Zenon DEF PairingInv
<1> QED
  BY <1>2, <1>3, Zenon

\* The invariant holds while a driver's file is read and its pairs are collected.
LEMMA PairingInvariance == EPPSpec => []PairingInv
<1>1. PairingInv /\ [EPPNext]_EPPvars => PairingInv'
  <2> SUFFICES ASSUME PairingInv, [EPPNext]_EPPvars PROVE PairingInv'
    OBVIOUS
  <2>1. CASE UNCHANGED EPPvars
    <3>1. UNCHANGED <<status, Modules, EntryPoints, EntryPointPairs, i, j>>
      BY <2>1, Zenon DEF EPPvars
    <3>2. Progress'
      BY <3>1, Zenon DEF PairingInv, Progress, IsSeq, Range
    <3> QED
      BY <3>1, <3>2, PairingInvFrame, Zenon
  <2> QED
    BY <2>1, ReadModuleStep, ReadEntryStep, ReaderStep, PairStep, Zenon DEF EPPNext
<1> QED
  BY <1>1, PairingInvInit, PTL DEF EPPSpec

-----------------------------------------------------------------------------
(* What the invariant means for the list of pairs *)

\* The two entry points of a pair that stands for a and b are the functions a and b.
LEMMA StandingFor ==
    ASSUME PairingInv, NEW a \in Range(EntryPoints), NEW b \in Range(EntryPoints), NEW k \in Standing(a, b)
    PROVE  LET p == EntryPointPairs[k]
           IN /\ p \in Range(EntryPointPairs) /\ k \in 1 .. Len(EntryPointPairs)
              /\ p.ep1 \in Range(EntryPoints) /\ p.ep2 \in Range(EntryPoints) /\ ToBePaired(p.ep1, p.ep2)
              /\ \/ SameFunction(p.ep1, a) /\ SameFunction(p.ep2, b)
                 \/ SameFunction(p.ep1, b) /\ SameFunction(p.ep2, a)
<1> DEFINE p == EntryPointPairs[k]
<1>1. k \in 1 .. Len(EntryPointPairs) /\ {p.ep1.name, p.ep2.name} = {a.name, b.name}
  BY Zenon DEF Standing
<1>2. p \in Range(EntryPointPairs)
  BY <1>1, Zenon DEF Range
<1> HIDE DEF p
<1>3. p.ep1 \in Range(EntryPoints) /\ p.ep2 \in Range(EntryPoints) /\ ToBePaired(p.ep1, p.ep2)
  BY <1>2, Zenon DEF PairingInv, Justified
<1>4. (p.ep1.name = a.name /\ p.ep2.name = b.name) \/ (p.ep1.name = b.name /\ p.ep2.name = a.name)
  BY <1>1, Zenon
<1>5. \/ SameFunction(p.ep1, a) /\ SameFunction(p.ep2, b)
      \/ SameFunction(p.ep1, b) /\ SameFunction(p.ep2, a)
  BY <1>3, <1>4, Zenon DEF PairingInv, Listed
<1> QED
  BY <1>1, <1>2, <1>3, <1>5, Zenon DEF p

\* Two functions that may not run concurrently are never analysed as a pair.
LEMMA OnlyConcurrent ==
    ASSUME PairingInv, NEW a \in Range(EntryPoints), NEW b \in Range(EntryPoints), NEW k \in Standing(a, b)
    PROVE  CanRunConcurrently(a, b)
<1> DEFINE p == EntryPointPairs[k]
<1>1. /\ CanRunConcurrently(p.ep1, p.ep2)
      /\ \/ SameFunction(p.ep1, a) /\ SameFunction(p.ep2, b)
         \/ SameFunction(p.ep1, b) /\ SameFunction(p.ep2, a)
  BY StandingFor, Zenon DEF ToBePaired
<1> HIDE DEF p
<1>2. CanRunConcurrently(a, b) \/ CanRunConcurrently(b, a)
  BY <1>1, SameAnswers, Zenon
<1> QED
  BY <1>2, Symmetric, Zenon

\* Two pairs that stand for the same two functions have the same names: which of
\* them is a clone is decided by the functions.
LEMMA AtMostOnce ==
    ASSUME PairingInv, NEW a \in Range(EntryPoints), NEW b \in Range(EntryPoints),
           NEW k \in Standing(a, b), NEW l \in Standing(a, b)
    PROVE  k = l
<1> DEFINE p == EntryPointPairs[k]
           q == EntryPointPairs[l]
<1>1. /\ k \in 1 .. Len(EntryPointPairs) /\ l \in 1 .. Len(EntryPointPairs)
      /\ p.ep1 \in Range(EntryPoints) /\ p.ep2 \in Range(EntryPoints) /\ CanBePaired(p.ep1, p.ep2)
      /\ q.ep1 \in Range(EntryPoints) /\ q.ep2 \in Range(EntryPoints) /\ CanBePaired(q.ep1, q.ep2)
  BY StandingFor, Zenon DEF ToBePaired
<1>2. /\ {p.ep1.name, p.ep2.name} = {a.name, b.name}
      /\ {q.ep1.name, q.ep2.name} = {a.name, b.name}
  BY Zenon DEF Standing
<1>3. IsPairOf(p, q) => k = l
  BY <1>1, Zenon DEF PairingInv, Distinct
<1> HIDE DEF p, q
<1>4. \/ p.ep1.name = q.ep1.name /\ p.ep2.name = q.ep2.name
      \/ p.ep1.name = q.ep2.name /\ p.ep2.name = q.ep1.name
  BY <1>2, Zenon
<1>5. \A x, y, v, w \in Range(EntryPoints) :
        /\ (x.clone <=> Stands(x, y)) /\ (v.clone <=> Stands(v, w))
        /\ x.name = v.name /\ y.name = w.name
        => Name(x) = Name(v)
  <2> SUFFICES ASSUME NEW x \in Range(EntryPoints), NEW y \in Range(EntryPoints),
                      NEW v \in Range(EntryPoints), NEW w \in Range(EntryPoints),
                      x.clone <=> Stands(x, y), v.clone <=> Stands(v, w),
                      x.name = v.name, y.name = w.name
               PROVE  Name(x) = Name(v)
    BY Zenon
  <2>1. SameFunction(x, v) /\ SameFunction(y, w) /\ x.clone \in BOOLEAN /\ v.clone \in BOOLEAN
    BY Zenon DEF PairingInv, Listed
  <2>2. x.clone = v.clone
    BY <2>1, SameAnswers, Zenon
  <2> QED
    BY <2>2, Zenon DEF Name
<1>6. \A x, y \in Range(EntryPoints) :
        CanBePaired(x, y) => (x.clone <=> Stands(x, y)) /\ (y.clone <=> Stands(y, x))
  BY PairedAs, Zenon DEF PairingInv
<1>7. \/ Name(p.ep1) = Name(q.ep1) /\ Name(p.ep2) = Name(q.ep2)
      \/ Name(p.ep1) = Name(q.ep2) /\ Name(p.ep2) = Name(q.ep1)
  <2>0. /\ p.ep1 \in Range(EntryPoints) /\ p.ep2 \in Range(EntryPoints)
        /\ q.ep1 \in Range(EntryPoints) /\ q.ep2 \in Range(EntryPoints)
    BY <1>1, Zenon
  <2>1. /\ p.ep1.clone <=> Stands(p.ep1, p.ep2)
        /\ p.ep2.clone <=> Stands(p.ep2, p.ep1)
        /\ q.ep1.clone <=> Stands(q.ep1, q.ep2)
        /\ q.ep2.clone <=> Stands(q.ep2, q.ep1)
    BY <1>1, <1>6, Zenon
  <2>2. CASE p.ep1.name = q.ep1.name /\ p.ep2.name = q.ep2.name
    <3>1. Name(p.ep1) = Name(q.ep1)
      BY <1>5, <2>0, <2>1, <2>2
    <3>2. Name(p.ep2) = Name(q.ep2)
      BY <1>5, <2>0, <2>1, <2>2
    <3> QED
      BY <3>1, <3>2, Zenon
  <2>3. CASE p.ep1.name = q.ep2.name /\ p.ep2.name = q.ep1.name
    <3>1. Name(p.ep1) = Name(q.ep2)
      BY <1>5, <2>0, <2>1, <2>3
    <3>2. Name(p.ep2) = Name(q.ep1)
      BY <1>5, <2>0, <2>1, <2>3
    <3> QED
      BY <3>1, <3>2, Zenon
  <2> QED
    BY <1>4, <2>2, <2>3, Zenon
<1> QED
  BY <1>3, <1>7, Zenon DEF IsPairOf, IsPair

\* When the loops are over, two functions that may run concurrently are on the list.
LEMMA AtLeastOnce ==
    ASSUME PairingInv, status = "done", NEW a \in Range(EntryPoints), NEW b \in Range(EntryPoints),
           ~ a.clone, ~ b.clone, CanRunConcurrently(a, b)
    PROVE  Standing(a, b) # {}
<1>1. PICK x \in Range(EntryPoints) : x.name = a.name /\ (x.clone <=> Stands(a, b))
  <2>1. CASE Stands(a, b)
    BY <2>1, Zenon DEF PairingInv, Listed, Stands
  <2>2. CASE ~ Stands(a, b)
    BY <2>2, Zenon
  <2> QED
    BY <2>1, <2>2, Zenon
<1>2. PICK y \in Range(EntryPoints) : y.name = b.name /\ (y.clone <=> Stands(b, a))
  <2>1. CASE Stands(b, a)
    BY <2>1, Zenon DEF PairingInv, Listed, Stands
  <2>2. CASE ~ Stands(b, a)
    BY <2>2, Zenon
  <2> QED
    BY <2>1, <2>2, Zenon
<1>3. SameFunction(a, x) /\ SameFunction(b, y)
  BY <1>1, <1>2, Zenon DEF PairingInv, Listed
<1>4. (Stands(a, b) <=> Stands(x, y)) /\ (Stands(b, a) <=> Stands(y, x)) /\ CanRunConcurrently(x, y)
  BY <1>3, SameAnswers, Zenon
<1>5. ToBePaired(x, y)
  BY <1>1, <1>2, <1>4, PairedAs, Zenon DEF PairingInv, ToBePaired
<1>6. PICK k \in 1 .. Len(EntryPoints), l \in 1 .. Len(EntryPoints) : x = EntryPoints[k] /\ y = EntryPoints[l]
  BY Zenon DEF Range
<1>7. Visited(k, l)
  <2>1. IsSeq(EntryPoints) /\ i > Len(EntryPoints) /\ i \in Nat
    BY Zenon DEF PairingInv, Progress
  <2>2. Len(EntryPoints) \in Nat
    BY <2>1, Appended, Zenon
  <2> QED
    BY <2>1, <2>2 DEF Visited
<1>8. PICK m \in 1 .. Len(EntryPointPairs) : IsPair(EntryPointPairs[m], Name(x), Name(y))
  <2>1. IsListed(EntryPointPairs, x, y)
    BY <1>5, <1>6, <1>7, Zenon DEF PairingInv, Collected
  <2> QED
    BY <2>1, Zenon DEF IsListed, Range
<1> DEFINE p == EntryPointPairs[m]
<1>9. (p.ep1.name = x.name /\ p.ep2.name = y.name) \/ (p.ep1.name = y.name /\ p.ep2.name = x.name)
  BY <1>8 DEF IsPair, Name
<1>10. {p.ep1.name, p.ep2.name} = {a.name, b.name}
  BY <1>1, <1>2, <1>9, Zenon
<1>11. m \in Standing(a, b)
  BY <1>10, Zenon DEF Standing
<1> QED
  BY <1>11, Zenon

-----------------------------------------------------------------------------
(* Theorems *)

\* For every .info file: every two functions that may run concurrently are analysed
\* as exactly one pair, and no others are (the pairing loop of ParseAndInitialize).
THEOREM PairsAreExact == EPPSpec => []CoveredOnce
<1>1. PairingInv => CoveredOnce
  <2> SUFFICES ASSUME PairingInv, status = "done",
                      NEW a \in Range(EntryPoints), NEW b \in Range(EntryPoints), ~ a.clone, ~ b.clone
               PROVE  IF CanRunConcurrently(a, b)
                      THEN \E k \in 1 .. Len(EntryPointPairs) : Standing(a, b) = {k}
                      ELSE Standing(a, b) = {}
    BY Zenon DEF CoveredOnce
  <2>1. CASE CanRunConcurrently(a, b)
    <3>1. PICK k : k \in Standing(a, b)
      BY <2>1, AtLeastOnce, Zenon
    <3>2. \A l \in Standing(a, b) : l = k
      BY <3>1, AtMostOnce, Zenon
    <3>3. k \in 1 .. Len(EntryPointPairs)
      BY <3>1, Zenon DEF Standing
    <3> QED
      BY <2>1, <3>1, <3>2, <3>3, Zenon
  <2>2. CASE ~ CanRunConcurrently(a, b)
    BY <2>2, OnlyConcurrent, Zenon
  <2> QED
    BY <2>1, <2>2, Zenon
<1> QED
  BY <1>1, PairingInvariance, PTL

\* For every .info file: a clone is paired with network operations only
\* (EntryPointPair.CanBePaired).
THEOREM ClonesAreForTheNetwork == EPPSpec => []ClonesMeetNetworkOnly
<1>1. PairingInv => ClonesMeetNetworkOnly
  <2> SUFFICES ASSUME PairingInv, NEW p \in Range(EntryPointPairs)
               PROVE  (p.ep1.clone => p.ep2.api \in NetworkAPI) /\ (p.ep2.clone => p.ep1.api \in NetworkAPI)
    BY Zenon DEF ClonesMeetNetworkOnly
  <2>1. p.ep1 \in Range(EntryPoints) /\ p.ep2 \in Range(EntryPoints) /\ CanBePaired(p.ep1, p.ep2)
    BY Zenon DEF PairingInv, Justified, ToBePaired
  <2> QED
    BY <2>1, PairedAs, Zenon DEF PairingInv, Stands
<1> QED
  BY <1>1, PairingInvariance, PTL

-----------------------------------------------------------------------------
(* The check of a pair: the inductive invariant *)

AccessRecord == [run : Run, mr : MemoryRegion, write : BOOLEAN, held : SUBSET Lock]

Shape ==
    /\ phase \in {"EP1", "EP2", "checker", "done"} /\ calls \in Nat
    /\ inst \in [Run -> InstState] /\ log \subseteq AccessRecord

\* The flags and the locksets of run r are those that its record gives.
RecordedBy(r) ==
    \A mr \in MemoryRegion :
        /\ mr \in inst[r].WRITTEN <=> \E a \in Records(r, mr) : a.write
        /\ mr \in inst[r].READ <=> \E a \in Records(r, mr) : ~ a.write
        /\ \A l \in Lock :
               l \in inst[r].LS[mr] <=>
                   /\ IsLockUsed(EPof(r), l)
                   /\ ShouldSkipLockset(EPof(r), l) \/ \A a \in Records(r, mr) : l \in a.held

Recorded == \A r \in Run : RecordedBy(r)

\* A lock that the entry point skips is never in the current lockset.
Unskipped ==
    /\ \A r \in Run : \A l \in inst[r].CLS : ~ ShouldSkipLockset(EPof(r), l)
    /\ \A a \in log : \A l \in a.held : ~ ShouldSkipLockset(EPof(a.run), l)

\* A call starts from the state that the checker procedure requires.
Fresh ==
    /\ phase = "EP1" => inst[2] = EntryState(EPof(2))
    /\ \A r \in Run : Running(r) /\ calls = 0 => inst[r] = EntryState(EPof(r))

Verdict == phase = "done" => errors = {mr \in MemoryRegion : ~ Assertion(mr)}

IInv == Shape /\ Recorded /\ Unskipped /\ Fresh /\ Verdict

-----------------------------------------------------------------------------
(* The calls *)

\* The state the checker requires at its start meets the requires clauses of
\* every entry point it calls.
THEOREM EntryMeetsRequires ==
    \A ep : EntryRequires(ep, EntryState(ep))
<1> SUFFICES ASSUME NEW ep
             PROVE  EntryRequires(ep, EntryState(ep))
  BY Zenon
<1>1. \A l \in Lock : ShouldSkipLockset(ep, l) \/ IsLockUsed(ep, l)
  BY Zenon DEF ShouldSkipLockset, IsLockUsed
<1> QED
  BY <1>1, Zenon DEF EntryRequires, EntryState

\* A driver lock or a kernel lock that the entry point calls is used, and is not
\* skipped; any other kernel lock is skipped, and used if the kernel holds it.
LEMMA LockCases ==
    ASSUME NEW ep, NEW l \in Lock
    PROVE  /\ ~ ShouldSkipLockset(ep, l) => IsLockUsed(ep, l) /\ ~ AlwaysUnder(ep, l)
           /\ ShouldSkipLockset(ep, l) => (IsLockUsed(ep, l) <=> AlwaysUnder(ep, l))
BY LocksetAssumption, Zenon DEF ShouldSkipLockset, IsLockUsed, AlwaysUnder, IsCalling, IsKernelLocked, Lock, KernelLock

\* Once a run has touched the watched address of a region, the lockset of the
\* region names exactly the locks that protected all its accesses.
LEMMA LocksetExact ==
    ASSUME Recorded, Unskipped, NEW r \in Run, NEW mr \in MemoryRegion, NEW l \in Lock, Records(r, mr) # {}
    PROVE  l \in inst[r].LS[mr] <=> l \in Protecting(r, mr)
<1>1. l \in inst[r].LS[mr] <=>
          /\ IsLockUsed(EPof(r), l)
          /\ ShouldSkipLockset(EPof(r), l) \/ \A a \in Records(r, mr) : l \in a.held
  BY Zenon DEF Recorded, RecordedBy
<1>2. ShouldSkipLockset(EPof(r), l) => \E a \in Records(r, mr) : l \notin a.held
  BY Zenon DEF Unskipped, Records
<1> QED
  BY <1>1, <1>2, LockCases, Zenon DEF Protecting

\* _UPDATE_CLS_ changes the current lockset only, in the membership of a lock
\* that is not skipped.
LEMMA UpdateEffect ==
    ASSUME NEW ep, NEW s \in InstState, NEW lock \in Lock, NEW b \in BOOLEAN
    PROVE  /\ UPDATE_CLS(ep, s, lock, b) \in InstState
           /\ UPDATE_CLS(ep, s, lock, b).LS = s.LS
           /\ UPDATE_CLS(ep, s, lock, b).WRITTEN = s.WRITTEN
           /\ UPDATE_CLS(ep, s, lock, b).READ = s.READ
           /\ \A l \in UPDATE_CLS(ep, s, lock, b).CLS : l \in s.CLS \/ ~ ShouldSkipLockset(ep, l)
BY Zenon DEF UPDATE_CLS, InstState

\* The state after an access of ep to the watched address of mr.
Accessed(ep, s, mr, w) == IF w THEN WRITE_LS(ep, s, mr) ELSE READ_LS(ep, s, mr)

\* What both access procedures do to the state s of ep, giving n: they raise the
\* flag of the access and intersect the lockset of mr with the current lockset.
AccessEffect(ep, s, n, mr, w) ==
    /\ n \in InstState /\ n.CLS = s.CLS
    /\ n.WRITTEN = IF w THEN s.WRITTEN \cup {mr} ELSE s.WRITTEN
    /\ n.READ = IF w THEN s.READ ELSE s.READ \cup {mr}
    /\ n.LS[mr] = Intersect(ep, s, mr)
    /\ \A m \in MemoryRegion \ {mr} : n.LS[m] = s.LS[m]

\* _WRITE_LS_ and _READ_LS_ have that effect.
LEMMA AccessFields ==
    ASSUME NEW ep, NEW s \in InstState, NEW mr \in MemoryRegion, NEW w \in BOOLEAN
    PROVE  AccessEffect(ep, s, Accessed(ep, s, mr, w), mr, w)
<1>1. Intersect(ep, s, mr) \subseteq s.LS[mr] /\ s.LS[mr] \subseteq Lock
  BY Zenon DEF Intersect, InstState
<1>2. CASE w
  BY <1>1, <1>2, Zenon DEF AccessEffect, Accessed, WRITE_LS, InstState
<1>3. CASE ~ w
  BY <1>1, <1>3, Zenon DEF AccessEffect, Accessed, READ_LS, InstState
<1> QED
  BY <1>2, <1>3, Zenon

-----------------------------------------------------------------------------
(* The invariant is inductive *)

\* The checker procedure starts in a state that satisfies the invariant.
LEMMA IInvInit == Init => IInv
<1> SUFFICES ASSUME Init PROVE IInv
  OBVIOUS
<1>1. \A ep : EntryState(ep) \in InstState
  BY Zenon DEF EntryState, InstState
<1>2. \A r \in Run : inst[r] = EntryState(EPof(r))
  BY Zenon DEF Init
<1>3. Shape
  <2>1. 0 \in Nat
    OBVIOUS
  <2> QED
    BY <1>1, <2>1, Zenon DEF Init, Shape
<1>4. Recorded
  BY <1>2, Zenon DEF Init, Recorded, RecordedBy, Records, EntryState
<1>5. Unskipped
  BY <1>2, Zenon DEF Init, Unskipped, EntryState
<1>6. Fresh
  BY <1>2, Zenon DEF Fresh, Run
<1>7. Verdict
  BY Zenon DEF Init, Verdict
<1> QED
  BY <1>3, <1>4, <1>5, <1>6, <1>7, Zenon DEF IInv

\* Running one entry point is not running the other.
LEMMA OneRuns ==
    ASSUME NEW r \in Run, Running(r)
    PROVE  /\ \A q \in Run : Running(q) <=> q = r
           /\ phase # "checker" /\ phase # "done"
           /\ phase = "EP1" => r # 2
BY DEF Running, Run

\* Updating a lock changes nothing that the record determines.
LEMMA LockCallKeeps ==
    ASSUME IInv, NEW r \in Run, NEW l \in Lock, NEW b \in BOOLEAN, LockCall(r, l, b)
    PROVE  IInv'
<1>0. /\ UNCHANGED <<pair, phase, log>> /\ calls' = calls + 1 /\ Running(r)
      /\ inst' = [inst EXCEPT ![r] = UPDATE_CLS(EPof(r), inst[r], l, b)]
  BY Zenon DEF LockCall
<1>1. calls' \in Nat /\ calls' # 0
  BY <1>0 DEF IInv, Shape
<1>2. /\ \A q \in Run : EPof(q)' = EPof(q) /\ \A mr \in MemoryRegion : Records(q, mr)' = Records(q, mr)
      /\ \A q \in Run : Running(q)' <=> Running(q)
  BY <1>0, Zenon DEF EPof, EP1, EP2, Records, Running
<1>3. inst[r] \in InstState
  BY Zenon DEF IInv, Shape
<1>4. inst'[r] = UPDATE_CLS(EPof(r), inst[r], l, b) /\ \A q \in Run \ {r} : inst'[q] = inst[q]
  BY <1>0, Zenon DEF IInv, Shape
<1>5. /\ inst'[r] \in InstState
      /\ \A q \in Run : inst'[q].LS = inst[q].LS /\ inst'[q].WRITTEN = inst[q].WRITTEN /\ inst'[q].READ = inst[q].READ
      /\ \A x \in inst'[r].CLS : x \in inst[r].CLS \/ ~ ShouldSkipLockset(EPof(r), x)
  <2>1. /\ inst'[r] \in InstState
        /\ inst'[r].LS = inst[r].LS /\ inst'[r].WRITTEN = inst[r].WRITTEN /\ inst'[r].READ = inst[r].READ
        /\ \A x \in inst'[r].CLS : x \in inst[r].CLS \/ ~ ShouldSkipLockset(EPof(r), x)
    <3> DEFINE n == UPDATE_CLS(EPof(r), inst[r], l, b)
    <3>1. inst'[r] = n
      BY <1>4, Zenon
    <3>2. /\ n \in InstState /\ n.LS = inst[r].LS /\ n.WRITTEN = inst[r].WRITTEN /\ n.READ = inst[r].READ
          /\ \A x \in n.CLS : x \in inst[r].CLS \/ ~ ShouldSkipLockset(EPof(r), x)
      BY <1>3, UpdateEffect
    <3> HIDE DEF n
    <3> QED
      BY <3>1, <3>2, Zenon
  <2> QED
    BY <1>4, <2>1, Zenon
<1>6. Shape'
  BY <1>0, <1>1, <1>4, <1>5, Zenon DEF IInv, Shape
<1>7. Recorded'
  BY <1>2, <1>5 DEF IInv, Recorded, RecordedBy
<1>8. Unskipped'
  BY <1>0, <1>2, <1>4, <1>5 DEF IInv, Unskipped, Shape, AccessRecord
<1>9. Fresh'
  BY <1>0, <1>1, <1>2, <1>4, OneRuns, Zenon DEF IInv, Fresh, Run
<1>10. Verdict'
  BY <1>0, OneRuns, Zenon DEF Verdict
<1> QED
  BY <1>6, <1>7, <1>8, <1>9, <1>10, Zenon DEF IInv

\* An access adds the same to the record as to the instrumented state.
LEMMA AccessKeeps ==
    ASSUME IInv, NEW r \in Run, NEW mr \in MemoryRegion, NEW ptr, NEW w \in BOOLEAN,
           Access(r, mr, ptr, w), Watched(mr, ptr)
    PROVE  IInv'
<1> DEFINE rec == [run |-> r, mr |-> mr, write |-> w, held |-> inst[r].CLS]
<1>0. /\ UNCHANGED <<pair, phase>> /\ calls' = calls + 1 /\ Running(r)
      /\ inst' = [inst EXCEPT ![r] = Accessed(EPof(r), inst[r], mr, w)]
      /\ log' = log \cup {rec}
  BY Zenon DEF Access, Accessed
<1>1. calls' \in Nat /\ calls' # 0
  BY <1>0 DEF IInv, Shape
<1>2. \A q \in Run : EPof(q)' = EPof(q) /\ (Running(q)' <=> Running(q))
  BY <1>0, Zenon DEF EPof, EP1, EP2, Running
<1>3. inst[r] \in InstState /\ inst \in [Run -> InstState]
  BY Zenon DEF IInv, Shape
<1>4. /\ inst'[r] = Accessed(EPof(r), inst[r], mr, w)
      /\ \A q \in Run \ {r} : inst'[q] = inst[q]
  BY <1>0, <1>3, Zenon
<1>5. /\ inst'[r] \in InstState /\ inst'[r].CLS = inst[r].CLS
      /\ inst'[r].WRITTEN = IF w THEN inst[r].WRITTEN \cup {mr} ELSE inst[r].WRITTEN
      /\ inst'[r].READ = IF w THEN inst[r].READ ELSE inst[r].READ \cup {mr}
      /\ inst'[r].LS[mr] = Intersect(EPof(r), inst[r], mr)
      /\ \A m \in MemoryRegion \ {mr} : inst'[r].LS[m] = inst[r].LS[m]
  <2>1. AccessEffect(EPof(r), inst[r], inst'[r], mr, w)
    BY <1>3, <1>4, AccessFields, Zenon
  <2> QED
    BY <2>1, Zenon DEF AccessEffect
<1>6. rec \in AccessRecord /\ rec.run = r /\ rec.mr = mr /\ rec.write = w /\ rec.held = inst[r].CLS
  BY <1>3, Zenon DEF AccessRecord, InstState
<1> HIDE DEF rec
<1>7. /\ Records(r, mr)' = Records(r, mr) \cup {rec}
      /\ \A q \in Run, m \in MemoryRegion : q # r \/ m # mr => Records(q, m)' = Records(q, m)
  BY <1>0, <1>6, Zenon DEF Records
<1>8. Shape'
  BY <1>0, <1>1, <1>3, <1>4, <1>5, <1>6, Zenon DEF IInv, Shape
<1>9. Recorded'
  <2>1. \A q \in Run \ {r} : RecordedBy(q)'
    BY <1>2, <1>4, <1>7 DEF IInv, Recorded, RecordedBy
  <2>2. ASSUME NEW m \in MemoryRegion
        PROVE  /\ m \in inst'[r].WRITTEN <=> \E a \in Records(r, m)' : a.write
               /\ m \in inst'[r].READ <=> \E a \in Records(r, m)' : ~ a.write
    BY <1>5, <1>6, <1>7 DEF IInv, Recorded, RecordedBy
  <2>3. ASSUME NEW m \in MemoryRegion, NEW l \in Lock
        PROVE  l \in inst'[r].LS[m] <=>
                   /\ IsLockUsed(EPof(r), l)
                   /\ ShouldSkipLockset(EPof(r), l) \/ \A a \in Records(r, m)' : l \in a.held
    <3>1. CASE m # mr
      BY <1>5, <1>7, <3>1 DEF IInv, Recorded, RecordedBy
    <3>2. CASE m = mr
      <4>1. l \in inst'[r].LS[mr] <=> l \in inst[r].LS[mr] /\ (ShouldSkipLockset(EPof(r), l) \/ l \in inst[r].CLS)
        BY <1>5, Zenon DEF Intersect
      <4> QED
        BY <1>6, <1>7, <3>2, <4>1, Zenon DEF IInv, Recorded, RecordedBy
    <3> QED
      BY <3>1, <3>2, Zenon
  <2> QED
    BY <1>2, <2>1, <2>2, <2>3, Zenon DEF Recorded, RecordedBy
<1>10. Unskipped'
  <2>1. \A q \in Run : \A l \in inst'[q].CLS : ~ ShouldSkipLockset(EPof(q)', l)
    BY <1>2, <1>4, <1>5, Zenon DEF IInv, Unskipped
  <2>2. \A a \in log' : \A l \in a.held : ~ ShouldSkipLockset(EPof(a.run)', l)
    <3>1. \A a \in log : a.run \in Run
      BY Zenon DEF IInv, Shape, AccessRecord
    <3> QED
      BY <1>0, <1>2, <1>6, <3>1, Zenon DEF IInv, Unskipped
  <2> QED
    BY <2>1, <2>2, Zenon DEF Unskipped
<1>11. Fresh'
  BY <1>0, <1>1, <1>2, <1>4, OneRuns, Zenon DEF IInv, Fresh, Run
<1>12. Verdict'
  BY <1>0, OneRuns, Zenon DEF Verdict
<1> QED
  BY <1>8, <1>9, <1>10, <1>11, <1>12, Zenon DEF IInv

\* Every step of the checker procedure keeps the invariant.
LEMMA IInvNext == IInv /\ [Next]_vars => IInv'
<1> SUFFICES ASSUME IInv, [Next]_vars PROVE IInv'
  OBVIOUS
<1>k. ASSUME UNCHANGED <<pair, inst, log>>
      PROVE  Recorded' /\ Unskipped' /\ (\A r \in Run : EPof(r)' = EPof(r))
  <2>1. \A r \in Run : EPof(r)' = EPof(r) /\ \A mr \in MemoryRegion : Records(r, mr)' = Records(r, mr)
    BY <1>k, Zenon DEF EPof, EP1, EP2, Records
  <2>2. Recorded'
    BY <1>k, <2>1 DEF IInv, Recorded, RecordedBy
  <2>3. Unskipped'
    <3>1. \A a \in log : a.run \in Run
      BY Zenon DEF IInv, Shape, AccessRecord
    <3>2. Unskipped
      BY Zenon DEF IInv
    <3> QED
      BY <1>k, <2>1, <3>1, <3>2, Zenon DEF Unskipped
  <2> QED
    BY <2>1, <2>2, <2>3, Zenon
<1>1. ASSUME NEW r \in Run, NEW l \in Lock, NEW b \in BOOLEAN, LockCall(r, l, b)
      PROVE  IInv'
  BY <1>1, LockCallKeeps, Zenon
<1>2. ASSUME NEW r \in Run, NEW mr \in MemoryRegion, NEW ptr \in Address, NEW w \in BOOLEAN, Access(r, mr, ptr, w)
      PROVE  IInv'
  <2>1. CASE Watched(mr, ptr)
    BY <1>2, <2>1, AccessKeeps, Zenon
  <2>2. CASE ~ Watched(mr, ptr)
    <3>1. UNCHANGED <<pair, inst, log, phase>> /\ calls' = calls + 1 /\ Running(r)
      BY <1>2, <2>2, Zenon DEF Access
    <3>2. calls' \in Nat /\ calls' # 0
      BY <3>1 DEF IInv, Shape
    <3>3. Shape' /\ Recorded' /\ Unskipped'
      BY <3>1, <3>2, <1>k, Zenon DEF IInv, Shape
    <3>4. Fresh'
      BY <3>1, <3>2, <1>k, Zenon DEF IInv, Fresh, Run
    <3>5. Verdict'
      BY <3>1, OneRuns, Zenon DEF Verdict
    <3> QED
      BY <3>3, <3>4, <3>5, Zenon DEF IInv
  <2> QED
    BY <2>1, <2>2, Zenon
<1>3. ASSUME NEW r \in Run, Return(r)
      PROVE  IInv'
  <2>1. UNCHANGED <<pair, inst, log>> /\ calls' = 0 /\ phase' = (IF r = 1 /\ EP1 # EP2 THEN "EP2" ELSE "checker") /\ Running(r)
    BY <1>3, Zenon DEF Return
  <2>2. phase' \in {"EP1", "EP2", "checker", "done"} /\ phase' # "EP1" /\ phase' # "done"
        /\ (phase' = "EP2" => phase = "EP1")
    BY <2>1 DEF Running
  <2>3. Shape' /\ Recorded' /\ Unskipped'
    <3>1. 0 \in Nat
      OBVIOUS
    <3> QED
      BY <2>1, <2>2, <3>1, <1>k, Zenon DEF IInv, Shape
  <2>4. Fresh'
    <3>1. \A q \in Run : Running(q)' => q = 2 /\ phase = "EP1"
      BY <2>2 DEF Running, Run
    <3> QED
      BY <2>1, <2>2, <3>1, <1>k, Zenon DEF IInv, Fresh, Run
  <2>5. Verdict'
    BY <2>2, Zenon DEF Verdict
  <2> QED
    BY <2>3, <2>4, <2>5, Zenon DEF IInv
<1>4. ASSUME Check
      PROVE  IInv'
  <2>1. UNCHANGED <<pair, inst, log, calls>> /\ phase' = "done" /\ errors' = {mr \in MemoryRegion : ~ Assertion(mr)}
    BY <1>4, Zenon DEF Check
  <2>2. Shape' /\ Recorded' /\ Unskipped'
    BY <2>1, <1>k, Zenon DEF IInv, Shape
  <2>3. Fresh'
    BY <2>1 DEF Fresh, Running
  <2>4. \A mr \in MemoryRegion : Assertion(mr)' <=> Assertion(mr)
    BY <2>1, Zenon DEF Assertion, EP1, EP2
  <2>5. Verdict'
    BY <2>1, <2>4, Zenon DEF Verdict
  <2> QED
    BY <2>2, <2>3, <2>5, Zenon DEF IInv
<1>5. ASSUME UNCHANGED vars
      PROVE  IInv'
  <2>1. UNCHANGED <<pair, phase, inst, errors, log, calls>>
    BY <1>5, Zenon DEF vars
  <2>2. Shape' /\ Recorded' /\ Unskipped'
    BY <2>1, <1>k, Zenon DEF IInv, Shape
  <2>3. Fresh'
    BY <2>1, <1>k, Zenon DEF IInv, Fresh, Running, Run
  <2>4. Verdict'
    BY <2>1, Zenon DEF IInv, Verdict, Assertion, EP1, EP2
  <2> QED
    BY <2>2, <2>3, <2>4, Zenon DEF IInv
<1> QED
  BY <1>1, <1>2, <1>3, <1>4, <1>5, Zenon DEF Next

-----------------------------------------------------------------------------
(* Theorems *)

\* The accesses of the two runs that the flags show are those of the record.
LEMMA ConflictExact ==
    ASSUME Shape, Recorded, NEW mr \in MemoryRegion
    PROVE  /\ mr \in inst[1].WRITTEN <=> \E a \in Records(1, mr) : a.write
           /\ Conflict(inst[1], inst[2], mr) <=>
                  \E a \in Records(1, mr), b \in Records(2, mr) : a.write \/ b.write
<1>1. \A r \in Run : /\ mr \in inst[r].WRITTEN <=> \E a \in Records(r, mr) : a.write
                     /\ mr \in inst[r].READ <=> \E a \in Records(r, mr) : ~ a.write
  BY Zenon DEF Recorded, RecordedBy
<1> QED
  BY <1>1, Zenon DEF Conflict, Run

\* The invariant gives the meaning of the report.
LEMMA ReportMeaning == IInv => ReportsExactlyUnprotected
<1> SUFFICES ASSUME IInv, phase = "done", NEW mr \in MemoryRegion
             PROVE  mr \in errors <=>
                        /\ ConflictingRecords(mr)
                        /\ \A l \in CheckedLock(EP1, EP2) : \E r \in Runs : l \notin Protecting(r, mr)
  BY Zenon DEF ReportsExactlyUnprotected
<1>1. mr \in errors <=> ~ Assertion(mr)
  BY Zenon DEF IInv, Verdict
<1>2. \A l \in CheckedLock(EP1, EP2) : l \in Lock
  BY Zenon DEF CheckedLock
<1>3. \A r \in Run : \A l \in CheckedLock(EP1, EP2) : Records(r, mr) # {} => (l \in inst[r].LS[mr] <=> l \in Protecting(r, mr))
  BY <1>2, LocksetExact, Zenon DEF IInv
<1>4. CASE EP1 = EP2
  <2>1. Runs = {1} /\ 1 \in Run
    BY <1>4, Zenon DEF Runs, Run
  <2>2. ConflictingRecords(mr) <=> mr \in inst[1].WRITTEN
    BY <1>4, ConflictExact, Zenon DEF ConflictingRecords, IInv
  <2>3. mr \in inst[1].WRITTEN => Records(1, mr) # {}
    BY ConflictExact, Zenon DEF IInv
  <2>4. Assertion(mr) <=> (mr \in inst[1].WRITTEN => \E l \in CheckedLock(EP1, EP2) : l \in inst[1].LS[mr])
    BY <1>4, Zenon DEF Assertion, SelfRaceAssertion
  <2> QED
    BY <1>1, <1>3, <2>1, <2>2, <2>3, <2>4, Zenon
<1>5. CASE EP1 # EP2
  <2>1. Runs = {1, 2} /\ 1 \in Run /\ 2 \in Run
    BY <1>5, Zenon DEF Runs, Run
  <2>2. ConflictingRecords(mr) <=> Conflict(inst[1], inst[2], mr)
    BY <1>5, ConflictExact, Zenon DEF ConflictingRecords, IInv
  <2>3. ConflictingRecords(mr) => Records(1, mr) # {} /\ Records(2, mr) # {}
    BY <1>5, Zenon DEF ConflictingRecords
  <2>4. Assertion(mr) <=> (Conflict(inst[1], inst[2], mr) =>
            \E l \in CheckedLock(EP1, EP2) : l \in inst[1].LS[mr] /\ l \in inst[2].LS[mr])
    BY <1>5, Zenon DEF Assertion, RaceAssertion
  <2> QED
    BY <1>1, <1>3, <2>1, <2>2, <2>3, <2>4, Zenon
<1> QED
  BY <1>4, <1>5, Zenon

\* The invariant holds in every state of the checker procedure.
LEMMA Invariance == Spec => []IInv
BY IInvInit, IInvNext, PTL DEF Spec

\* For every driver and every pair, and runs of every length: the assertions of
\* block $checker fail for exactly the regions whose recorded accesses conflict
\* and were not all made under a common lock that counts for the pair.
THEOREM ReportIsExact == Spec => []ReportsExactlyUnprotected
BY Invariance, ReportMeaning, PTL

\* Every call of block $logger meets the requires clauses of the instrumented
\* procedure it calls: the first run leaves the state of the second untouched.
THEOREM CallsMeetRequires == Spec => []CallMeetsRequires
<1>1. IInv => CallMeetsRequires
  BY EntryMeetsRequires, Zenon DEF IInv, Fresh, CallMeetsRequires
<1> QED
  BY <1>1, Invariance, PTL

=============================================================================
