--------------------------- MODULE TrustedTimeProofs ---------------------------
(***************************************************************************)
(* Proofs about TimeComposite, for any number of threads and every answer  *)
(* TIME may give, and about TrustedTime on top of it: no accepted time     *)
(* falls behind a returned one, no lease outlasts what TIME promised, and  *)
(* the cached verdict is always the published one.                         *)
(*                                                                         *)
(* Nothing about the composite uses MonitorConstants.                      *)
(***************************************************************************)
EXTENDS TrustedTime, TLAPS

-----------------------------------------------------------------------------
(***************************************************************************)
(* The operators of the gate                                               *)
(***************************************************************************)

\* Least picks a smallest element.
LEMMA LeastOfFour ==
  ASSUME NEW a \in Int, NEW b \in Int, NEW c \in Int, NEW d \in Int
  PROVE  /\ Least({a, b, c, d}) \in {a, b, c, d}
         /\ Least({a, b, c, d}) <= a /\ Least({a, b, c, d}) <= b
<1> DEFINE S == {a, b, c, d}
<1>1. \E x \in S : \A y \in S : x <= y
  <2>1. ASSUME NEW x \in S, x <= a, x <= b, x <= c, x <= d
        PROVE  \E z \in S : \A y \in S : z <= y
    BY <2>1
  <2> QED
    BY <2>1
<1> HIDE DEF S
<1>2. Least(S) \in S /\ \A y \in S : Least(S) <= y
  BY <1>1 DEF Least
<1> QED
  BY <1>2 DEF S

\* Largest picks the larger of two.
LEMMA LargestOfTwo ==
  ASSUME NEW a \in Int, NEW b \in Int
  PROVE  Largest({a, b}) = IF a >= b THEN a ELSE b
<1> DEFINE S == {a, b}
<1>1. \E x \in S : \A y \in S : x >= y
  OBVIOUS
<1> HIDE DEF S
<1>2. Largest(S) \in S /\ \A y \in S : Largest(S) >= y
  BY <1>1 DEF Largest
<1> QED
  BY <1>2 DEF S

\* No duration is negative.
LEMMA ElapsedNat ==
  ASSUME now \in 0..MaxTime, NEW t \in 0..now
  PROVE  Elapsed(t) \in Nat
BY CompositeConstants DEF Elapsed

\* The reasons of the results the gates make.
LEMMA ReasonFacts ==
  /\ \A k \in DOMAIN Refusal : Refusal[k] \in Reason /\ Refusal[k] # "PlatformSynced"
  /\ "unreachable" \in DOMAIN Refusal /\ "good" \notin DOMAIN Refusal
  /\ {"PlatformSynced", "PlatformTooOld", "PlatformUncertaintyTooHigh",
      "PlatformRollbackDetected", "PlatformValidityExpired", "TimeExpired",
      "RtcInterfaceUnavailable", "NoSourceAvailable"} \subseteq Reason
BY DEF Reason, Refusal

\* A lease is within LeaseMax, and within the validity of its answer.
LEMMA LeaseBounds ==
  ASSUME now \in 0..MaxTime, NEW f \in SnapshotType, f.received \in 0..now
  PROVE  Lease(f) \in 0..LeaseMax /\ (Lease(f) > 0 => Lease(f) <= f.validity)
<1> DEFINE a == AgeEff(f)
           b == UncertaintyEff(f)
<1>1. /\ f.age \in Nat /\ f.unc \in Nat /\ f.rtt \in Nat /\ f.validity \in Nat
      /\ Elapsed(f.received) \in Nat
  BY ElapsedNat DEF SnapshotType
<1>2. a \in Nat
  BY <1>1 DEF AgeEff
<1>3. b \in Int
  BY <1>1, <1>2, CompositeConstants DEF UncertaintyEff
<1>4. Remain(f) \in Int /\ Remain(f) <= f.validity
  BY <1>1 DEF Remain
<1>5. LeaseMax \in Nat /\ MaxFreshness \in Nat /\ MaxUncertainty \in Nat
  BY CompositeConstants
<1> DEFINE c == MaxFreshness - a
           d == MaxUncertainty - b
           m == Least({LeaseMax, Remain(f), c, d})
<1>6. m \in Int /\ m <= LeaseMax /\ m <= Remain(f)
  <2>1. c \in Int /\ d \in Int
    BY <1>2, <1>3, <1>5
  <2> HIDE DEF c, d
  <2>2. \A w, x, y, z \in Int :
          /\ Least({w, x, y, z}) \in {w, x, y, z}
          /\ Least({w, x, y, z}) <= w /\ Least({w, x, y, z}) <= x
    BY LeastOfFour
  <2>3. m \in {LeaseMax, Remain(f), c, d} /\ m <= LeaseMax /\ m <= Remain(f)
    <3>1. LeaseMax \in Int
      BY <1>5
    <3> QED
      BY <1>4, <2>1, <2>2, <3>1, Zenon
  <2> QED
    BY <1>4, <1>5, <2>1, <2>3
<1>7. Lease(f) = Largest({0, m})
  BY DEF Lease
<1> HIDE DEF m
<1>8. Lease(f) = IF 0 >= m THEN 0 ELSE m
  BY <1>6, <1>7, LargestOfTwo
<1> QED
  BY <1>1, <1>4, <1>5, <1>6, <1>8

\* What the gate decides; it trusts only a good answer that does not roll back.
LEMMA GateResult ==
  ASSUME now \in 0..MaxTime, NEW f \in SnapshotType, f.received \in 0..now
  PROVE  /\ gatePlatform(f) \in ResultType
         /\ Trusted(gatePlatform(f)) =>
              /\ f.kind = "good" /\ ~RolledBack(UtcEff(f))
              /\ gatePlatform(f).utc = UtcEff(f) /\ gatePlatform(f).until = f.until
              /\ gatePlatform(f).lease <= f.validity
<1> DEFINE refuse(reason) == Result(reason, f.src, 0, 0, 0)
<1>1. f.src \in Nat /\ f.until \in Nat /\ f.kind \in DOMAIN Refusal \cup {"good"}
  BY DEF SnapshotType
<1>2. \A reason \in Reason : reason # "PlatformSynced" =>
        refuse(reason) \in ResultType /\ ~Trusted(refuse(reason))
  BY <1>1, CompositeConstants DEF Result, ResultType, Trusted
<1>3. /\ AgeEff(f) \in Int /\ UncertaintyEff(f) \in Int /\ UtcEff(f) \in Int
      /\ f.validity \in Nat
  <2>1. /\ f.age \in Nat /\ f.unc \in Nat /\ f.rtt \in Nat /\ f.validity \in Nat
        /\ f.utc \in Int /\ Elapsed(f.received) \in Nat
    BY ElapsedNat DEF SnapshotType
  <2>2. AgeEff(f) \in Nat
    BY <2>1 DEF AgeEff
  <2> QED
    BY <2>1, <2>2, CompositeConstants DEF UncertaintyEff, UtcEff
<1>4. Lease(f) \in 0..LeaseMax /\ (Lease(f) > 0 => Lease(f) <= f.validity)
  BY LeaseBounds
<1>5. CASE f.kind \in DOMAIN Refusal
  <2>1. gatePlatform(f) = refuse(Refusal[f.kind])
    BY <1>5, ReasonFacts DEF gatePlatform
  <2> QED
    BY <1>2, <1>5, <2>1, ReasonFacts
<1>6. CASE f.kind = "good"
  <2> DEFINE r == Result("PlatformSynced", f.src, UtcEff(f), Lease(f), f.until)
  <2>1. \/ gatePlatform(f) \in {refuse("PlatformTooOld"), refuse("PlatformUncertaintyTooHigh"),
                                refuse("PlatformRollbackDetected"),
                                refuse("PlatformValidityExpired")}
        \/ gatePlatform(f) = r /\ Lease(f) > 0 /\ ~RolledBack(UtcEff(f))
    <3> HIDE DEF r, refuse
    <3>1. f.kind \notin DOMAIN Refusal
      BY <1>6, ReasonFacts
    <3>2. CASE AgeEff(f) > MaxFreshness
      BY <1>6, <3>1, <3>2, <1>3, CompositeConstants DEF gatePlatform, refuse
    <3>3. CASE AgeEff(f) <= MaxFreshness /\ UncertaintyEff(f) > MaxUncertainty
      BY <1>6, <3>1, <3>3, <1>3, CompositeConstants DEF gatePlatform, refuse
    <3>4. CASE AgeEff(f) <= MaxFreshness /\ UncertaintyEff(f) <= MaxUncertainty
      BY <1>6, <3>1, <3>4, <1>3, <1>4, CompositeConstants DEF gatePlatform, refuse, r
    <3> QED
      BY <1>3, <3>2, <3>3, <3>4, CompositeConstants
  <2>2. /\ r \in ResultType /\ r.utc = UtcEff(f) /\ r.until = f.until /\ r.lease = Lease(f)
    BY <1>1, <1>3, <1>4, ReasonFacts DEF Result, ResultType
  <2> HIDE DEF r
  <2>3. CASE gatePlatform(f) = r /\ Lease(f) > 0 /\ ~RolledBack(UtcEff(f))
    BY <1>4, <1>6, <2>2, <2>3
  <2>4. CASE gatePlatform(f) \in {refuse("PlatformTooOld"),
                                  refuse("PlatformUncertaintyTooHigh"),
                                  refuse("PlatformRollbackDetected"),
                                  refuse("PlatformValidityExpired")}
    BY <1>2, <2>4, ReasonFacts
  <2> QED
    BY <2>1, <2>3, <2>4
<1> QED
  BY <1>1, <1>5, <1>6

-----------------------------------------------------------------------------
(***************************************************************************)
(* Queries                                                                 *)
(***************************************************************************)

\* The values a query starts with.
LEMMA QueryShapes ==
  /\ NoSnapshot \in SnapshotType /\ NoSnapshot.kind # "good" /\ NoSnapshot.received = 0
  /\ NoResult \in ResultType /\ ~Trusted(NoResult)
  /\ HardwareRtc \in ResultType /\ ~Trusted(HardwareRtc)
<1>1. NoSnapshot \in SnapshotType /\ NoSnapshot.kind # "good" /\ NoSnapshot.received = 0
  BY ReasonFacts DEF NoSnapshot, SnapshotType
<1>2. LeaseMax \in Nat
  BY CompositeConstants
<1>3. NoResult \in ResultType /\ ~Trusted(NoResult)
  BY <1>2, ReasonFacts DEF NoResult, Result, ResultType, Trusted
<1>4. HardwareRtc \in ResultType /\ ~Trusted(HardwareRtc)
  BY <1>2, ReasonFacts DEF HardwareRtc, Result, ResultType, Trusted
<1> QED
  BY <1>1, <1>3, <1>4

LEMMA IdleShape ==
  /\ Idle \in CallType /\ Idle.at = "idle" /\ Idle.floor = 0
  /\ {Idle.sent, Idle.start, Idle.snap.received} \subseteq {0}
BY QueryShapes DEF Idle, CallType

\* Before the first query.
LEMMA InitCompositeInv == CompositeInit => CompositeInv
<1> SUFFICES ASSUME CompositeInit PROVE CompositeInv
  OBVIOUS
<1>1. /\ timeUp \in BOOLEAN /\ connected \in BOOLEAN /\ hasLkg \in BOOLEAN /\ ~hasLkg
  BY Zenon DEF CompositeInit
<1>2. now = 0 /\ lkg = 0 /\ returned = 0 /\ call = [p \in Threads |-> Idle]
  BY Zenon DEF CompositeInit
<1>3. CompositeTypeOK
  BY <1>1, <1>2, IdleShape, CompositeConstants DEF CompositeTypeOK
<1>4. FloorInv /\ AnswerInv /\ NoRollbackAfterReturn
  BY <1>1, <1>2, IdleShape DEF FloorInv, AnswerInv, NoRollbackAfterReturn
<1> QED
  BY <1>3, <1>4 DEF CompositeInv

\* What the invariants ask of a query.
StageOK(n) ==
  /\ n.sent \in 0..now /\ n.start \in 0..now /\ n.snap.received \in 0..now
  /\ n.floor <= returned
  /\ n.at = "asked" => n.sent = n.start
  /\ n.at \in {"answered", "mapped"} /\ n.snap.kind = "good" =>
       n.start + n.snap.validity <= n.snap.until /\ n.snap.utc + n.snap.age >= 0
  /\ n.at = "gated" /\ Trusted(n.res) =>
       /\ n.start + n.res.lease <= n.res.until /\ n.res.utc >= 0
       /\ n.res.utc >= n.floor - RollbackTolerance

\* A query goes one stage on.
LEMMA QueryMoves ==
  ASSUME CompositeInv, NEW p \in Threads, NEW n \in CallType, StageOK(n),
         call' = [call EXCEPT ![p] = n],
         UNCHANGED now, UNCHANGED timeUp, UNCHANGED good, connected' \in BOOLEAN
  PROVE  CompositeInv'
<1>1. /\ call' \in [Threads -> CallType] /\ call'[p] = n
      /\ \A q \in Threads \ {p} : call'[q] = call[q]
  BY DEF CompositeInv, CompositeTypeOK
<1>2. UNCHANGED <<now, timeUp, hasLkg, lkg, returned>>
  BY DEF good
<1> USE DEF StageOK
<1>3. CompositeTypeOK'
  BY <1>1, <1>2 DEF CompositeInv, CompositeTypeOK
<1>4. FloorInv'
  BY <1>1, <1>2 DEF CompositeInv, FloorInv
<1>5. AnswerInv'
  BY <1>1, <1>2 DEF CompositeInv, AnswerInv, Trusted
<1>6. NoRollbackAfterReturn'
  BY <1>1, <1>2 DEF CompositeInv, NoRollbackAfterReturn, Trusted
<1> QED
  BY <1>3, <1>4, <1>5, <1>6 DEF CompositeInv

\* A query starts from what has been returned so far.
LEMMA AskedKeeps ==
  ASSUME CompositeInv, NEW p \in Threads, NEW isConnected \in BOOLEAN,
         call' = [call EXCEPT ![p] = Asked(isConnected)],
         UNCHANGED <<now, timeUp, good>>, connected' \in BOOLEAN
  PROVE  CompositeInv'
<1> DEFINE n == Asked(isConnected)
<1>1. now \in Nat /\ returned \in Int
  BY CompositeConstants DEF CompositeInv, CompositeTypeOK
<1>2. /\ n \in CallType /\ n.at \in {"asked", "mapped"}
      /\ n.snap = NoSnapshot /\ n.start = now /\ n.sent = now /\ n.floor = returned
  BY <1>1, QueryShapes DEF Asked, CallType
<1> HIDE DEF n
<1>3. StageOK(n)
  BY <1>1, <1>2, QueryShapes DEF StageOK
<1> QED
  BY <1>2, <1>3, QueryMoves DEF n

\* TIME's answer arrives.
LEMMA AnswerKeeps ==
  ASSUME CompositeInv, NEW p \in Threads, timeAnswers(p)
  PROVE  CompositeInv'
<1>1. PICK kind \in Kinds \cup {"unreachable"}, id \in Identities, age \in Ages,
           unc \in Uncertainties, validity \in Validities, offset \in Offsets,
           made \in call[p].sent..now :
         call' = [call EXCEPT ![p].at = "answered", ![p].sent = 0,
                    ![p].snap = Snapshot(kind, id, age, unc, validity, offset, made,
                                         now - call[p].sent)]
  BY ZenonT(60) DEF timeAnswers
<1>2. call[p].at = "asked" /\ UNCHANGED <<now, timeUp, connected, good>>
  BY DEF timeAnswers
<1> DEFINE f == Snapshot(kind, id, age, unc, validity, offset, made, now - call[p].sent)
           n == [call[p] EXCEPT !.at = "answered", !.sent = 0, !.snap = f]
<1>3. /\ call \in [Threads -> CallType] /\ call[p] \in CallType
      /\ {call[p].sent, call[p].start} \subseteq 0..now /\ now \in Nat
      /\ call[p].sent = call[p].start /\ call[p].floor <= returned
      /\ connected' \in BOOLEAN
  BY <1>2, CompositeConstants DEF CompositeInv, CompositeTypeOK, AnswerInv, FloorInv
<1>4. /\ kind \in DOMAIN Refusal \cup {"good"} /\ id \in Nat /\ age \in Nat /\ unc \in Nat
      /\ validity \in Nat /\ offset \in Nat /\ made \in Nat
      /\ made >= call[p].start /\ now - call[p].sent \in Nat
  BY <1>3, CompositeConstants, KnownKinds, ReasonFacts
<1>5. /\ f \in SnapshotType /\ f.received = 0
      /\ f.kind = "good" => f.until = made + f.validity /\ f.utc + f.age >= 0
  <2>1. CASE kind \in {"unreachable", "invalid"}
    <3>1. f = [NoSnapshot EXCEPT !.kind = kind]
      BY <2>1 DEF Snapshot
    <3> QED
      BY <1>4, <2>1, <3>1, QueryShapes DEF SnapshotType
  <2>2. CASE kind \notin {"unreachable", "invalid"}
    BY <1>4, <2>2 DEF Snapshot, SnapshotType
  <2> QED
    BY <2>1, <2>2
<1> HIDE DEF f
<1>6. /\ n \in CallType /\ n.at = "answered" /\ n.sent = 0 /\ n.snap = f
      /\ n.start = call[p].start /\ n.floor = call[p].floor
  BY <1>3, <1>5 DEF CallType
<1>7. call' = [call EXCEPT ![p] = n]
  BY <1>1, <1>3 DEF CallType, f
<1> HIDE DEF n
<1>8. f.kind = "good" => n.start + f.validity <= f.until
  BY <1>3, <1>4, <1>5, <1>6 DEF SnapshotType
<1>9. StageOK(n)
  BY <1>3, <1>5, <1>6, <1>8 DEF StageOK
<1> QED
  BY <1>2, <1>3, <1>6, <1>7, <1>9, QueryMoves

\* The answer is stamped with the time it was received.
LEMMA MapKeeps ==
  ASSUME CompositeInv, NEW p \in Threads, mapSnapshot(p)
  PROVE  CompositeInv'
<1> DEFINE f == [call[p].snap EXCEPT !.received = now]
           n == [call[p] EXCEPT !.at = "mapped", !.snap = f]
<1>1. /\ call[p].at = "answered" /\ UNCHANGED <<now, timeUp, connected, good>>
      /\ call' = [call EXCEPT ![p].at = "mapped", ![p].snap.received = now]
  BY DEF mapSnapshot
<1>2. /\ call \in [Threads -> CallType] /\ call[p] \in CallType
      /\ {call[p].sent, call[p].start} \subseteq 0..now /\ now \in Nat
      /\ call[p].floor <= returned /\ connected' \in BOOLEAN
      /\ call[p].snap.kind = "good" =>
           /\ call[p].start + call[p].snap.validity <= call[p].snap.until
           /\ call[p].snap.utc + call[p].snap.age >= 0
  BY <1>1, CompositeConstants DEF CompositeInv, CompositeTypeOK, AnswerInv, FloorInv
<1>3. /\ f \in SnapshotType /\ f.received = now /\ f.kind = call[p].snap.kind
      /\ f.validity = call[p].snap.validity /\ f.until = call[p].snap.until
      /\ f.utc = call[p].snap.utc /\ f.age = call[p].snap.age
  BY <1>2 DEF CallType, SnapshotType
<1>4. /\ n \in CallType /\ n.at = "mapped" /\ n.sent = call[p].sent /\ n.snap = f
      /\ n.start = call[p].start /\ n.floor = call[p].floor
  BY <1>2, <1>3 DEF CallType
<1>5. call' = [call EXCEPT ![p] = n]
  BY <1>1, <1>2 DEF CallType, SnapshotType
<1> HIDE DEF n, f
<1>6. StageOK(n)
  BY <1>2, <1>3, <1>4 DEF StageOK
<1> QED
  BY <1>1, <1>2, <1>4, <1>5, <1>6, QueryMoves

\* The gate reads the last known good time; nothing smaller by more than the
\* tolerance passes.
LEMMA GateKeeps ==
  ASSUME CompositeInv, NEW p \in Threads, gate(p)
  PROVE  CompositeInv'
<1> DEFINE f == call[p].snap
           g == gatePlatform(f)
           r == IF Trusted(g) THEN g ELSE orRtc(g)
           n == [call[p] EXCEPT !.at = "gated", !.snap = NoSnapshot, !.res = r]
<1>1. /\ call[p].at = "mapped" /\ UNCHANGED <<now, timeUp, connected, good>>
      /\ call' = [call EXCEPT ![p].at = "gated", ![p].snap = NoSnapshot, ![p].res = r]
  BY DEF gate
<1>2. /\ call \in [Threads -> CallType] /\ call[p] \in CallType
      /\ {call[p].sent, call[p].start, f.received} \subseteq 0..now /\ now \in 0..MaxTime
      /\ call[p].floor <= returned /\ connected' \in BOOLEAN
      /\ lkg \in Int /\ returned \in Int /\ hasLkg \in BOOLEAN
  BY <1>1 DEF CompositeInv, CompositeTypeOK, FloorInv
<1>3. f \in SnapshotType /\ call[p].floor \in Int /\ call[p].start \in Nat
  BY <1>2 DEF CallType
<1>4. f.kind = "good" => call[p].start + f.validity <= f.until /\ f.utc + f.age >= 0
  BY <1>1 DEF CompositeInv, AnswerInv
<1>5. IF hasLkg THEN lkg = returned ELSE returned = 0
  BY DEF CompositeInv, FloorInv
<1>6. /\ g \in ResultType
      /\ Trusted(g) =>
           /\ f.kind = "good" /\ ~RolledBack(UtcEff(f))
           /\ g.utc = UtcEff(f) /\ g.until = f.until /\ g.lease <= f.validity
  BY <1>2, <1>3, GateResult
<1> HIDE DEF g
<1>7. r \in ResultType /\ (Trusted(r) => r = g)
  BY <1>6, QueryShapes DEF orRtc, Trusted
<1> HIDE DEF r
<1>8. /\ n \in CallType /\ n.at = "gated" /\ n.sent = call[p].sent /\ n.res = r
      /\ n.snap = NoSnapshot /\ n.start = call[p].start /\ n.floor = call[p].floor
  BY <1>2, <1>7, QueryShapes DEF CallType
<1>9. call' = [call EXCEPT ![p] = n]
  BY <1>1, <1>2 DEF CallType
<1> HIDE DEF n
<1>10. ASSUME Trusted(r)
       PROVE  /\ n.start + r.lease <= r.until /\ r.utc >= 0
              /\ r.utc >= n.floor - RollbackTolerance
  <2>1. /\ r.lease \in Nat /\ r.until \in Nat /\ f.validity \in Nat /\ f.until \in Nat
        /\ f.utc \in Int /\ f.age \in Nat /\ f.rtt \in Nat
    BY <1>3, <1>7 DEF ResultType, SnapshotType
  <2>2. n.start + r.lease <= r.until
    BY <1>3, <1>4, <1>6, <1>7, <1>8, <1>10, <2>1
  <2>3. UtcEff(f) \in Int /\ UtcEff(f) >= f.utc + f.age
    <3>1. Elapsed(f.received) \in Nat
      BY <1>2, ElapsedNat
    <3> QED
      BY <2>1, <3>1 DEF UtcEff, AgeEff
  <2>4. r.utc = UtcEff(f) /\ r.utc >= 0
    BY <1>4, <1>6, <1>7, <1>10, <2>1, <2>3
  <2>5. RollbackTolerance \in Nat
    BY CompositeConstants
  <2>6. CASE hasLkg
    <3>1. r.utc >= lkg - RollbackTolerance
      BY <1>2, <1>6, <1>7, <1>10, <2>3, <2>4, <2>5, <2>6 DEF RolledBack
    <3> QED
      BY <1>2, <1>3, <1>5, <1>8, <2>2, <2>3, <2>4, <2>5, <2>6, <3>1
  <2>7. CASE ~hasLkg
    BY <1>2, <1>3, <1>5, <1>8, <2>2, <2>3, <2>4, <2>5, <2>7
  <2> QED
    BY <2>6, <2>7
<1>11. StageOK(n)
  BY <1>2, <1>8, <1>10, QueryShapes DEF StageOK
<1> QED
  BY <1>1, <1>2, <1>8, <1>9, <1>11, QueryMoves

\* A query returns, and the last known good time follows what it returns.
LEMMA ReturnKeeps ==
  ASSUME CompositeInv, NEW p \in Threads, return(p)
  PROVE  CompositeInv'
<1>1. call[p].at = "gated" /\ UNCHANGED <<now, timeUp, connected>>
      /\ call' = [call EXCEPT ![p] = Idle]
  BY DEF return
<1>2. /\ call \in [Threads -> CallType] /\ call[p].res \in ResultType /\ now \in Nat
      /\ lkg \in Int /\ returned \in Int /\ hasLkg \in BOOLEAN
      /\ timeUp' \in BOOLEAN /\ connected' \in BOOLEAN
  BY <1>1, CompositeConstants DEF CompositeInv, CompositeTypeOK, CallType
<1>3. /\ call' \in [Threads -> CallType] /\ call'[p] = Idle
      /\ \A q \in Threads \ {p} : call'[q] = call[q]
  BY <1>1, <1>2, IdleShape
<1>4. \A q \in Threads : call[q].floor <= returned /\ call[q].floor \in Int
  BY <1>2 DEF CompositeInv, FloorInv, CallType
<1>5. /\ hasLkg' \in BOOLEAN /\ lkg' \in Int /\ returned' \in Int
      /\ returned' >= returned /\ returned' >= 0
      /\ IF hasLkg' THEN lkg' = returned' ELSE returned' = 0
  <2>1. CASE ~Trusted(call[p].res)
    BY <1>2, <2>1 DEF return, good, CompositeInv, FloorInv
  <2>2. CASE Trusted(call[p].res)
    <3> DEFINE u == call[p].res.utc
    <3>1. /\ lkg' = IF hasLkg THEN Largest({lkg, u}) ELSE u
          /\ returned' = Largest({returned, u})
      BY <2>2 DEF return, acceptAsKnownGood
    <3>2. hasLkg' /\ hasLkg' \in BOOLEAN
      BY <2>2, Zenon DEF return, acceptAsKnownGood
    <3>3. u \in Int
      BY <1>2 DEF ResultType
    <3>4. /\ u >= 0 /\ returned >= 0
          /\ IF hasLkg THEN lkg = returned ELSE returned = 0
      BY <1>1, <2>2 DEF CompositeInv, AnswerInv, FloorInv
    <3> HIDE DEF u
    <3>5. /\ Largest({lkg, u}) = IF lkg >= u THEN lkg ELSE u
          /\ Largest({returned, u}) = IF returned >= u THEN returned ELSE u
      BY <1>2, <3>3, LargestOfTwo
    <3> QED
      BY <1>2, <3>1, <3>2, <3>3, <3>4, <3>5
  <2> QED
    BY <2>1, <2>2
<1>6. CompositeTypeOK'
  BY <1>1, <1>2, <1>3, <1>5, IdleShape DEF CompositeInv, CompositeTypeOK
<1>7. FloorInv'
  <2>1. \A q \in Threads : call'[q].floor <= returned'
    BY <1>2, <1>3, <1>4, <1>5, IdleShape
  <2> QED
    BY <1>5, <2>1 DEF FloorInv
<1>8. AnswerInv'
  BY <1>1, <1>3, IdleShape DEF CompositeInv, AnswerInv, Trusted
<1>9. NoRollbackAfterReturn'
  BY <1>1, <1>3, IdleShape DEF CompositeInv, NoRollbackAfterReturn, Trusted
<1> QED
  BY <1>6, <1>7, <1>8, <1>9 DEF CompositeInv

\* Time passes, or the link changes.
LEMMA WorldKeeps ==
  ASSUME CompositeInv, UNCHANGED <<good, call>>,
         now' \in now..MaxTime, timeUp' \in BOOLEAN, connected' \in BOOLEAN
  PROVE  CompositeInv'
<1>1. UNCHANGED <<hasLkg, lkg, returned, call>>
  BY DEF good
<1>2. now \in Nat /\ now' \in Nat /\ now <= now'
  BY CompositeConstants DEF CompositeInv, CompositeTypeOK
<1>3. CompositeTypeOK'
  BY <1>1, <1>2 DEF CompositeInv, CompositeTypeOK
<1>4. FloorInv' /\ AnswerInv' /\ NoRollbackAfterReturn'
  BY <1>1 DEF CompositeInv, FloorInv, AnswerInv, NoRollbackAfterReturn, Trusted
<1> QED
  BY <1>3, <1>4 DEF CompositeInv

LEMMA EnvironmentKeeps ==
  ASSUME CompositeInv, tick \/ linkLost \/ connect \/ UNCHANGED compositeVars
  PROVE  CompositeInv'
<1>1. now \in 0..MaxTime /\ timeUp \in BOOLEAN /\ connected \in BOOLEAN /\ MaxTime \in Nat
  BY CompositeConstants DEF CompositeInv, CompositeTypeOK
<1>2. CASE tick
  BY <1>1, <1>2, WorldKeeps DEF tick
<1>3. CASE linkLost
  <2>1. connected' \in BOOLEAN /\ timeUp' \in BOOLEAN
    BY <1>1, <1>3, Zenon DEF linkLost
  <2>2. UNCHANGED now /\ UNCHANGED <<good, call>>
    BY <1>3 DEF linkLost
  <2> QED
    BY <1>1, <2>1, <2>2, WorldKeeps
<1>4. CASE connect
  <2>1. connected' \in BOOLEAN /\ timeUp' \in BOOLEAN
    BY <1>1, <1>4, Zenon DEF connect
  <2>2. UNCHANGED now /\ UNCHANGED <<good, call>>
    BY <1>4 DEF connect
  <2> QED
    BY <1>1, <2>1, <2>2, WorldKeeps
<1>5. CASE UNCHANGED compositeVars
  BY <1>1, <1>5, WorldKeeps DEF compositeVars, good
<1> QED
  BY <1>2, <1>3, <1>4, <1>5

\* Every step of the composite preserves the invariant.
LEMMA NextCompositeInv == CompositeInv /\ [CompositeNext]_compositeVars => CompositeInv'
<1> SUFFICES ASSUME CompositeInv, [CompositeNext]_compositeVars PROVE CompositeInv'
  OBVIOUS
<1>1. ASSUME NEW p \in Threads, ask(p) PROVE CompositeInv'
  BY <1>1, AskedKeeps DEF ask, CompositeInv, CompositeTypeOK
<1>2. ASSUME NEW p \in Threads, queryStep(p) PROVE CompositeInv'
  BY <1>2, AnswerKeeps, MapKeeps, GateKeeps DEF queryStep
<1>3. ASSUME NEW p \in Threads, return(p) PROVE CompositeInv'
  BY <1>3, ReturnKeeps
<1>4. CASE tick \/ linkLost \/ connect \/ UNCHANGED compositeVars
  BY <1>4, EnvironmentKeeps
<1> QED
  BY <1>1, <1>2, <1>3, <1>4 DEF CompositeNext

\* The invariant holds however the queries interleave.
THEOREM CompositeInvHolds == CompositeSpec => []CompositeInv
BY InitCompositeInv, NextCompositeInv, PTL DEF CompositeSpec

\* Types of the composite.
THEOREM CompositeTypeCorrect == CompositeSpec => []CompositeTypeOK
<1>1. CompositeInv => CompositeTypeOK
  BY DEF CompositeInv
<1> QED
  BY <1>1, CompositeInvHolds, PTL

\* No accepted time falls behind one that was returned before its query started,
\* with any number of threads between the check and the recording
\* (gatePlatform, acceptAsKnownGood).
THEOREM AcceptedTimeIsMonotonic == CompositeSpec => []NoRollbackAfterReturn
<1>1. CompositeInv => NoRollbackAfterReturn
  BY DEF CompositeInv
<1> QED
  BY <1>1, CompositeInvHolds, PTL

-----------------------------------------------------------------------------
(***************************************************************************)
(* The monitor                                                             *)
(***************************************************************************)

\* The monitor's types, one fact each.
LEMMA MonitorTypes ==
  ASSUME TypeOK
  PROVE  /\ CompositeTypeOK /\ now \in Nat /\ connected \in BOOLEAN /\ timeUp \in BOOLEAN
         /\ timeSub \in BOOLEAN /\ pending \in BOOLEAN /\ hasCached \in BOOLEAN
         /\ hasPublished \in BOOLEAN /\ wired \in BOOLEAN
         /\ cached \in ResultType /\ lastPublished \in ResultType
         /\ lastRefresh \in -MaxTime..now /\ lastAttempt \in -MaxTime..now
         /\ seq \in 0..(SeqMod - 1) /\ cachedSeq \in 0..(SeqMod - 1) /\ told \in 0..(SeqMod - 1)
         /\ call \in [Threads -> CallType]
BY CompositeConstants DEF TypeOK, CompositeTypeOK

\* Before start.
LEMMA InitMonitorInv == Init => MonitorInv
<1> SUFFICES ASSUME Init PROVE MonitorInv
  OBVIOUS
<1>1. CompositeInv
  BY InitCompositeInv DEF Init
<1>2. /\ timeSub \in BOOLEAN /\ pending \in BOOLEAN /\ hasCached \in BOOLEAN /\ ~hasCached
      /\ hasPublished \in BOOLEAN /\ wired \in BOOLEAN
  BY Zenon DEF Init
<1>3. /\ stage = "new" /\ mutex = None /\ cached = NoResult /\ lastPublished = NoResult
      /\ lastRefresh = -RefreshInterval /\ lastAttempt = -ReconnectInterval
      /\ seq = 0 /\ cachedSeq = 0 /\ told = 0
      /\ now = 0 /\ call = [p \in Threads |-> Idle]
  BY DEF Init, CompositeInit
<1>4. \A p \in Threads : call[p].at # "idle" <=> mutex = p
  BY <1>3, IdleShape, MonitorConstants
<1>5. lastRefresh \in -MaxTime..now /\ lastAttempt \in -MaxTime..now
  BY <1>3, CompositeConstants, MonitorConstants
<1>6. TypeOK
  BY <1>1, <1>2, <1>3, <1>4, <1>5, QueryShapes, MonitorConstants DEF TypeOK, CompositeInv
<1>7. LeaseInv /\ PublishedInv
  BY <1>2 DEF LeaseInv, PublishedInv
<1> QED
  BY <1>1, <1>6, <1>7 DEF MonitorInv

\* A verdict is cached and, when it says something new, published.
LEMMA StoreKeeps ==
  ASSUME MonitorInv, NEW r \in ResultType, NEW at \in -MaxTime..now, store(r, at),
         Trusted(r) => at + r.lease <= r.until
  PROVE  /\ LeaseInv' /\ PublishedInv'
         /\ hasCached' \in BOOLEAN /\ hasPublished' \in BOOLEAN
         /\ cached' \in ResultType /\ lastPublished' \in ResultType
         /\ lastRefresh' = at /\ told' = told
         /\ seq' \in 0..(SeqMod - 1) /\ cachedSeq' \in 0..(SeqMod - 1)
<1> DEFINE c == [r EXCEPT !.utc = 0]
           e == Result(r.reason, r.src, 0, 0, 0)
<1>1. /\ c \in ResultType /\ c.reason = r.reason /\ c.src = r.src
      /\ c.lease = r.lease /\ c.until = r.until
  BY DEF ResultType
<1>2. e \in ResultType /\ e.reason = r.reason /\ e.src = r.src
  <2>1. LeaseMax \in Nat
    BY CompositeConstants
  <2> QED
    BY <2>1 DEF ResultType, Result
<1>3. cached' = c /\ cachedSeq' = seq /\ lastRefresh' = at /\ publishIfChangedLocked(r)
  BY DEF store
<1>4. hasCached' /\ hasCached' \in BOOLEAN
  BY Zenon DEF store
<1>5. /\ seq \in 0..(SeqMod - 1) /\ lastPublished \in ResultType
      /\ hasPublished \in BOOLEAN /\ SeqMod \in Nat \ {0}
  BY MonitorTypes, MonitorConstants DEF MonitorInv
<1> HIDE DEF c, e
<1>6. LeaseInv'
  BY <1>1, <1>3, <1>4 DEF LeaseInv, Trusted
<1>7. CASE hasPublished /\ ~factChanged(lastPublished, r)
  <2>1. UNCHANGED <<seq, hasPublished, lastPublished, told>>
    BY <1>3, <1>7 DEF publishIfChangedLocked, events
  <2>2. PublishedInv'
    BY <1>1, <1>3, <1>4, <1>7, <2>1 DEF PublishedInv, factChanged
  <2> QED
    BY <1>1, <1>3, <1>4, <1>5, <1>6, <2>1, <2>2
<1>8. CASE ~(hasPublished /\ ~factChanged(lastPublished, r))
  <2>1. /\ seq' = (seq + 1) % SeqMod /\ lastPublished' = e /\ told' = told
    BY <1>3, <1>8 DEF publishIfChangedLocked, e
  <2>2. hasPublished' /\ hasPublished' \in BOOLEAN
    BY <1>3, <1>8, Zenon DEF publishIfChangedLocked
  <2>3. seq' \in 0..(SeqMod - 1)
    BY <1>5, <2>1
  <2>4. PublishedInv'
    BY <1>1, <1>2, <1>3, <1>4, <2>1, <2>2 DEF PublishedInv, factChanged
  <2> QED
    BY <1>1, <1>2, <1>3, <1>4, <1>5, <1>6, <2>1, <2>2, <2>3, <2>4
<1> QED
  BY <1>7, <1>8

\* A step that leaves the cache and the events alone.
LEMMA CacheKeeps ==
  ASSUME MonitorInv, CompositeInv', UNCHANGED cache, UNCHANGED events,
         timeSub' \in BOOLEAN, pending' \in BOOLEAN, wired' \in BOOLEAN,
         stage' \in {"new", "running", "stopping", "stopped"},
         lastAttempt' \in -MaxTime..now', now' >= now,
         \A p \in Threads : call'[p].at # "idle" <=> mutex' = p
  PROVE  MonitorInv'
<1>1. /\ UNCHANGED <<hasCached, cached, cachedSeq, lastRefresh>>
      /\ UNCHANGED <<seq, hasPublished, lastPublished, told>>
  BY DEF cache, events
<1>2. now \in Nat /\ now' \in Nat /\ lastRefresh \in -MaxTime..now
  BY MonitorTypes, CompositeConstants DEF MonitorInv, CompositeInv, CompositeTypeOK
<1>3. lastRefresh' \in -MaxTime..now'
  BY <1>1, <1>2, CompositeConstants
<1>4. TypeOK'
  BY <1>1, <1>3 DEF MonitorInv, CompositeInv, TypeOK
<1>5. LeaseInv'
  BY <1>1 DEF MonitorInv, LeaseInv, Trusted
<1>6. PublishedInv'
  BY <1>1 DEF MonitorInv, PublishedInv, factChanged
<1> QED
  BY <1>4, <1>5, <1>6 DEF MonitorInv

\* The mutex goes to the thread whose query starts.
LEMMA RefreshBegins ==
  ASSUME MonitorInv, NEW p \in Threads, NEW isConnected \in BOOLEAN, mutex = None,
         refreshLocked(p, isConnected)
  PROVE  \A q \in Threads : call'[q].at # "idle" <=> mutex' = q
<1>1. /\ call' = [call EXCEPT ![p] = Asked(isConnected)] /\ mutex' = p
      /\ call \in [Threads -> CallType]
  BY MonitorTypes DEF refreshLocked, MonitorInv
<1>2. Asked(isConnected).at # "idle"
  BY DEF Asked
<1>3. \A q \in Threads : call[q].at = "idle"
  BY MonitorConstants DEF MonitorInv, TypeOK
<1> QED
  BY <1>1, <1>2, <1>3

\* The connection part of a turn changes the connection only.
LEMMA ConnectionTypes ==
  ASSUME TypeOK, NEW due \in BOOLEAN, manageConnection(due)
  PROVE  /\ connected' \in BOOLEAN /\ timeSub' \in BOOLEAN
         /\ lastAttempt' \in {lastAttempt, now}
<1>1. connected \in BOOLEAN /\ timeSub \in BOOLEAN
  BY MonitorTypes
<1>2. connected' \in {connected, TRUE} /\ timeSub' \in BOOLEAN \cup {timeSub}
  BY Zenon DEF manageConnection
<1>3. connected' \in BOOLEAN /\ timeSub' \in BOOLEAN
  BY <1>1, <1>2, Zenon
<1>4. lastAttempt' \in {lastAttempt, now}
  BY DEF manageConnection
<1> QED
  BY <1>3, <1>4

\* One turn of the monitor's thread.
LEMMA RunLoopStep ==
  ASSUME MonitorInv, runLoop
  PROVE  MonitorInv'
<1>1. PICK due \in BOOLEAN :
        /\ manageConnection(due)
        /\ \/ refreshLocked(Loop, connected') /\ UNCHANGED <<cache, events>>
           \/ LeaseOver /\ store(revoked, now) /\ UNCHANGED <<call, mutex>>
           \/ quietTurn
  BY DEF runLoop
<1>2. /\ stage = "running" /\ mutex = None /\ UNCHANGED <<now, timeUp, good, stage, wired>>
  BY DEF runLoop
<1>3. pending' \in BOOLEAN
  BY Zenon DEF runLoop
<1>4. TypeOK /\ CompositeInv
  BY DEF MonitorInv
<1>5. /\ connected' \in BOOLEAN /\ timeSub' \in BOOLEAN
      /\ lastAttempt' \in {lastAttempt, now}
  BY <1>1, <1>4, ConnectionTypes
<1>6. now \in Nat /\ wired' \in BOOLEAN /\ timeUp \in BOOLEAN /\ MaxTime \in Nat
  BY <1>2, <1>4, MonitorTypes, CompositeConstants
<1>7. lastAttempt' \in -MaxTime..now' /\ now' >= now
  BY <1>2, <1>4, <1>5, <1>6, MonitorTypes
<1>8. CASE refreshLocked(Loop, connected') /\ UNCHANGED <<cache, events>>
  <2>1. CompositeInv'
    BY <1>2, <1>4, <1>5, <1>8, AskedKeeps, MonitorConstants DEF refreshLocked
  <2>2. \A q \in Threads : call'[q].at # "idle" <=> mutex' = q
    BY <1>2, <1>5, <1>8, RefreshBegins, MonitorConstants
  <2> QED
    BY <1>2, <1>3, <1>5, <1>6, <1>7, <1>8, <2>1, <2>2, CacheKeeps
<1>9. CASE LeaseOver /\ store(revoked, now) /\ UNCHANGED <<call, mutex>>
  <2>1. now' \in now..MaxTime
    BY <1>2, <1>4, <1>6 DEF CompositeInv, CompositeTypeOK
  <2>2. CompositeInv'
    BY <1>2, <1>4, <1>5, <1>6, <1>9, <2>1, WorldKeeps
  <2>3. revoked \in ResultType /\ ~Trusted(revoked)
    <3>1. cached \in ResultType /\ LeaseMax \in Nat
      BY <1>4, MonitorTypes, CompositeConstants
    <3>2. "TimeExpired" \in Reason /\ 0 \in 0..LeaseMax
      BY <3>1, ReasonFacts
    <3>3. revoked.reason = "TimeExpired"
      BY <3>1 DEF revoked, ResultType
    <3>4. revoked \in ResultType
      BY <3>1, <3>2 DEF revoked, ResultType
    <3> QED
      BY <3>3, <3>4 DEF Trusted
  <2>4. now \in -MaxTime..now
    BY <1>6
  <2>5. /\ LeaseInv' /\ PublishedInv'
        /\ hasCached' \in BOOLEAN /\ hasPublished' \in BOOLEAN
        /\ cached' \in ResultType /\ lastPublished' \in ResultType
        /\ lastRefresh' = now /\ told' = told
        /\ seq' \in 0..(SeqMod - 1) /\ cachedSeq' \in 0..(SeqMod - 1)
    BY <1>9, <2>3, <2>4, StoreKeeps
  <2>6. \A q \in Threads : call'[q].at # "idle" <=> mutex' = q
    BY <1>4, <1>9 DEF TypeOK
  <2>7. told' \in 0..(SeqMod - 1) /\ lastRefresh' \in -MaxTime..now'
    BY <1>2, <1>4, <2>4, <2>5, MonitorTypes
  <2>8. TypeOK'
    BY <1>2, <1>3, <1>5, <1>6, <1>7, <2>2, <2>5, <2>6, <2>7 DEF TypeOK, CompositeInv
  <2> QED
    BY <2>2, <2>5, <2>8 DEF MonitorInv
<1>10. CASE quietTurn
  <2>1. now' \in now..MaxTime
    BY <1>2, <1>4, <1>6 DEF CompositeInv, CompositeTypeOK
  <2>2. UNCHANGED call /\ UNCHANGED mutex /\ UNCHANGED cache /\ UNCHANGED events
    BY <1>10 DEF quietTurn
  <2>3. CompositeInv'
    BY <1>2, <1>4, <1>5, <1>6, <2>1, <2>2, WorldKeeps
  <2>4. \A q \in Threads : call'[q].at # "idle" <=> mutex' = q
    BY <1>4, <2>2 DEF TypeOK
  <2> QED
    BY <1>2, <1>3, <1>5, <1>6, <1>7, <2>2, <2>3, <2>4, CacheKeeps
<1> QED
  BY <1>1, <1>8, <1>9, <1>10

\* get without a cached verdict.
LEMMA GetStep ==
  ASSUME MonitorInv, get
  PROVE  MonitorInv'
<1>1. /\ mutex = None /\ refreshLocked(Ipc, connected)
      /\ UNCHANGED <<now, timeUp, connected, good, timeSub, stage, pending, cache,
                     lastAttempt, events, wired>>
  BY DEF get
<1>2. CompositeInv /\ TypeOK /\ connected \in BOOLEAN /\ now \in Nat
  BY MonitorTypes DEF MonitorInv
<1>3. CompositeInv'
  BY <1>1, <1>2, AskedKeeps, MonitorConstants DEF refreshLocked
<1>4. \A q \in Threads : call'[q].at # "idle" <=> mutex' = q
  BY <1>1, <1>2, RefreshBegins, MonitorConstants
<1>5. /\ timeSub' \in BOOLEAN /\ pending' \in BOOLEAN /\ wired' \in BOOLEAN
      /\ lastAttempt' \in -MaxTime..now' /\ now' >= now
      /\ stage' \in {"new", "running", "stopping", "stopped"}
  BY <1>1, <1>2, MonitorTypes DEF TypeOK
<1> QED
  BY <1>1, <1>3, <1>4, <1>5, CacheKeeps

\* A stage of a query under the mutex.
LEMMA RefreshStepStep ==
  ASSUME MonitorInv, NEW p \in Threads, refreshStep(p)
  PROVE  MonitorInv'
<1>1. /\ queryStep(p)
      /\ UNCHANGED <<timeSub, stage, mutex, pending, cache, lastAttempt, events, wired>>
  BY DEF refreshStep
<1>2. CompositeInv /\ TypeOK /\ now \in Nat /\ call \in [Threads -> CallType]
  BY MonitorTypes DEF MonitorInv
<1>3. CompositeInv'
  BY <1>1, <1>2, AnswerKeeps, MapKeeps, GateKeeps DEF queryStep
<1>4. /\ now' = now /\ call[p].at # "idle" /\ call'[p].at # "idle"
      /\ \A q \in Threads \ {p} : call'[q] = call[q]
  <2>1. CASE timeAnswers(p)
    BY <1>2, <2>1 DEF timeAnswers, CallType
  <2>2. CASE mapSnapshot(p)
    BY <1>2, <2>2 DEF mapSnapshot, CallType
  <2>3. CASE gate(p)
    BY <1>2, <2>3 DEF gate, CallType
  <2> QED
    BY <1>1, <2>1, <2>2, <2>3 DEF queryStep
<1>5. \A q \in Threads : call'[q].at # "idle" <=> mutex' = q
  BY <1>1, <1>2, <1>4 DEF TypeOK
<1>6. /\ timeSub' \in BOOLEAN /\ pending' \in BOOLEAN /\ wired' \in BOOLEAN
      /\ lastAttempt' \in -MaxTime..now' /\ now' >= now
      /\ stage' \in {"new", "running", "stopping", "stopped"}
  BY <1>1, <1>2, <1>4, MonitorTypes DEF TypeOK
<1> QED
  BY <1>1, <1>3, <1>5, <1>6, CacheKeeps

\* The end of a refresh: the lease is counted from its start.
LEMMA RefreshedStep ==
  ASSUME MonitorInv, NEW p \in Threads, refreshed(p)
  PROVE  MonitorInv'
<1>1. /\ return(p) /\ store(call[p].res, call[p].start) /\ mutex' = None
      /\ UNCHANGED <<timeSub, stage, pending, lastAttempt, wired>>
  BY DEF refreshed, refreshStart
<1>2. /\ call[p].at = "gated" /\ call' = [call EXCEPT ![p] = Idle] /\ now' = now
  BY <1>1 DEF return
<1>3. CompositeInv /\ TypeOK /\ now \in Nat /\ call \in [Threads -> CallType]
  BY MonitorTypes DEF MonitorInv
<1>4. CompositeInv'
  BY <1>1, <1>3, ReturnKeeps
<1>5. /\ call[p].res \in ResultType /\ call[p].start \in 0..now
      /\ Trusted(call[p].res) => call[p].start + call[p].res.lease <= call[p].res.until
  BY <1>2, <1>3 DEF CompositeInv, CompositeTypeOK, AnswerInv, CallType
<1>6. call[p].start \in -MaxTime..now
  BY <1>3, <1>5, CompositeConstants
<1>7. /\ LeaseInv' /\ PublishedInv'
      /\ hasCached' \in BOOLEAN /\ hasPublished' \in BOOLEAN
      /\ cached' \in ResultType /\ lastPublished' \in ResultType
      /\ lastRefresh' = call[p].start /\ told' = told
      /\ seq' \in 0..(SeqMod - 1) /\ cachedSeq' \in 0..(SeqMod - 1)
  BY <1>1, <1>5, <1>6, StoreKeeps
<1>8. \A q \in Threads : call'[q].at # "idle" <=> mutex' = q
  <2>1. mutex = p
    BY <1>2, <1>3 DEF TypeOK
  <2>2. \A q \in Threads : q # p => call[q].at = "idle"
    BY <1>3, <2>1 DEF TypeOK
  <2> QED
    BY <1>1, <1>2, <1>3, <2>2, IdleShape, MonitorConstants
<1>9. /\ timeSub' \in BOOLEAN /\ pending' \in BOOLEAN /\ wired' \in BOOLEAN
      /\ lastAttempt' \in -MaxTime..now' /\ lastRefresh' \in -MaxTime..now'
      /\ stage' \in {"new", "running", "stopping", "stopped"}
      /\ told' \in 0..(SeqMod - 1)
  BY <1>1, <1>2, <1>3, <1>6, <1>7, MonitorTypes DEF TypeOK
<1>10. TypeOK'
  BY <1>4, <1>7, <1>8, <1>9 DEF TypeOK, CompositeInv
<1> QED
  BY <1>4, <1>7, <1>10 DEF MonitorInv

\* stop drops the cache.
LEMMA StopStep ==
  ASSUME MonitorInv, stop
  PROVE  MonitorInv'
<1>1. /\ stage' = "stopping" /\ cached' = NoResult
      /\ UNCHANGED <<compositeVars, mutex, pending, cachedSeq, lastRefresh, lastAttempt,
                     events, wired>>
  BY DEF stop
<1>2. hasCached' \in BOOLEAN /\ ~hasCached' /\ timeSub' \in BOOLEAN
  BY Zenon DEF stop
<1>3. CompositeInv /\ TypeOK
  BY DEF MonitorInv
<1>4. CompositeInv'
  BY <1>1, <1>3, EnvironmentKeeps
<1>5. UNCHANGED <<now, call>> /\ UNCHANGED <<seq, hasPublished, lastPublished, told>>
  BY <1>1 DEF compositeVars, events
<1>6. TypeOK'
  BY <1>1, <1>2, <1>3, <1>4, <1>5, QueryShapes DEF TypeOK, CompositeInv
<1>7. LeaseInv' /\ PublishedInv'
  BY <1>2 DEF LeaseInv, PublishedInv
<1> QED
  BY <1>4, <1>6, <1>7 DEF MonitorInv

\* The other calls, and the world outside.
LEMMA QuietMonitorStep ==
  ASSUME MonitorInv, refresh_now \/ wireEvents \/ start \/ disconnect \/ environment
                       \/ UNCHANGED vars
  PROVE  MonitorInv'
<1>1. UNCHANGED cache /\ UNCHANGED events /\ UNCHANGED mutex /\ UNCHANGED call
      /\ UNCHANGED lastAttempt
  BY DEF refresh_now, wireEvents, start, disconnect, environment, tick, linkLost, vars,
         compositeVars
<1>2. stage' \in {stage, "running", "stopped"}
  BY DEF refresh_now, wireEvents, start, disconnect, environment, vars
<1>3. CompositeInv /\ TypeOK /\ now \in Nat /\ wired \in BOOLEAN /\ pending \in BOOLEAN
      /\ timeSub \in BOOLEAN /\ connected \in BOOLEAN /\ timeUp \in BOOLEAN
  BY MonitorTypes DEF MonitorInv
<1>4. wired' \in {wired, TRUE} /\ pending' \in {pending, TRUE} /\ timeSub' = timeSub
  BY Zenon DEF refresh_now, wireEvents, start, disconnect, environment, vars
<1>5. wired' \in BOOLEAN /\ pending' \in BOOLEAN /\ timeSub' \in BOOLEAN
  BY <1>3, <1>4, Zenon
<1>6. CompositeInv' /\ now' >= now
  <2>1. CASE refresh_now \/ wireEvents \/ start \/ UNCHANGED vars
    <3>1. UNCHANGED compositeVars
      BY <2>1 DEF refresh_now, wireEvents, start, vars
    <3> QED
      BY <1>3, <3>1, EnvironmentKeeps DEF compositeVars
  <2>2. CASE disconnect
    <3>1. UNCHANGED now /\ UNCHANGED timeUp /\ UNCHANGED good /\ UNCHANGED call
      BY <2>2 DEF disconnect
    <3>2. connected' \in BOOLEAN
      BY <2>2, Zenon DEF disconnect
    <3>3. now' \in now..MaxTime /\ timeUp' \in BOOLEAN /\ now' >= now
      BY <1>3, <3>1, CompositeConstants DEF CompositeInv, CompositeTypeOK
    <3> QED
      BY <1>3, <3>1, <3>2, <3>3, WorldKeeps
  <2>3. CASE environment
    <3>1. tick \/ linkLost
      BY <2>3 DEF environment
    <3>2. now' = now + 1 \/ now' = now
      BY <3>1 DEF tick, linkLost
    <3> QED
      BY <1>3, <3>1, <3>2, EnvironmentKeeps
  <2> QED
    BY <2>1, <2>2, <2>3
<1>7. stage' \in {"new", "running", "stopping", "stopped"}
  BY <1>2, <1>3 DEF TypeOK
<1>8. \A q \in Threads : call'[q].at # "idle" <=> mutex' = q
  BY <1>1, <1>3 DEF TypeOK
<1>9. lastAttempt' \in -MaxTime..now'
  <2>1. now' \in Nat /\ MaxTime \in Nat /\ lastAttempt \in -MaxTime..now
    BY <1>3, <1>6, CompositeConstants, MonitorTypes DEF CompositeInv, CompositeTypeOK
  <2> QED
    BY <1>1, <1>3, <1>6, <2>1
<1> QED
  BY <1>1, <1>5, <1>6, <1>7, <1>8, <1>9, CacheKeeps

\* Every step of the monitor preserves the invariant.
LEMMA NextMonitorInv == MonitorInv /\ [Next]_vars => MonitorInv'
<1> SUFFICES ASSUME MonitorInv, [Next]_vars PROVE MonitorInv'
  OBVIOUS
<1>1. CASE runLoop
  BY <1>1, RunLoopStep
<1>2. CASE get
  BY <1>2, GetStep
<1>3. ASSUME NEW p \in Threads, refreshStep(p) PROVE MonitorInv'
  BY <1>3, RefreshStepStep
<1>4. ASSUME NEW p \in Threads, refreshed(p) PROVE MonitorInv'
  BY <1>4, RefreshedStep
<1>5. CASE stop
  BY <1>5, StopStep
<1>6. CASE refresh_now \/ wireEvents \/ start \/ disconnect \/ environment \/ UNCHANGED vars
  BY <1>6, QuietMonitorStep
<1> QED
  BY <1>1, <1>2, <1>3, <1>4, <1>5, <1>6 DEF Next

\* The invariant holds in every state of the monitor.
THEOREM MonitorInvHolds == Spec => []MonitorInv
BY InitMonitorInv, NextMonitorInv, PTL DEF Spec

\* Types of the monitor, among them that only the holder of the mutex queries.
THEOREM MonitorTypeCorrect == Spec => []TypeOK
<1>1. MonitorInv => TypeOK
  BY DEF MonitorInv
<1> QED
  BY <1>1, MonitorInvHolds, PTL

\* No lease get grants outlasts TIME's promise, whatever the delays between TIME,
\* the gate, the cache and get.
THEOREM LeasesEndInTime == Spec => []LeaseWithinValidity
<1>1. MonitorInv => LeaseWithinValidity
  <2> SUFFICES ASSUME MonitorInv, hasCached, Trusted(Answer)
               PROVE  now + Answer.lease <= cached.until
    BY DEF LeaseWithinValidity
  <2> DEFINE left == cached.lease - Elapsed(lastRefresh)
  <2>1. /\ cached \in ResultType /\ now \in Nat /\ lastRefresh \in -MaxTime..now
        /\ LeaseMax \in 0..(MaxTime - 1) /\ MaxTime \in Nat
    BY MonitorTypes, CompositeConstants DEF MonitorInv
  <2>2. cached.lease \in 0..LeaseMax /\ cached.until \in Nat
    BY <2>1 DEF ResultType
  <2>3. ~Trusted(revoked)
    BY <2>1 DEF revoked, Trusted, ResultType
  <2>4. Trusted(cached) /\ left > 0 /\ Answer = [cached EXCEPT !.lease = left]
    BY <2>3 DEF Answer
  <2>5. Answer.lease = left
    BY <2>1, <2>4 DEF ResultType
  <2>6. now # MaxTime
    BY <2>1, <2>2, <2>4 DEF Elapsed
  <2>7. left = cached.lease - (now - lastRefresh)
    BY <2>6 DEF Elapsed
  <2>8. lastRefresh + cached.lease <= cached.until
    BY <2>4 DEF MonitorInv, LeaseInv
  <2> HIDE DEF left
  <2> QED
    BY <2>1, <2>2, <2>5, <2>7, <2>8
<1> QED
  BY <1>1, MonitorInvHolds, PTL

\* Whoever reads the cache reads what was published last, under a sequence number
\* that makes no event look old.
THEOREM CacheIsAlwaysPublished == Spec => []CacheIsPublished
<1>1. MonitorInv => CacheIsPublished
  BY DEF MonitorInv, PublishedInv, CacheIsPublished
<1> QED
  BY <1>1, MonitorInvHolds, PTL

\* The monitor's queries keep the composite's promise.
THEOREM MonitorTimeIsMonotonic == Spec => []NoRollbackAfterReturn
<1>1. MonitorInv => NoRollbackAfterReturn
  BY DEF MonitorInv, CompositeInv
<1> QED
  BY <1>1, MonitorInvHolds, PTL

=============================================================================
