------------------------------ MODULE TimeComposite ------------------------------
(***************************************************************************)
(* The composite time provider and the adapter that asks the TIME service. *)
(*                                                                         *)
(* The composite is shared by threads: the monitor, and the certificate    *)
(* injections and KL1 imports that call it directly.  A query is a         *)
(* request, an answer, the mapping of the answer, the gate and the         *)
(* acceptance; time may pass and other queries may run between any two.    *)
(*                                                                         *)
(* Time is counted in units of the BOOTTIME clock.  The last instant       *)
(* stands for every later one: a duration measured up to it is over.       *)
(***************************************************************************)
EXTENDS Integers

CONSTANTS
  Threads,           \* threads that query the composite
  MaxTime,           \* bound: the last instant
  Kinds,             \* the answers TIME may give
  Identities,        \* source id, source epoch, TIME epoch and alignment
  Offsets,           \* TIME's estimate of UTC minus BOOTTIME
  Ages, Uncertainties, Validities,   \* the numbers of an answer
  DriftStep,         \* units of age that add one unit of uncertainty
  MaxFreshness, MaxUncertainty, RollbackTolerance, LeaseMax

ASSUME CompositeConstants ==
  /\ {MaxTime, DriftStep} \subseteq Nat \ {0}
  /\ Identities \subseteq Nat \ {0}
  /\ Offsets \cup Ages \cup Uncertainties \cup Validities \subseteq Nat
  /\ {MaxFreshness, MaxUncertainty, RollbackTolerance, LeaseMax} \subseteq 0..(MaxTime - 1)

VARIABLES
  now,          \* BOOTTIME
  timeUp,       \* does the TIME service run?
  connected,    \* TimeSourceClient::is_connected
  hasLkg, lkg,  \* last_known_good_
  call,         \* the query each thread has under way
  returned      \* history: the largest trusted UTC a query has returned

good == <<hasLkg, lkg, returned>>
compositeVars == <<now, timeUp, connected, hasLkg, lkg, call, returned>>

-----------------------------------------------------------------------------
(***************************************************************************)
(* Results                                                                 *)
(***************************************************************************)

\* The reason for which the gates refuse an answer of each kind.  A kind names
\* the first check an answer fails, in gatePlatform's order: transport,
\* structure, synchronisation, contract, authentication, binding, UTC.
Refusal ==
  [unreachable     |-> "PlatformInterfaceUnavailable",
   invalid         |-> "PlatformContractIncomplete",
   unsynchronized  |-> "PlatformNotSynchronized",
   incomplete      |-> "PlatformContractIncomplete",
   unauthenticated |-> "PlatformNotAuthenticated",
   unbound         |-> "PlatformAuthUnverifiable",
   noUtc           |-> "PlatformContractIncomplete"]

\* The answers the gate knows.
ASSUME KnownKinds == Kinds \subseteq DOMAIN Refusal \cup {"good"}

Reason == {Refusal[k] : k \in DOMAIN Refusal} \cup
  {"PlatformSynced", "PlatformTooOld", "PlatformUncertaintyTooHigh",
   "PlatformRollbackDetected", "PlatformValidityExpired", "TimeExpired",
   "RtcInterfaceUnavailable", "NoSourceAvailable"}

\* until is not in the code: the instant TIME's own promise ends.
Result(reason, src, utc, lease, until) ==
  [reason |-> reason, src |-> src, utc |-> utc, lease |-> lease,
   until |-> until]

NoResult == Result("NoSourceAvailable", 0, 0, 0, 0)

Trusted(r) == r.reason = "PlatformSynced"

\* factChanged: trust state, source, epochs, alignment, contract or reason.
factChanged(a, b) == <<a.reason, a.src>> # <<b.reason, b.src>>

\* moreSpecific: a decision outranks an unavailable interface, which outranks
\* no source at all.
Rank(reason) ==
  CASE reason = "NoSourceAvailable" -> 0
    [] reason \in {"PlatformInterfaceUnavailable", "RtcInterfaceUnavailable"} -> 1
    [] OTHER -> 2

\* HardwareRtcAdapter is always unavailable, and gateHardwareRtc passes that on.
HardwareRtc == Result("RtcInterfaceUnavailable", 0, 0, 0, 0)

orRtc(r) == IF Rank(HardwareRtc.reason) > Rank(r.reason) THEN HardwareRtc ELSE r

-----------------------------------------------------------------------------
(***************************************************************************)
(* The gate                                                                *)
(***************************************************************************)

\* bootNowMs() - t, never negative.
Elapsed(t) == IF now = MaxTime THEN MaxTime ELSE now - t

Least(S) == CHOOSE x \in S : \A y \in S : x <= y
Largest(S) == CHOOSE x \in S : \A y \in S : x >= y

NoSnapshot ==
  [kind |-> "unreachable", src |-> 0, utc |-> 0, age |-> 0, unc |-> 0,
   validity |-> 0, until |-> 0, rtt |-> 0, received |-> 0]

\* An error answer carries no snapshot; the kinds that fail before the source
\* facts are copied leave them empty.
Snapshot(kind, id, age, unc, validity, offset, made, rtt) ==
  IF kind \in {"unreachable", "invalid"}
  THEN [NoSnapshot EXCEPT !.kind = kind]
  ELSE [kind |-> kind, src |-> id, utc |-> made + offset - age, age |-> age,
        unc |-> unc, validity |-> validity, until |-> made + validity,
        rtt |-> rtt, received |-> 0]

AgeEff(f) == f.age + f.rtt + Elapsed(f.received)

UncertaintyEff(f) == f.unc + AgeEff(f) \div DriftStep

UtcEff(f) == f.utc + AgeEff(f)

Remain(f) == f.validity - f.rtt - Elapsed(f.received)

\* Mutant: the lease is not capped by LeaseMax.
LeaseUncapped(f) ==
  Largest({0, Least({Remain(f), MaxFreshness - AgeEff(f),
                     MaxUncertainty - UncertaintyEff(f)})})

Lease(f) ==
  Largest({0, Least({LeaseMax, Remain(f), MaxFreshness - AgeEff(f),
                     MaxUncertainty - UncertaintyEff(f)})})

RolledBack(utc) == hasLkg /\ utc < lkg - RollbackTolerance

gatePlatform(f) ==
  LET refuse(reason) == Result(reason, f.src, 0, 0, 0) IN
  CASE f.kind \in DOMAIN Refusal -> refuse(Refusal[f.kind])
    [] f.kind = "good" /\ AgeEff(f) > MaxFreshness -> refuse("PlatformTooOld")
    [] f.kind = "good" /\ AgeEff(f) <= MaxFreshness
         /\ UncertaintyEff(f) > MaxUncertainty -> refuse("PlatformUncertaintyTooHigh")
    [] f.kind = "good" /\ AgeEff(f) <= MaxFreshness
         /\ UncertaintyEff(f) <= MaxUncertainty ->
         IF RolledBack(UtcEff(f)) THEN refuse("PlatformRollbackDetected")
         ELSE IF Lease(f) <= 0 THEN refuse("PlatformValidityExpired")
         ELSE Result("PlatformSynced", f.src, UtcEff(f), Lease(f), f.until)

-----------------------------------------------------------------------------
(***************************************************************************)
(* The query                                                               *)
(***************************************************************************)

Idle == [at |-> "idle", start |-> 0, sent |-> 0, snap |-> NoSnapshot,
         res |-> NoResult, floor |-> 0]

ResultType == [reason : Reason, src : Nat, utc : Int, lease : 0..LeaseMax, until : Nat]

SnapshotType ==
  [kind : DOMAIN Refusal \cup {"good"}, src : Nat, utc : Int, age : Nat, unc : Nat,
   validity : Nat, until : Nat, rtt : Nat, received : Nat]

CallType ==
  [at : {"idle", "asked", "answered", "mapped", "gated"}, start : Nat, sent : Nat,
   snap : SnapshotType, res : ResultType, floor : Int]

CompositeTypeOK ==
  /\ now \in 0..MaxTime
  /\ {timeUp, connected, hasLkg} \subseteq BOOLEAN
  /\ {lkg, returned} \subseteq Int
  /\ call \in [Threads -> CallType]
  /\ \A p \in Threads :
       {call[p].sent, call[p].start, call[p].snap.received} \subseteq 0..now

CompositeInit ==
  /\ now = 0
  /\ timeUp = TRUE /\ connected = FALSE
  /\ hasLkg = FALSE /\ lkg = 0 /\ returned = 0
  /\ call = [p \in Threads |-> Idle]

\* A query starts; without a connection the adapter has its answer at once.
Asked(isConnected) ==
  [at |-> IF isConnected THEN "asked" ELSE "mapped", start |-> now, sent |-> now,
   snap |-> NoSnapshot, res |-> NoResult, floor |-> returned]

ask(p) ==
  /\ call[p].at = "idle"
  /\ call' = [call EXCEPT ![p] = Asked(connected)]
  /\ UNCHANGED <<now, timeUp, connected, good>>

\* get_time_snapshot returns.  TIME made the snapshot some time after it was
\* asked; rtt_ms is what the client measured.  A service that is gone, or whose
\* answer is late or malformed, gives no snapshot.
timeAnswers(p) ==
  /\ call[p].at = "asked"
  /\ \E kind \in IF timeUp THEN Kinds ELSE {"unreachable"}, id \in Identities,
        age \in Ages, unc \in Uncertainties, validity \in Validities,
        offset \in Offsets, made \in call[p].sent..now :
       /\ kind # "good" =>
            /\ age = Least(Ages) /\ unc = Least(Uncertainties) /\ made = now
            /\ validity = Least(Validities) /\ offset = Least(Offsets)
       /\ call' = [call EXCEPT ![p].at = "answered", ![p].sent = 0,
                     ![p].snap = Snapshot(kind, id, age, unc, validity, offset, made,
                                          now - call[p].sent)]
  /\ UNCHANGED <<now, timeUp, connected, good>>

\* mapSnapshot stamps received_boot_ms, some time after rtt_ms was measured.
mapSnapshot(p) ==
  /\ call[p].at = "answered"
  /\ call' = [call EXCEPT ![p].at = "mapped", ![p].snap.received = now]
  /\ UNCHANGED <<now, timeUp, connected, good>>

\* gatePlatform, whose rollback check is a critical section of its own; a refused
\* answer leaves the decision to the hardware RTC.
gate(p) ==
  /\ call[p].at = "mapped"
  /\ LET r == gatePlatform(call[p].snap) IN
       call' = [call EXCEPT ![p].at = "gated", ![p].snap = NoSnapshot,
                            ![p].res = IF Trusted(r) THEN r ELSE orRtc(r)]
  /\ UNCHANGED <<now, timeUp, connected, good>>

\* Mutant: the query that ends last wins.
acceptAsKnownGoodLast(r) == lkg' = r.utc /\ hasLkg' = TRUE

\* A second critical section: another query may have been accepted in between.
acceptAsKnownGood(r) ==
  /\ lkg' = IF hasLkg THEN Largest({lkg, r.utc}) ELSE r.utc
  /\ hasLkg' = TRUE

\* query() returns, after acceptAsKnownGood when the result is trusted.
return(p) ==
  /\ call[p].at = "gated"
  /\ IF Trusted(call[p].res)
     THEN /\ acceptAsKnownGood(call[p].res)
          /\ returned' = Largest({returned, call[p].res.utc})
     ELSE UNCHANGED good
  /\ call' = [call EXCEPT ![p] = Idle]
  /\ UNCHANGED <<now, timeUp, connected>>

queryStep(p) == timeAnswers(p) \/ mapSnapshot(p) \/ gate(p)

\* The environment: time passes, the connection breaks, TIME goes for good.
tick ==
  /\ now < MaxTime
  /\ now' = now + 1
  /\ UNCHANGED <<timeUp, connected, good, call>>

linkLost ==
  /\ connected' = FALSE
  /\ timeUp' \in {timeUp, FALSE}
  /\ <<connected, timeUp>> # <<FALSE, FALSE>>
  /\ UNCHANGED <<now, good, call>>

\* PlatformTimeAdapter::connect, by whoever manages the connection.
connect ==
  /\ timeUp /\ ~connected
  /\ connected' = TRUE
  /\ UNCHANGED <<now, timeUp, good, call>>

CompositeNext ==
  \/ \E p \in Threads : ask(p) \/ queryStep(p) \/ return(p)
  \/ connect \/ tick \/ linkLost

CompositeSpec == CompositeInit /\ [][CompositeNext]_compositeVars

-----------------------------------------------------------------------------
(***************************************************************************)
(* Properties                                                              *)
(***************************************************************************)

\* A query that starts after another one has returned a trusted time never accepts
\* a time more than the tolerance before it, although the check and the recording
\* of the last known good time are two critical sections (acceptAsKnownGood).
NoRollbackAfterReturn ==
  \A p \in Threads : call[p].at = "gated" /\ Trusted(call[p].res)
    => call[p].res.utc >= call[p].floor - RollbackTolerance

-----------------------------------------------------------------------------
(***************************************************************************)
(* The inductive invariant                                                 *)
(***************************************************************************)

\* The last known good time is the largest one returned, once there is one; no
\* query started from a larger one.
FloorInv ==
  /\ IF hasLkg THEN lkg = returned ELSE returned = 0
  /\ returned >= 0
  /\ \A p \in Threads : call[p].floor <= returned

\* A good answer was made after the query that carries it started, and its UTC,
\* brought forward by its age, is no time before the clock began; a trusted result
\* grants no more than what TIME promised then.
AnswerInv ==
  \A p \in Threads :
    LET c == call[p] IN
    /\ c.at = "asked" => c.sent = c.start
    /\ c.at \in {"answered", "mapped"} /\ c.snap.kind = "good" =>
         c.start + c.snap.validity <= c.snap.until /\ c.snap.utc + c.snap.age >= 0
    /\ c.at = "gated" /\ Trusted(c.res) =>
         c.start + c.res.lease <= c.res.until /\ c.res.utc >= 0

\* What every step of the queries preserves.
CompositeInv ==
  /\ CompositeTypeOK
  /\ FloorInv /\ AnswerInv
  /\ NoRollbackAfterReturn

=============================================================================
