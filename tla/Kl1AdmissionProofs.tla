--------------------------- MODULE Kl1AdmissionProofs ---------------------------
(***************************************************************************)
(* Proofs about Kl1Admission, for any request ids, contents, leases,       *)
(* uncertainties, number of restarts and messages: AdmissionInv is         *)
(* inductive; an operation starts within its lease, never after NOT_FOUND  *)
(* was answered past it, and not twice for one request id unless all that  *)
(* the first one wrote was lost.                                           *)
(***************************************************************************)
EXTENDS Kl1Admission, TLAPS

\* The types, one fact each.
LEMMA AdmissionTypes ==
  ASSUME TypeOK
  PROVE  /\ utc \in Int /\ lkg \in Int /\ boot \in Nat /\ MaxBoots \in Nat /\ MaxTime \in Nat
         /\ RollbackTolerance \in Nat
         /\ up \in BOOLEAN /\ importReady \in BOOLEAN
         /\ \A u \in Clock : u \in Int
         /\ \A b \in Boots : b \in Int
         /\ \A unc \in Uncertainties : unc \in Nat
         /\ \A r \in Rids, b \in Boots : nfAt[r][b] \in Int /\ starts[r][b] \in Nat
         /\ \A r \in Rids : kept[r] \in Nat
<1>1. /\ utc \in 0..MaxTime /\ lkg \in 0..MaxTime /\ boot \in 0..MaxBoots
      /\ up \in BOOLEAN /\ importReady \in BOOLEAN
  BY DEF TypeOK, Clock
<1>2. /\ MaxBoots \in Nat /\ MaxTime \in Nat /\ RollbackTolerance \in Nat
      /\ \A unc \in Uncertainties : unc \in Nat
  BY AdmissionConstants
<1>3. \A r \in Rids, b \in Boots : nfAt[r][b] \in Int
  BY <1>2 DEF TypeOK, Clock, Never
<1>4. /\ \A r \in Rids, b \in Boots : starts[r][b] \in Nat
      /\ \A r \in Rids : kept[r] \in Nat
  BY <1>2 DEF TypeOK
<1> QED
  BY <1>1, <1>2, <1>3, <1>4 DEF Clock, Boots

\* Where an import is, it has a request.
LEMMA OpTypes ==
  ASSUME TypeOK
  PROVE  \/ op = NoOp /\ op.at = "idle"
         \/ op = Booting /\ op.at = "boot"
         \/ /\ op.at \in {"validate", "recheck", "start", "run", "staged", "stuck", "committed"}
            /\ up /\ op.msg \in net
            /\ op.msg \in Message /\ op.msg.rid \in Rids /\ op.msg.epoch \in Boots
            /\ op.msg.expire \in Int /\ op.msg.digest \in Digests
<1>1. \A x \in Expiries : x \in Int
  <2>1. Expiries \subseteq 1..MaxTime
    BY AdmissionConstants
  <2> QED
    BY <2>1
<1>2. \A m \in Message : /\ m.rid \in Rids /\ m.epoch \in Boots /\ m.expire \in Int
                         /\ m.digest \in Digests
  BY <1>1 DEF Message
<1>3. NoOp.at = "idle" /\ Booting.at = "boot"
  BY DEF NoOp, Booting
<1>4. \/ op = NoOp
      \/ op = Booting
      \/ /\ up /\ op.msg \in net
         /\ op.at \in {"validate", "recheck", "start", "run", "staged", "stuck", "committed"}
  BY DEF TypeOK
<1>5. net \subseteq Message
  BY DEF TypeOK
<1> QED
  BY <1>2, <1>3, <1>4, <1>5

\* A sample never takes the last known good time back.
LEMMA SampleRaises ==
  ASSUME TypeOK, NEW u \in Clock, trusted_now_ms(u)
  PROVE  lkg' \in Clock /\ lkg' >= lkg /\ u <= lkg' /\ u >= lkg - RollbackTolerance
BY AdmissionTypes DEF trusted_now_ms, TypeOK

\* The beginning.
LEMMA InitAdmissionInv == Init => AdmissionInv
<1> SUFFICES ASSUME Init PROVE AdmissionInv
  OBVIOUS
<1>1. /\ utc = 0 /\ lkg = 0 /\ boot = 0 /\ mem = EmptySnapshot /\ disk = EmptySnapshot
      /\ net = {} /\ op = NoOp /\ probed = {}
      /\ nfAt = [r \in Rids |-> [b \in Boots |-> Never]]
      /\ starts = [r \in Rids |-> [b \in Boots |-> 0]] /\ kept = [r \in Rids |-> 0]
  BY DEF Init
<1>2. up \in BOOLEAN /\ importReady \in BOOLEAN /\ ~up
  BY Zenon DEF Init
<1>3. NoEntry \in Entry /\ NoEntry.phase = "none"
  BY DEF NoEntry, Entry
<1>4. /\ EmptySnapshot \in Snapshot
      /\ \A r \in Rids : EmptySnapshot.journal[r].phase = "none"
  BY <1>3 DEF EmptySnapshot, Snapshot
<1>5. TypeOK
  BY <1>1, <1>2, <1>4, AdmissionConstants DEF TypeOK, Clock
<1>6. op.at = "idle"
  BY <1>1 DEF NoOp
<1>7. EntryInv /\ OpInv
  BY <1>1, <1>2, <1>4, <1>6 DEF EntryInv, OpInv
<1>8. EpochInv
  BY <1>1, <1>2 DEF EpochInv, Boots, Never
<1>9. AbsenceIsFinal /\ AdmittedWithinLease /\ OneOperationPerRequest
  BY <1>1, <1>6 DEF AbsenceIsFinal, AdmittedWithinLease, OneOperationPerRequest
<1> QED
  BY <1>5, <1>7, <1>8, <1>9 DEF AdmissionInv

-----------------------------------------------------------------------------
(***************************************************************************)
(* Frames: what steps leave alone                                          *)
(***************************************************************************)

\* Time goes on and clients send, within one epoch.
LEMMA EpochFrame ==
  ASSUME AdmissionInv, TypeOK', UNCHANGED <<boot, nfAt>>, lkg' >= lkg,
         up' => up, probed' \subseteq 1..boot
  PROVE  EpochInv'
<1>1. TypeOK /\ EpochInv
  BY DEF AdmissionInv
<1>2. /\ lkg \in Int /\ lkg' \in Int /\ boot \in Nat
      /\ \A r \in Rids, b \in Boots : nfAt[r][b] \in Int
  BY <1>1, AdmissionTypes, AdmissionConstants DEF TypeOK, Clock
<1> QED
  BY <1>1, <1>2 DEF EpochInv

\* The import under way is untouched.
LEMMA OpFrame ==
  ASSUME AdmissionInv, UNCHANGED <<mem, op, nfAt>>
  PROVE  OpInv' /\ AbsenceIsFinal' /\ AdmittedWithinLease'
BY DEF AdmissionInv, OpInv, AbsenceIsFinal, AdmittedWithinLease

\* There is none.
LEMMA IdleFrame ==
  ASSUME op' = NoOp \/ op' = Booting
  PROVE  OpInv' /\ AbsenceIsFinal' /\ AdmittedWithinLease'
<1>1. op'.at \in {"idle", "boot"}
  BY DEF NoOp, Booting
<1> QED
  BY <1>1 DEF OpInv, AbsenceIsFinal, AdmittedWithinLease

\* No write, no start.
LEMMA EntryFrame ==
  ASSUME AdmissionInv, UNCHANGED <<boot, mem, disk, starts, kept>>, up' => up
  PROVE  EntryInv' /\ OneOperationPerRequest'
BY DEF AdmissionInv, EntryInv, OneOperationPerRequest

-----------------------------------------------------------------------------
(***************************************************************************)
(* Writes                                                                  *)
(***************************************************************************)

\* A step that keeps the entries of memory and Store, and that starts an operation only
\* where there was no entry and is one now.
LEMMA StoreStep ==
  ASSUME AdmissionInv, TypeOK', up, UNCHANGED boot, noteKept,
         \A r \in Rids :
           /\ mem.journal[r].phase # "none" => mem'.journal[r].phase # "none"
           /\ disk.journal[r].phase # "none" => disk'.journal[r].phase # "none"
           /\ disk'.journal[r].phase # "none" => mem'.journal[r].phase # "none",
         \A r \in Rids, b \in Boots :
           starts'[r][b] # starts[r][b] =>
             /\ b = boot /\ starts'[r][b] = starts[r][b] + 1
             /\ mem.journal[r].phase = "none" /\ mem'.journal[r].phase # "none"
  PROVE  EntryInv' /\ OneOperationPerRequest'
<1>1. /\ boot \in Nat /\ boot > 0 /\ \A b \in Boots : b \in Int
      /\ \A r \in Rids, b \in Boots : starts[r][b] \in Nat
      /\ \A r \in Rids : kept[r] \in Nat
  BY AdmissionTypes DEF AdmissionInv, EpochInv
<1>2. \A r \in Rids :
        kept'[r] = IF kept[r] = 0 /\ disk'.journal[r].phase # "none" THEN boot ELSE kept[r]
  BY DEF noteKept
<1>3. \A r \in Rids :
        /\ kept[r] # 0 <=> disk.journal[r].phase # "none"
        /\ disk.journal[r].phase # "none" => mem.journal[r].phase # "none"
        /\ kept[r] <= boot
        /\ \A b \in Boots :
             b > boot \/ (b = boot /\ mem.journal[r].phase = "none") => starts[r][b] = 0
  BY DEF AdmissionInv, EntryInv
<1>4. \A r \in Rids, b \in Boots :
        /\ starts[r][b] <= 1
        /\ kept[r] # 0 /\ b > kept[r] => starts[r][b] = 0
  BY DEF AdmissionInv, OneOperationPerRequest
<1>5. \A r \in Rids :
        /\ kept'[r] # 0 <=> disk'.journal[r].phase # "none"
        /\ kept'[r] <= boot
  BY <1>1, <1>2, <1>3
<1>6. \A r \in Rids, b \in Boots :
        b > boot \/ (b = boot /\ mem'.journal[r].phase = "none") => starts'[r][b] = 0
  BY <1>1, <1>3
<1>7. EntryInv'
  BY <1>5, <1>6 DEF EntryInv
<1>8. ASSUME NEW r \in Rids, NEW b \in Boots
      PROVE  starts'[r][b] <= 1 /\ (kept'[r] # 0 /\ b > kept'[r] => starts'[r][b] = 0)
  <2>1. CASE starts'[r][b] = starts[r][b]
    BY <1>1, <1>2, <1>3, <1>4, <2>1
  <2>2. CASE starts'[r][b] # starts[r][b]
    <3>1. /\ b = boot /\ starts'[r][b] = starts[r][b] + 1
          /\ mem.journal[r].phase = "none"
      BY <2>2
    <3>2. starts[r][b] = 0 /\ kept[r] = 0
      BY <1>3, <3>1
    <3> QED
      BY <1>1, <1>2, <3>1, <3>2
  <2> QED
    BY <2>1, <2>2
<1>9. OneOperationPerRequest'
  BY <1>8 DEF OneOperationPerRequest
<1> QED
  BY <1>7, <1>9

\* The types after a write.
LEMMA KeptType ==
  ASSUME AdmissionInv, noteKept
  PROVE  kept' \in [Rids -> 0..MaxBoots]
BY DEF AdmissionInv, TypeOK, noteKept

\* A write of a snapshot that keeps the entries keeps them wherever it ends.
LEMMA WriteKeeps ==
  ASSUME AdmissionInv, up, NEW s \in Snapshot, NEW ok \in BOOLEAN, write(s, ok),
         \A r \in Rids : mem.journal[r].phase # "none" => s.journal[r].phase # "none"
  PROVE  /\ mem' = s /\ mem' \in Snapshot /\ disk' \in Snapshot /\ noteKept
         /\ kept' \in [Rids -> 0..MaxBoots]
         /\ \A r \in Rids :
              /\ mem.journal[r].phase # "none" => mem'.journal[r].phase # "none"
              /\ disk.journal[r].phase # "none" => disk'.journal[r].phase # "none"
              /\ disk'.journal[r].phase # "none" => mem'.journal[r].phase # "none"
<1>1. mem' = s /\ (disk' = s \/ disk' = disk) /\ noteKept
  BY DEF write
<1>2. disk \in Snapshot
  BY DEF AdmissionInv, TypeOK
<1>3. \A r \in Rids : disk.journal[r].phase # "none" => mem.journal[r].phase # "none"
  BY DEF AdmissionInv, EntryInv
<1> QED
  BY <1>1, <1>2, <1>3, KeptType

\* An entry is put into the snapshot in memory.
LEMMA PutEntry ==
  ASSUME AdmissionInv, NEW r \in Rids, NEW e \in Entry,
         NEW k \in {"none", "staged", "active"}, e.phase # "none"
  PROVE  /\ put(r, e, k) \in Snapshot /\ put(r, e, k).journal[r] = e
         /\ \A q \in Rids : mem.journal[q].phase # "none" => put(r, e, k).journal[q].phase # "none"
<1>1. mem \in Snapshot
  BY DEF AdmissionInv, TypeOK
<1>2. mem.journal \in [Rids -> Entry]
  BY <1>1 DEF Snapshot
<1> DEFINE j == [mem.journal EXCEPT ![r] = e]
<1>3. j \in [Rids -> Entry] /\ j[r] = e /\ \A q \in Rids \ {r} : j[q] = mem.journal[q]
  BY <1>2
<1>4. put(r, e, k) = [journal |-> j, keys |-> k]
  BY DEF put
<1> HIDE DEF j
<1>5. put(r, e, k) \in Snapshot /\ put(r, e, k).journal = j
  BY <1>3, <1>4 DEF Snapshot
<1> QED
  BY <1>3, <1>5

\* An entry gets another phase.
LEMMA MarkEntry ==
  ASSUME AdmissionInv, NEW r \in Rids, NEW phase \in {"open", "done", "failed"},
         NEW k \in {"none", "staged", "active"}
  PROVE  /\ mark(r, phase, k) \in Snapshot /\ mark(r, phase, k).journal[r].phase = phase
         /\ \A q \in Rids :
              mem.journal[q].phase # "none" => mark(r, phase, k).journal[q].phase # "none"
<1> DEFINE e == [phase |-> phase, digest |-> mem.journal[r].digest]
<1>1. mem.journal[r] \in Entry
  BY DEF AdmissionInv, TypeOK, Snapshot
<1>2. e \in Entry /\ e.phase = phase /\ e.phase # "none"
  BY <1>1 DEF Entry
<1>3. mark(r, phase, k) = put(r, e, k)
  BY DEF mark
<1> HIDE DEF e
<1> QED
  BY <1>2, <1>3, PutEntry

\* Recovery decides an entry.
LEMMA RecoverEntry ==
  ASSUME AdmissionInv, up, NEW r \in Rids, recover_entry(r)
  PROVE  /\ mem' \in Snapshot /\ disk' \in Snapshot /\ noteKept
         /\ kept' \in [Rids -> 0..MaxBoots]
         /\ \A q \in Rids :
              /\ mem.journal[q].phase # "none" => mem'.journal[q].phase # "none"
              /\ disk.journal[q].phase # "none" => disk'.journal[q].phase # "none"
              /\ disk'.journal[q].phase # "none" => mem'.journal[q].phase # "none"
<1>1. mem.keys \in {"none", "staged", "active"}
  BY DEF AdmissionInv, TypeOK, Snapshot
<1>2. PICK ok \in BOOLEAN, phase \in {"open", "done", "failed"},
           k \in {"none", "staged", "active"} : write(mark(r, phase, k), ok)
  BY <1>1 DEF recover_entry
<1> QED
  BY <1>2, MarkEntry, WriteKeeps

-----------------------------------------------------------------------------
(***************************************************************************)
(* The steps                                                               *)
(***************************************************************************)

\* The daemon starts: a new epoch; memory is what the Store holds.
LEMMA InitializeStep ==
  ASSUME AdmissionInv, initialize
  PROVE  AdmissionInv'
<1>1. /\ ~up /\ boot < MaxBoots /\ boot' = boot + 1 /\ lkg' = 0 /\ mem' = disk
      /\ op' = Booting
      /\ UNCHANGED <<utc, importReady, disk, net, probed, nfAt, starts, kept>>
  BY DEF initialize, history
<1>2. up' \in BOOLEAN /\ up'
  BY DEF initialize
<1>3. TypeOK /\ importReady \in BOOLEAN
  BY AdmissionTypes DEF AdmissionInv
<1>4. /\ boot \in Nat /\ MaxBoots \in Nat /\ MaxTime \in Nat
      /\ \A r \in Rids, b \in Boots : nfAt[r][b] \in Int
      /\ \A b \in Boots : b \in Int
      /\ \A r \in Rids : kept[r] \in Nat
  BY <1>3, AdmissionTypes
<1>5. TypeOK'
  BY <1>1, <1>2, <1>3, <1>4 DEF TypeOK, Clock
<1>6. EntryInv'
  BY <1>1, <1>4 DEF AdmissionInv, EntryInv
<1>7. OneOperationPerRequest'
  BY <1>1 DEF AdmissionInv, OneOperationPerRequest
<1>8. EpochInv'
  BY <1>1, <1>4 DEF AdmissionInv, EpochInv, Never
<1> QED
  BY <1>1, <1>5, <1>6, <1>7, <1>8, IdleFrame DEF AdmissionInv

\* Recovery at startup.
LEMMA RecoverStep ==
  ASSUME AdmissionInv, NEW r \in Rids, recover_on_startup(r)
  PROVE  AdmissionInv'
<1>1. /\ op = Booting /\ recover_entry(r)
      /\ UNCHANGED <<utc, lkg, boot, up, importReady, net, op, probed, nfAt, starts>>
  BY DEF recover_on_startup
<1>2. Booting.at = "boot" /\ NoOp.at = "idle"
  BY DEF Booting, NoOp
<1>3. TypeOK /\ up /\ lkg \in Int /\ probed \subseteq 1..boot
  BY <1>1, <1>2, AdmissionTypes DEF AdmissionInv, TypeOK, EpochInv
<1>4. /\ mem' \in Snapshot /\ disk' \in Snapshot /\ noteKept
      /\ kept' \in [Rids -> 0..MaxBoots]
      /\ \A q \in Rids :
           /\ mem.journal[q].phase # "none" => mem'.journal[q].phase # "none"
           /\ disk.journal[q].phase # "none" => disk'.journal[q].phase # "none"
           /\ disk'.journal[q].phase # "none" => mem'.journal[q].phase # "none"
  BY <1>1, <1>3, RecoverEntry
<1>5. TypeOK'
  BY <1>1, <1>3, <1>4 DEF TypeOK
<1>6. EntryInv' /\ OneOperationPerRequest'
  BY <1>1, <1>3, <1>4, <1>5, StoreStep
<1>7. lkg' >= lkg /\ probed' \subseteq 1..boot
  BY <1>1, <1>3
<1> QED
  BY <1>1, <1>5, <1>6, <1>7, IdleFrame, EpochFrame DEF AdmissionInv

\* The daemon is ready to serve.
LEMMA CapabilityStep ==
  ASSUME AdmissionInv, compute_capability
  PROVE  AdmissionInv'
<1>1. /\ op' = NoOp
      /\ UNCHANGED <<utc, lkg, boot, up, mem, disk, net, probed, nfAt, starts, kept>>
  BY DEF compute_capability, history
<1>2. TypeOK /\ up \in BOOLEAN /\ importReady' \in BOOLEAN /\ lkg \in Int
      /\ probed \subseteq 1..boot
  BY AdmissionTypes DEF AdmissionInv, compute_capability, EpochInv
<1>3. TypeOK'
  BY <1>1, <1>2 DEF TypeOK
<1>4. lkg' >= lkg /\ probed' \subseteq 1..boot /\ (up' => up)
  BY <1>1, <1>2
<1> QED
  BY <1>1, <1>3, <1>4, IdleFrame, EntryFrame, EpochFrame DEF AdmissionInv

\* The daemon is gone.
LEMMA RestartStep ==
  ASSUME AdmissionInv, restart
  PROVE  AdmissionInv'
<1>1. /\ op' = NoOp
      /\ UNCHANGED <<utc, lkg, boot, importReady, mem, disk, net, probed, nfAt, starts, kept>>
  BY DEF restart, history
<1>2. up' \in BOOLEAN /\ ~up'
  BY DEF restart
<1>3. TypeOK /\ importReady \in BOOLEAN
  BY AdmissionTypes DEF AdmissionInv
<1>4. TypeOK'
  BY <1>1, <1>2, <1>3 DEF TypeOK
<1>5. lkg' >= lkg /\ probed' \subseteq 1..boot
  BY <1>1, <1>3, AdmissionTypes DEF AdmissionInv, EpochInv
<1> QED
  BY <1>1, <1>2, <1>4, <1>5, IdleFrame, EntryFrame, EpochFrame DEF AdmissionInv

\* A client asks for the epoch.
LEMMA SnapshotStep ==
  ASSUME AdmissionInv, contractSnapshot
  PROVE  AdmissionInv'
<1>1. /\ up /\ probed' = probed \cup {boot}
      /\ UNCHANGED <<utc, lkg, boot, up, importReady, mem, disk, net, op, nfAt, starts, kept>>
  BY DEF contractSnapshot, epoch, history
<1>2. /\ TypeOK /\ boot \in Nat /\ boot \in 0..MaxBoots /\ MaxBoots \in Nat /\ boot > 0
      /\ probed \subseteq 1..boot /\ probed \subseteq Boots /\ lkg \in Int
  BY <1>1, AdmissionTypes DEF AdmissionInv, TypeOK, EpochInv
<1>3. probed' \subseteq 1..boot /\ probed' \subseteq Boots
  BY <1>1, <1>2 DEF Boots
<1>4. TypeOK'
  BY <1>1, <1>2, <1>3 DEF TypeOK
<1>5. lkg' >= lkg
  BY <1>1, <1>2
<1> QED
  BY <1>1, <1>3, <1>4, <1>5, OpFrame, EntryFrame, EpochFrame DEF AdmissionInv

\* A client sends an import.
LEMMA SendStep ==
  ASSUME AdmissionInv, NEW r \in Rids, NEW d \in Digests, NEW e \in probed,
         NEW x \in Expiries, send(r, d, e, x)
  PROVE  AdmissionInv'
<1>1. /\ net' = net \cup {[rid |-> r, digest |-> d, epoch |-> e, expire |-> x]}
      /\ UNCHANGED <<utc, lkg, boot, up, importReady, mem, disk, op, probed, nfAt, starts,
                     kept>>
  BY DEF send, history
<1>2. TypeOK /\ probed \subseteq Boots /\ probed \subseteq 1..boot /\ lkg \in Int
  BY AdmissionTypes DEF AdmissionInv, TypeOK, EpochInv
<1>3. net' \subseteq Message /\ net \subseteq net'
  BY <1>1, <1>2 DEF TypeOK, Message
<1>4. \/ op = NoOp
      \/ up /\ op = Booting
      \/ up /\ op \in [at : {"validate", "recheck", "run", "staged", "stuck", "committed"},
                       msg : net']
      \/ up /\ op \in [at : {"start"}, msg : net', truthful : BOOLEAN, when : Clock]
  BY <1>2, <1>3 DEF TypeOK
<1>5. TypeOK'
  BY <1>1, <1>2, <1>3, <1>4 DEF TypeOK
<1>6. lkg' >= lkg /\ probed' \subseteq 1..boot
  BY <1>1, <1>2
<1> QED
  BY <1>1, <1>5, <1>6, OpFrame, EntryFrame, EpochFrame DEF AdmissionInv

\* Time passes.
LEMMA TickStep ==
  ASSUME AdmissionInv, tick
  PROVE  AdmissionInv'
<1>1. /\ utc < MaxTime /\ utc' = utc + 1
      /\ UNCHANGED <<lkg, boot, up, importReady, mem, disk, net, op, probed, nfAt, starts,
                     kept>>
  BY DEF tick, history
<1>2. TypeOK /\ utc \in 0..MaxTime /\ MaxTime \in Nat /\ lkg \in Int /\ probed \subseteq 1..boot
  BY AdmissionTypes DEF AdmissionInv, TypeOK, EpochInv, Clock
<1>3. utc' \in Clock
  BY <1>1, <1>2 DEF Clock
<1>4. TypeOK'
  BY <1>1, <1>2, <1>3 DEF TypeOK
<1>5. lkg' >= lkg /\ probed' \subseteq 1..boot
  BY <1>1, <1>2
<1> QED
  BY <1>1, <1>4, <1>5, OpFrame, EntryFrame, EpochFrame DEF AdmissionInv

\* The time is asked for in between.
LEMMA SampleStep ==
  ASSUME AdmissionInv, sample
  PROVE  AdmissionInv'
<1>1. UNCHANGED <<utc, boot, up, importReady, mem, disk, net, op, probed, nfAt, starts, kept>>
  BY DEF sample, history
<1>2. TypeOK /\ probed \subseteq 1..boot
  BY DEF AdmissionInv, EpochInv
<1>3. lkg' \in Clock /\ lkg' >= lkg
  BY <1>2, SampleRaises DEF sample
<1>4. TypeOK'
  BY <1>1, <1>2, <1>3 DEF TypeOK
<1> QED
  BY <1>1, <1>2, <1>3, <1>4, OpFrame, EntryFrame, EpochFrame DEF AdmissionInv

\* An import arrives for an undecided entry.
LEMMA ImportKnownStep ==
  ASSUME AdmissionInv, NEW m \in net, importKl1Known(m)
  PROVE  AdmissionInv'
<1>1. /\ up /\ op = NoOp /\ recover_entry(m.rid)
      /\ UNCHANGED <<utc, lkg, boot, up, importReady, net, op, probed, nfAt, starts>>
  BY DEF importKl1Known
<1>2. TypeOK /\ m.rid \in Rids /\ lkg \in Int /\ probed \subseteq 1..boot
  BY AdmissionTypes DEF AdmissionInv, TypeOK, EpochInv, Message
<1>3. /\ mem' \in Snapshot /\ disk' \in Snapshot /\ noteKept
      /\ kept' \in [Rids -> 0..MaxBoots]
      /\ \A q \in Rids :
           /\ mem.journal[q].phase # "none" => mem'.journal[q].phase # "none"
           /\ disk.journal[q].phase # "none" => disk'.journal[q].phase # "none"
           /\ disk'.journal[q].phase # "none" => mem'.journal[q].phase # "none"
  BY <1>1, <1>2, RecoverEntry
<1>4. TypeOK'
  BY <1>1, <1>2, <1>3 DEF TypeOK
<1>5. EntryInv' /\ OneOperationPerRequest'
  BY <1>1, <1>3, <1>4, StoreStep
<1>6. lkg' >= lkg /\ probed' \subseteq 1..boot
  BY <1>1, <1>2
<1> QED
  BY <1>1, <1>4, <1>5, <1>6, IdleFrame, EpochFrame DEF AdmissionInv

\* A new import arrives: it goes on, or is refused.
LEMMA ImportStep ==
  ASSUME AdmissionInv, NEW m \in net, importKl1(m)
  PROVE  AdmissionInv'
<1>1. /\ up /\ op = NoOp /\ mem.journal[m.rid].phase = "none"
      /\ op' = NoOp \/ op' = [at |-> "validate", msg |-> m]
      /\ UNCHANGED <<utc, boot, up, importReady, mem, disk, net, probed, nfAt, starts, kept>>
  BY DEF importKl1, history
<1>2. TypeOK /\ probed \subseteq 1..boot
  BY DEF AdmissionInv, EpochInv
<1>3. lkg' \in Clock /\ lkg' >= lkg
  BY <1>2, SampleRaises DEF importKl1
<1>4. CASE op' = NoOp
  <2>1. TypeOK'
    BY <1>1, <1>2, <1>3, <1>4 DEF TypeOK
  <2> QED
    BY <1>1, <1>2, <1>3, <1>4, <2>1, IdleFrame, EntryFrame, EpochFrame DEF AdmissionInv
<1>5. CASE op' = [at |-> "validate", msg |-> m]
  <2>1. /\ op' \in [at : {"validate", "recheck", "run", "staged", "stuck", "committed"},
                    msg : net]
        /\ op'.at = "validate" /\ op'.msg = m
    BY <1>5
  <2>2. TypeOK'
    BY <1>1, <1>2, <1>3, <2>1 DEF TypeOK
  <2>3. OpInv' /\ AbsenceIsFinal' /\ AdmittedWithinLease'
    BY <1>1, <2>1 DEF OpInv, AbsenceIsFinal, AdmittedWithinLease
  <2> QED
    BY <1>1, <1>2, <1>3, <2>2, <2>3, EntryFrame, EpochFrame DEF AdmissionInv
<1> QED
  BY <1>1, <1>4, <1>5

\* The version and time checks pass, or refuse.
LEMMA ValidateStep ==
  ASSUME AdmissionInv, validate_version_and_time
  PROVE  AdmissionInv'
<1>1. /\ op.at = "validate" /\ (op' = NoOp \/ op' = [op EXCEPT !.at = "recheck"])
      /\ UNCHANGED <<utc, boot, up, importReady, mem, disk, net, probed, nfAt, starts, kept>>
  BY DEF validate_version_and_time, history
<1>2. TypeOK /\ probed \subseteq 1..boot
  BY DEF AdmissionInv, EpochInv
<1>3. lkg' \in Clock /\ lkg' >= lkg
  BY <1>2, SampleRaises DEF validate_version_and_time
<1>4. up /\ op \in [at : {"validate", "recheck", "run", "staged", "stuck", "committed"},
                    msg : net]
  BY <1>1, <1>2 DEF TypeOK, NoOp, Booting
<1>5. EntryInv' /\ OneOperationPerRequest' /\ (TypeOK' => EpochInv')
  BY <1>1, <1>2, <1>3, EntryFrame, EpochFrame
<1>6. CASE op' = NoOp
  <2>1. TypeOK'
    BY <1>1, <1>2, <1>3, <1>6 DEF TypeOK
  <2> QED
    BY <1>5, <1>6, <2>1, IdleFrame DEF AdmissionInv
<1>7. CASE op' = [op EXCEPT !.at = "recheck"]
  <2>1. /\ op' \in [at : {"validate", "recheck", "run", "staged", "stuck", "committed"},
                    msg : net]
        /\ op'.at = "recheck" /\ op'.msg = op.msg
    BY <1>4, <1>7
  <2>2. TypeOK'
    BY <1>1, <1>2, <1>3, <1>4, <2>1 DEF TypeOK
  <2>3. OpInv' /\ AbsenceIsFinal' /\ AdmittedWithinLease'
    BY <1>1, <2>1 DEF AdmissionInv, OpInv, AbsenceIsFinal, AdmittedWithinLease
  <2> QED
    BY <1>5, <2>2, <2>3 DEF AdmissionInv
<1> QED
  BY <1>1, <1>6, <1>7

\* The second check: the sample is no more than the tolerance behind every NOT_FOUND of
\* this epoch, and the lease outlives it, whatever uncertainty it has.
LEMMA RecheckStep ==
  ASSUME AdmissionInv, recheck
  PROVE  AdmissionInv'
<1>1. /\ op.at = "recheck"
      /\ UNCHANGED <<utc, boot, up, importReady, mem, disk, net, probed, nfAt, starts, kept>>
  BY DEF recheck, history
<1>2. PICK u \in Clock, unc \in Uncertainties :
        /\ trusted_now_ms(u)
        /\ \/ op' = NoOp
           \/ /\ op.msg.epoch = boot /\ u + unc < op.msg.expire
              /\ op' = [at |-> "start", msg |-> op.msg, truthful |-> Truthful(u, unc),
                        when |-> utc]
  BY DEF recheck, epoch, Admitted, upper, toStart
<1>3. TypeOK /\ probed \subseteq 1..boot /\ utc \in Clock
  BY DEF AdmissionInv, EpochInv, TypeOK
<1>4. lkg' \in Clock /\ lkg' >= lkg /\ u >= lkg - RollbackTolerance
  BY <1>2, <1>3, SampleRaises
<1>5. /\ up /\ op.msg \in net /\ op.msg.rid \in Rids /\ op.msg.epoch \in Boots
      /\ op.msg.expire \in Int
  BY <1>1, <1>3, OpTypes
<1>6. EntryInv' /\ OneOperationPerRequest' /\ (TypeOK' => EpochInv')
  BY <1>1, <1>3, <1>4, EntryFrame, EpochFrame
<1>7. CASE op' = NoOp
  <2>1. TypeOK'
    BY <1>1, <1>3, <1>4, <1>7 DEF TypeOK
  <2> QED
    BY <1>6, <1>7, <2>1, IdleFrame DEF AdmissionInv
<1>8. CASE /\ op.msg.epoch = boot /\ u + unc < op.msg.expire
           /\ op' = [at |-> "start", msg |-> op.msg, truthful |-> Truthful(u, unc),
                     when |-> utc]
  <2>1. Truthful(u, unc) \in BOOLEAN
    BY DEF Truthful
  <2>2. /\ op' \in [at : {"start"}, msg : net, truthful : BOOLEAN, when : Clock]
        /\ op'.at = "start" /\ op'.msg = op.msg /\ op'.when = utc
    BY <1>3, <1>5, <1>8, <2>1
  <2>3. op'.truthful => Truthful(u, unc)
    BY <1>8, <2>1
  <2>4. TypeOK'
    BY <1>1, <1>3, <1>4, <1>5, <2>2 DEF TypeOK
  <2>5. OpInv'
    BY <1>1, <2>2 DEF AdmissionInv, OpInv
  <2>6. /\ lkg \in Int /\ u \in Int /\ utc \in Int /\ unc \in Nat
        /\ RollbackTolerance \in Nat
        /\ nfAt[op.msg.rid][op.msg.epoch] \in Int
    BY <1>3, <1>5, AdmissionTypes
  <2>7. nfAt[op.msg.rid][op.msg.epoch] <= lkg
    BY <1>5, <1>8 DEF AdmissionInv, EpochInv
  <2>8. nfAt[op.msg.rid][op.msg.epoch] < op.msg.expire + RollbackTolerance
    BY <1>4, <1>5, <1>8, <2>6, <2>7
  <2>9. AbsenceIsFinal'
    BY <1>1, <2>2, <2>8 DEF AbsenceIsFinal
  <2>10. Truthful(u, unc) => utc < op.msg.expire
    BY <1>5, <1>8, <2>6 DEF Truthful
  <2>11. AdmittedWithinLease'
    BY <2>2, <2>3, <2>10 DEF AdmittedWithinLease
  <2> QED
    BY <1>6, <2>4, <2>5, <2>9, <2>11 DEF AdmissionInv
<1> QED
  BY <1>2, <1>7, <1>8

\* The journal entry is made, in memory at least.
LEMMA StartStep ==
  ASSUME AdmissionInv, start
  PROVE  AdmissionInv'
<1> DEFINE m == op.msg
           entry == [phase |-> "open", digest |-> m.digest]
           s == put(m.rid, entry, mem.keys)
<1>1. /\ op.at = "start"
      /\ \E ok \in BOOLEAN : write(s, ok)
      /\ starts' = [starts EXCEPT ![m.rid][boot] = @ + 1]
      /\ op' = [at |-> "run", msg |-> m]
      /\ UNCHANGED <<utc, lkg, boot, up, importReady, net, probed, nfAt>>
  BY DEF start
<1>2. /\ TypeOK /\ starts \in [Rids -> [Boots -> Nat]] /\ probed \subseteq 1..boot
      /\ lkg \in Int /\ boot \in 0..MaxBoots /\ MaxBoots \in Nat
      /\ mem.keys \in {"none", "staged", "active"}
  BY AdmissionTypes DEF AdmissionInv, EpochInv, TypeOK, Snapshot
<1>3. up /\ m \in net /\ m.rid \in Rids /\ m.digest \in Digests
  BY <1>1, <1>2, OpTypes
<1>4. boot \in Boots
  BY <1>2, <1>3 DEF AdmissionInv, EpochInv, Boots
<1>5. mem.journal[m.rid].phase = "none"
  BY <1>1 DEF AdmissionInv, OpInv
<1>6. entry \in Entry /\ entry.phase = "open"
  BY <1>3 DEF Entry
<1>7. op' \in [at : {"validate", "recheck", "run", "staged", "stuck", "committed"}, msg : net]
      /\ op'.at = "run" /\ op'.msg = m
  BY <1>1, <1>3
<1> HIDE DEF m, entry
<1>8. /\ s \in Snapshot /\ s.journal[m.rid] = entry
      /\ \A q \in Rids : mem.journal[q].phase # "none" => s.journal[q].phase # "none"
  BY <1>2, <1>3, <1>6, PutEntry
<1> HIDE DEF s
<1>9. /\ mem' = s /\ mem' \in Snapshot /\ disk' \in Snapshot /\ noteKept
      /\ kept' \in [Rids -> 0..MaxBoots]
      /\ \A r \in Rids :
           /\ mem.journal[r].phase # "none" => mem'.journal[r].phase # "none"
           /\ disk.journal[r].phase # "none" => disk'.journal[r].phase # "none"
           /\ disk'.journal[r].phase # "none" => mem'.journal[r].phase # "none"
  BY <1>1, <1>3, <1>8, WriteKeeps
<1> DEFINE sr == [starts[m.rid] EXCEPT ![boot] = @ + 1]
<1>10. starts' = [starts EXCEPT ![m.rid] = sr]
  BY <1>1, <1>2, <1>3, <1>4
<1>11. /\ sr \in [Boots -> Nat] /\ sr[boot] = starts[m.rid][boot] + 1
       /\ \A b \in Boots \ {boot} : sr[b] = starts[m.rid][b]
  BY <1>2, <1>3, <1>4
<1> HIDE DEF sr
<1>12. /\ starts' \in [Rids -> [Boots -> Nat]] /\ starts'[m.rid] = sr
       /\ \A r \in Rids \ {m.rid} : starts'[r] = starts[r]
  BY <1>2, <1>3, <1>10, <1>11
<1>13. TypeOK'
  BY <1>1, <1>2, <1>3, <1>7, <1>9, <1>12 DEF TypeOK
<1>14. \A r \in Rids, b \in Boots :
         starts'[r][b] # starts[r][b] =>
           /\ b = boot /\ starts'[r][b] = starts[r][b] + 1
           /\ mem.journal[r].phase = "none" /\ mem'.journal[r].phase # "none"
  BY <1>5, <1>6, <1>8, <1>9, <1>11, <1>12
<1>15. EntryInv' /\ OneOperationPerRequest'
  BY <1>1, <1>3, <1>9, <1>13, <1>14, StoreStep
<1>16. OpInv'
  BY <1>6, <1>7, <1>8, <1>9 DEF OpInv
<1>17. AbsenceIsFinal' /\ AdmittedWithinLease'
  BY <1>1, <1>7 DEF AdmissionInv, AbsenceIsFinal, AdmittedWithinLease, m
<1>18. lkg' >= lkg
  BY <1>1, <1>2
<1> QED
  BY <1>1, <1>2, <1>13, <1>15, <1>16, <1>17, <1>18, EpochFrame DEF AdmissionInv

\* A later step of the pipeline: the entry stays, the lease has been checked.
LEMMA PipelineFrame ==
  ASSUME AdmissionInv, TypeOK', noteKept,
         op.at \in {"run", "staged"}, op'.at \in {"staged", "stuck", "committed"},
         op'.msg = op.msg,
         \A r \in Rids :
           /\ mem.journal[r].phase # "none" => mem'.journal[r].phase # "none"
           /\ disk.journal[r].phase # "none" => disk'.journal[r].phase # "none"
           /\ disk'.journal[r].phase # "none" => mem'.journal[r].phase # "none",
         UNCHANGED <<utc, lkg, boot, up, importReady, net, probed, nfAt, starts>>
  PROVE  AdmissionInv'
<1>1. TypeOK /\ lkg \in Int /\ probed \subseteq 1..boot
  BY AdmissionTypes DEF AdmissionInv, EpochInv
<1>2. up /\ op.msg.rid \in Rids
  BY <1>1, OpTypes
<1>3. EntryInv' /\ OneOperationPerRequest'
  BY <1>2, StoreStep
<1>4. OpInv' /\ AbsenceIsFinal' /\ AdmittedWithinLease'
  BY <1>2 DEF AdmissionInv, OpInv, AbsenceIsFinal, AdmittedWithinLease
<1>5. lkg' >= lkg /\ probed' \subseteq 1..boot
  BY <1>1
<1> QED
  BY <1>3, <1>4, <1>5, EpochFrame DEF AdmissionInv

\* The snapshot in memory with other keys.
LEMMA OtherKeys ==
  ASSUME AdmissionInv, NEW k \in {"none", "staged", "active"}
  PROVE  /\ [mem EXCEPT !.keys = k] \in Snapshot
         /\ [mem EXCEPT !.keys = k].journal = mem.journal
BY DEF AdmissionInv, TypeOK, Snapshot

\* The keys are staged.
LEMMA StageStep ==
  ASSUME AdmissionInv, stage
  PROVE  AdmissionInv'
<1> DEFINE s == [mem EXCEPT !.keys = "staged"]
<1>1. PICK ok \in BOOLEAN :
        /\ write(s, ok)
        /\ op' = [op EXCEPT !.at = IF ok THEN "staged" ELSE "stuck"]
  BY DEF stage
<1>2. /\ op.at = "run"
      /\ UNCHANGED <<utc, lkg, boot, up, importReady, net, probed, nfAt, starts>>
  BY DEF stage
<1>3. TypeOK
  BY DEF AdmissionInv
<1>4. up /\ op \in [at : {"validate", "recheck", "run", "staged", "stuck", "committed"},
                    msg : net]
  BY <1>2, <1>3 DEF TypeOK, NoOp, Booting
<1>5. /\ op' \in [at : {"validate", "recheck", "run", "staged", "stuck", "committed"},
                  msg : net]
      /\ op'.at \in {"staged", "stuck", "committed"} /\ op'.msg = op.msg
  BY <1>1, <1>4
<1>6. s \in Snapshot /\ s.journal = mem.journal
  BY OtherKeys
<1> HIDE DEF s
<1>7. /\ mem' \in Snapshot /\ disk' \in Snapshot /\ noteKept
      /\ kept' \in [Rids -> 0..MaxBoots]
      /\ \A r \in Rids :
           /\ mem.journal[r].phase # "none" => mem'.journal[r].phase # "none"
           /\ disk.journal[r].phase # "none" => disk'.journal[r].phase # "none"
           /\ disk'.journal[r].phase # "none" => mem'.journal[r].phase # "none"
  BY <1>1, <1>4, <1>6, WriteKeeps
<1>8. TypeOK'
  BY <1>2, <1>3, <1>4, <1>5, <1>7 DEF TypeOK
<1> QED
  BY <1>2, <1>5, <1>7, <1>8, PipelineFrame

\* The slots are committed.
LEMMA CommitStep ==
  ASSUME AdmissionInv, commit
  PROVE  AdmissionInv'
<1> DEFINE s == [mem EXCEPT !.keys = "active"]
<1>1. /\ write(s, TRUE)
      /\ op.at = "staged" /\ op' = [op EXCEPT !.at = "committed"]
      /\ UNCHANGED <<utc, lkg, boot, up, importReady, net, probed, nfAt, starts>>
  BY DEF commit
<1>2. TypeOK
  BY DEF AdmissionInv
<1>3. up /\ op \in [at : {"validate", "recheck", "run", "staged", "stuck", "committed"},
                    msg : net]
  BY <1>1, <1>2 DEF TypeOK, NoOp, Booting
<1>4. /\ op' \in [at : {"validate", "recheck", "run", "staged", "stuck", "committed"},
                  msg : net]
      /\ op'.at = "committed" /\ op'.msg = op.msg
  BY <1>1, <1>3
<1>5. s \in Snapshot /\ s.journal = mem.journal
  BY OtherKeys
<1> HIDE DEF s
<1>6. /\ mem' \in Snapshot /\ disk' \in Snapshot /\ noteKept
      /\ kept' \in [Rids -> 0..MaxBoots]
      /\ \A r \in Rids :
           /\ mem.journal[r].phase # "none" => mem'.journal[r].phase # "none"
           /\ disk.journal[r].phase # "none" => disk'.journal[r].phase # "none"
           /\ disk'.journal[r].phase # "none" => mem'.journal[r].phase # "none"
  BY <1>1, <1>3, <1>5, WriteKeeps
<1>7. TypeOK'
  BY <1>1, <1>2, <1>3, <1>4, <1>6 DEF TypeOK
<1> QED
  BY <1>1, <1>4, <1>6, <1>7, PipelineFrame

\* The commit is refused: memory forgets the keys, the Store may have them.
LEMMA CommitFailsStep ==
  ASSUME AdmissionInv, commitFails
  PROVE  AdmissionInv'
<1> DEFINE s == [mem EXCEPT !.keys = "none"]
           t == [mem EXCEPT !.keys = "active"]
<1>1. /\ mem' = s /\ (disk' = disk \/ disk' = t) /\ noteKept
      /\ op.at = "staged" /\ op' = [op EXCEPT !.at = "stuck"]
      /\ UNCHANGED <<utc, lkg, boot, up, importReady, net, probed, nfAt, starts>>
  BY DEF commitFails
<1>2. TypeOK /\ disk \in Snapshot
  BY DEF AdmissionInv, TypeOK
<1>3. up /\ op \in [at : {"validate", "recheck", "run", "staged", "stuck", "committed"},
                    msg : net]
  BY <1>1, <1>2 DEF TypeOK, NoOp, Booting
<1>4. /\ op' \in [at : {"validate", "recheck", "run", "staged", "stuck", "committed"},
                  msg : net]
      /\ op'.at = "stuck" /\ op'.msg = op.msg
  BY <1>1, <1>3
<1>5. /\ s \in Snapshot /\ s.journal = mem.journal
      /\ t \in Snapshot /\ t.journal = mem.journal
  BY OtherKeys
<1> HIDE DEF s, t
<1>6. \A r \in Rids : disk.journal[r].phase # "none" => mem.journal[r].phase # "none"
  BY <1>3 DEF AdmissionInv, EntryInv
<1>7. /\ mem' \in Snapshot /\ disk' \in Snapshot /\ kept' \in [Rids -> 0..MaxBoots]
      /\ \A r \in Rids :
           /\ mem.journal[r].phase # "none" => mem'.journal[r].phase # "none"
           /\ disk.journal[r].phase # "none" => disk'.journal[r].phase # "none"
           /\ disk'.journal[r].phase # "none" => mem'.journal[r].phase # "none"
  BY <1>1, <1>2, <1>5, <1>6, KeptType
<1>8. TypeOK'
  BY <1>1, <1>2, <1>3, <1>4, <1>7 DEF TypeOK
<1> QED
  BY <1>1, <1>4, <1>7, <1>8, PipelineFrame

\* The pipeline ends.
LEMMA FinishStep ==
  ASSUME AdmissionInv, finish
  PROVE  AdmissionInv'
<1>1. /\ op.at \in {"run", "staged", "stuck", "committed"} /\ op' = NoOp
      /\ UNCHANGED <<utc, lkg, boot, up, importReady, net, probed, nfAt, starts>>
  BY DEF finish
<1>2. TypeOK /\ probed \subseteq 1..boot /\ lkg \in Int
      /\ mem.keys \in {"none", "staged", "active"}
  BY AdmissionTypes DEF AdmissionInv, EpochInv, TypeOK, Snapshot
<1>3. up /\ op.msg.rid \in Rids
  BY <1>1, <1>2, OpTypes
<1>4. PICK ok \in BOOLEAN, phase \in {"open", "done", "failed"},
           k \in {"none", "staged", "active"} : write(mark(op.msg.rid, phase, k), ok)
  BY <1>2 DEF finish
<1>5. /\ mem' \in Snapshot /\ disk' \in Snapshot /\ noteKept
      /\ kept' \in [Rids -> 0..MaxBoots]
      /\ \A q \in Rids :
           /\ mem.journal[q].phase # "none" => mem'.journal[q].phase # "none"
           /\ disk.journal[q].phase # "none" => disk'.journal[q].phase # "none"
           /\ disk'.journal[q].phase # "none" => mem'.journal[q].phase # "none"
  BY <1>3, <1>4, MarkEntry, WriteKeeps
<1>6. TypeOK'
  BY <1>1, <1>2, <1>5 DEF TypeOK
<1>7. EntryInv' /\ OneOperationPerRequest'
  BY <1>1, <1>3, <1>5, <1>6, StoreStep
<1>8. lkg' >= lkg
  BY <1>1, <1>2
<1> QED
  BY <1>1, <1>2, <1>6, <1>7, <1>8, IdleFrame, EpochFrame DEF AdmissionInv

\* NOT_FOUND is answered: its time is now a known good one, or it has none.
LEMMA NotFoundStep ==
  ASSUME AdmissionInv, NEW r \in Rids, answerNotFound(r)
  PROVE  AdmissionInv'
<1>1. PICK at \in Clock :
        /\ trusted_now_ms(at) \/ (at = 0 /\ UNCHANGED lkg)
        /\ nfAt' = [nfAt EXCEPT ![r][boot] = IF at > @ THEN at ELSE @]
  BY DEF answerNotFound, epoch
<1>0. /\ up /\ op = NoOp
      /\ UNCHANGED <<utc, boot, up, importReady, mem, disk, net, op, probed, starts, kept>>
  BY DEF answerNotFound
<1>2. /\ TypeOK /\ boot \in 0..MaxBoots /\ boot > 0 /\ MaxBoots \in Nat
      /\ nfAt \in [Rids -> [Boots -> Clock \cup {Never}]] /\ probed \subseteq 1..boot
      /\ lkg \in Clock
  BY <1>0, AdmissionTypes DEF AdmissionInv, EpochInv, TypeOK
<1>3. boot \in Boots
  BY <1>2 DEF Boots
<1>4. lkg' \in Clock /\ lkg' >= lkg /\ at <= lkg'
  <2>1. CASE trusted_now_ms(at)
    BY <1>2, <2>1, SampleRaises
  <2>2. CASE at = 0 /\ UNCHANGED lkg
    <3>1. lkg \in Int /\ lkg >= 0
      BY <1>2, AdmissionConstants DEF Clock
    <3> QED
      BY <1>2, <2>2, <3>1
  <2> QED
    BY <1>1, <2>1, <2>2
<1> DEFINE v == IF at > nfAt[r][boot] THEN at ELSE nfAt[r][boot]
           row == [nfAt[r] EXCEPT ![boot] = v]
<1>5. v \in Clock \cup {Never} /\ (v = at \/ v = nfAt[r][boot])
  BY <1>2, <1>3
<1>6. nfAt' = [nfAt EXCEPT ![r] = row]
  BY <1>1, <1>2, <1>3
<1> HIDE DEF v
<1>7. /\ row \in [Boots -> Clock \cup {Never}] /\ row[boot] = v
      /\ \A b \in Boots \ {boot} : row[b] = nfAt[r][b]
  BY <1>2, <1>3, <1>5
<1> HIDE DEF row
<1>8. /\ nfAt' \in [Rids -> [Boots -> Clock \cup {Never}]] /\ nfAt'[r] = row
      /\ \A q \in Rids \ {r} : nfAt'[q] = nfAt[q]
  BY <1>2, <1>6, <1>7
<1>9. TypeOK'
  BY <1>0, <1>2, <1>4, <1>8 DEF TypeOK
<1>10. /\ lkg \in Int /\ lkg' \in Int /\ boot \in Nat
       /\ \A q \in Rids, b \in Boots : nfAt[q][b] \in Int
       /\ \A b \in Boots : b \in Int
  BY <1>2, <1>4, AdmissionTypes
<1>11. \A q \in Rids, b \in Boots : b > boot' => nfAt'[q][b] = Never
  BY <1>0, <1>3, <1>7, <1>8, <1>10 DEF AdmissionInv, EpochInv
<1>12. \A q \in Rids, b \in Boots : b = boot' => nfAt'[q][b] <= lkg'
  <2>1. \A q \in Rids : nfAt[q][boot] <= lkg'
    BY <1>3, <1>4, <1>10 DEF AdmissionInv, EpochInv
  <2>2. v <= lkg'
    BY <1>4, <1>5, <2>1
  <2> QED
    BY <1>0, <1>7, <1>8, <2>1, <2>2
<1>13. EpochInv'
  BY <1>0, <1>2, <1>11, <1>12 DEF EpochInv
<1> QED
  BY <1>0, <1>9, <1>13, EntryFrame, IdleFrame DEF AdmissionInv

-----------------------------------------------------------------------------
(***************************************************************************)
(* The theorems                                                            *)
(***************************************************************************)

\* Every step preserves the invariant.
LEMMA NextAdmissionInv == AdmissionInv /\ [Next]_vars => AdmissionInv'
<1> SUFFICES ASSUME AdmissionInv, [Next]_vars PROVE AdmissionInv'
  OBVIOUS
<1>1. CASE initialize
  BY <1>1, InitializeStep
<1>2. CASE compute_capability
  BY <1>2, CapabilityStep
<1>3. CASE restart
  BY <1>3, RestartStep
<1>4. CASE contractSnapshot
  BY <1>4, SnapshotStep
<1>5. ASSUME NEW r \in Rids, recover_on_startup(r) PROVE AdmissionInv'
  BY <1>5, RecoverStep
<1>6. ASSUME NEW r \in Rids, NEW d \in Digests, NEW e \in probed, NEW x \in Expiries,
             send(r, d, e, x)
      PROVE  AdmissionInv'
  BY <1>6, SendStep
<1>7. ASSUME NEW m \in net, importKl1Known(m) PROVE AdmissionInv'
  BY <1>7, ImportKnownStep
<1>8. ASSUME NEW m \in net, importKl1(m) PROVE AdmissionInv'
  BY <1>8, ImportStep
<1>9. CASE validate_version_and_time
  BY <1>9, ValidateStep
<1>10. CASE recheck
  BY <1>10, RecheckStep
<1>11. CASE start
  BY <1>11, StartStep
<1>12. CASE stage
  BY <1>12, StageStep
<1>13. CASE commit
  BY <1>13, CommitStep
<1>14. CASE commitFails
  BY <1>14, CommitFailsStep
<1>15. CASE finish
  BY <1>15, FinishStep
<1>16. ASSUME NEW r \in Rids, answerNotFound(r) PROVE AdmissionInv'
  BY <1>16, NotFoundStep
<1>17. CASE tick
  BY <1>17, TickStep
<1>18. CASE sample
  BY <1>18, SampleStep
<1>19. CASE UNCHANGED vars
  <2>1. UNCHANGED <<utc, lkg, boot, up, importReady, mem, disk, net, op, probed, nfAt, starts,
                    kept>>
    BY <1>19 DEF vars
  <2>2. TypeOK' /\ probed' \subseteq 1..boot /\ lkg' >= lkg /\ (up' => up)
    BY <2>1, AdmissionTypes DEF AdmissionInv, TypeOK, EpochInv
  <2> QED
    BY <2>1, <2>2, OpFrame, EntryFrame, EpochFrame DEF AdmissionInv
<1> QED
  BY <1>1, <1>2, <1>3, <1>4, <1>5, <1>6, <1>7, <1>8, <1>9, <1>10, <1>11, <1>12, <1>13, <1>14,
     <1>15, <1>16, <1>17, <1>18, <1>19 DEF Next

\* The invariant of importKl1, query_result, run_pipeline, initialize and the trusted
\* time they ask.
THEOREM AdmissionInvHolds == Spec => []AdmissionInv
BY InitAdmissionInv, NextAdmissionInv, PTL DEF Spec

\* Every variable of the admission model has its type, and no import under way outlives
\* its process.
THEOREM AdmissionTypeCorrect == Spec => []TypeOK
<1>1. AdmissionInv => TypeOK
  BY DEF AdmissionInv
<1> QED
  BY <1>1, AdmissionInvHolds, PTL

\* NOT_FOUND answered past a lease is final, whatever uncertainties the samples report
\* (importKl1, query_result).
THEOREM AbsenceStaysFinal == Spec => []AbsenceIsFinal
<1>1. AdmissionInv => AbsenceIsFinal
  BY DEF AdmissionInv
<1> QED
  BY <1>1, AdmissionInvHolds, PTL

\* An operation is admitted before its lease ends (kl1_trusted_upper_now, recheck).
THEOREM AdmissionsAreWithinLease == Spec => []AdmittedWithinLease
<1>1. AdmissionInv => AdmittedWithinLease
  BY DEF AdmissionInv
<1> QED
  BY <1>1, AdmissionInvHolds, PTL

\* A request id starts one operation per process, and none once the Store knows of it,
\* although every write of the journal may fail unnoticed (importKl1, run_pipeline).
THEOREM RequestsStartOnce == Spec => []OneOperationPerRequest
<1>1. AdmissionInv => OneOperationPerRequest
  BY DEF AdmissionInv
<1> QED
  BY <1>1, AdmissionInvHolds, PTL

=============================================================================
