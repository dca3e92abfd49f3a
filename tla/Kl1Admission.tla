----------------------------- MODULE Kl1Admission -----------------------------
(***************************************************************************)
(* Lease admission of business key imports (KL1).  A client probes the     *)
(* contract snapshot, sends an import that names the epoch it saw and the  *)
(* instant E its lease ends, and asks for the result.  Requests are        *)
(* delivered late, more than once or never; the daemon restarts; writes    *)
(* fail; the trusted time is only as good as its rollback protection,      *)
(* which a restart forgets.                                                *)
(*                                                                         *)
(* The provider's snapshot is kept in memory and written whole, as in      *)
(* BusinessKeyProvisioning, which has the detail of slots, generations and *)
(* of each write.  Here the pipeline is four steps: the journal entry, the *)
(* staged keys, the commit, the last entry.  One mutex serialises imports  *)
(* and queries, so these steps are interleaved with time, crashes and      *)
(* deliveries only.                                                        *)
(*                                                                         *)
(* A request is its id and the digest of its items (build_request_digest): *)
(* SHA-256 is taken to be injective, the items are not looked into.        *)
(***************************************************************************)
EXTENDS Integers, FiniteSets

CONSTANTS
  Rids,              \* request ids
  Digests,           \* digests of what clients send under a request id
  Expiries,          \* the instants leases end
  MaxTime,           \* bound: UTC
  MaxBoots,          \* bound: starts of the daemon
  MaxMessages,       \* bound: distinct import requests sent
  Uncertainties,     \* what samples may report as their uncertainty
  MaxUncertainty,    \* the limit of the KL1 time gate
  RollbackTolerance,
  NoDigest

ASSUME AdmissionConstants ==
  /\ {MaxTime, MaxBoots, MaxMessages, MaxUncertainty, RollbackTolerance} \subseteq Nat
  /\ Uncertainties \subseteq Nat
  /\ Expiries \subseteq 1..MaxTime
  /\ NoDigest \notin Digests

Clock == 0..MaxTime
Boots == 1..MaxBoots

VARIABLES
  utc,        \* true UTC
  lkg,        \* last known good time of the composite, in memory
  boot,       \* which start of the daemon this is
  up,         \* is the process there?
  importReady,  \* import_ready, computed once at initialize
  mem,        \* the provider's snapshot in memory
  disk,       \* the snapshot the Store holds
  net,        \* import requests that may still be delivered
  op,         \* what the holder of the mutex is doing
  probed,     \* epochs clients have seen
  nfAt,       \* history: the latest queried_at_ms of a NOT_FOUND, per id and epoch
  starts,     \* history: operations started, per request id and boot
  kept        \* history: the boot in which an entry of the id reached the Store, or 0

history == <<nfAt, starts, kept>>
vars == <<utc, lkg, boot, up, importReady, mem, disk, net, op, probed, nfAt, starts, kept>>

\* A journal entry: decided or not, and the digest it was made for.
Entry == [phase : {"none", "open", "done", "failed"}, digest : Digests \cup {NoDigest}]
NoEntry == [phase |-> "none", digest |-> NoDigest]

\* keys: nothing, staged keys, or ACTIVE slots under a commit marker.
Snapshot == [journal : [Rids -> Entry], keys : {"none", "staged", "active"}]
EmptySnapshot == [journal |-> [r \in Rids |-> NoEntry], keys |-> "none"]

NoOp == [at |-> "idle"]
Booting == [at |-> "boot"]
Never == -1

Init ==
  /\ utc = 0 /\ lkg = 0
  /\ boot = 0 /\ up = FALSE /\ importReady = FALSE
  /\ mem = EmptySnapshot /\ disk = EmptySnapshot
  /\ net = {} /\ op = NoOp /\ probed = {}
  /\ nfAt = [r \in Rids |-> [b \in Boots |-> Never]]
  /\ starts = [r \in Rids |-> [b \in Boots |-> 0]]
  /\ kept = [r \in Rids |-> 0]

-----------------------------------------------------------------------------
(***************************************************************************)
(* Trusted time                                                            *)
(***************************************************************************)

\* Mutant: a sample within the tolerance takes the last known good time back.
trusted_now_follows(u) ==
  /\ u >= lkg - RollbackTolerance
  /\ lkg' = u

\* A trusted sample u of the composite: what NoRollbackAfterReturn promises and no
\* more.  Samples are absolute; only the recent past bounds them.
trusted_now_ms(u) ==
  /\ u >= lkg - RollbackTolerance
  /\ lkg' = IF u > lkg THEN u ELSE lkg

\* kl1_trusted_upper_now: a sample that is too uncertain is refused; every sample has
\* an uncertainty of its own.
upper(u, unc) == u + unc
gatePasses(unc) == unc <= MaxUncertainty

\* The error of a sample is within the uncertainty it reports.
Truthful(u, unc) == u - unc <= utc /\ utc <= u + unc

-----------------------------------------------------------------------------
(***************************************************************************)
(* Writing                                                                 *)
(***************************************************************************)

\* History: the entries that are in the Store now.
noteKept ==
  kept' = [r \in Rids |->
             IF kept[r] = 0 /\ disk'.journal[r].phase # "none" THEN boot ELSE kept[r]]

\* save_state: memory has changed to s.  A write that is reported as failed may or
\* may not have replaced what the Store holds.
write(s, ok) ==
  /\ mem' = s
  /\ disk' \in IF ok THEN {s} ELSE {s, disk}
  /\ noteKept

\* The snapshot in memory with another entry for r, or with its entry in another phase,
\* and with other keys.
put(r, e, k) == [journal |-> [mem.journal EXCEPT ![r] = e], keys |-> k]
mark(r, phase, k) == put(r, [phase |-> phase, digest |-> mem.journal[r].digest], k)

-----------------------------------------------------------------------------
(***************************************************************************)
(* The daemon                                                              *)
(***************************************************************************)

openEntries == {r \in Rids : mem.journal[r].phase = "open"}

\* Mutant: an undecided entry is dropped.
forgetEntry(r) ==
  \E ok \in BOOLEAN : write(put(r, NoEntry, mem.keys), ok)

\* recover_entry: an open entry is decided by what the slots hold; which generation
\* they have is not known here.  Rolling back clears what is staged, unless it is of
\* another generation; it is one write with the entry here.  Results are ignored.
recover_entry(r) ==
  \E ok \in BOOLEAN :
    \/ /\ mem.keys = "active"
       /\ write(mark(r, "done", mem.keys), ok)
    \/ \E k \in IF mem.keys = "staged" THEN {"none", "staged"} ELSE {mem.keys} :
         write(mark(r, "failed", k), ok)

\* Mutant: a restart keeps the epoch.
epochConstant == 1

\* KeyprovEpochSource::epoch: boot nonce and recovery generation.
epoch == boot

\* initialize: the snapshot is loaded, the epoch is new with every start.
initialize ==
  /\ ~up /\ boot < MaxBoots
  /\ up' = TRUE
  /\ boot' = boot + 1
  /\ lkg' = 0
  /\ mem' = disk
  /\ op' = Booting
  /\ UNCHANGED <<utc, importReady, disk, net, probed, history>>

\* recover_on_startup, one open entry after the other.
recover_on_startup(r) ==
  /\ op = Booting /\ r \in openEntries
  /\ recover_entry(r)
  /\ UNCHANGED <<utc, lkg, boot, up, importReady, net, op, probed, nfAt, starts>>

\* The rest of initialize.  What provider, certificate and HSM can do is looked at
\* once; here it is either enough for imports or not.
compute_capability ==
  /\ op = Booting /\ openEntries = {}
  /\ importReady' \in BOOLEAN
  /\ op' = NoOp
  /\ UNCHANGED <<utc, lkg, boot, up, mem, disk, net, probed, history>>

\* The daemon stops or crashes, whatever it is doing.
restart ==
  /\ up
  /\ up' = FALSE
  /\ op' = NoOp
  /\ UNCHANGED <<utc, lkg, boot, importReady, mem, disk, net, probed, history>>

\* contractSnapshot: supports_lease_admission and the epoch.
contractSnapshot ==
  /\ up /\ op = NoOp
  /\ importReady
  /\ probed' = probed \cup {epoch}
  /\ UNCHANGED <<utc, lkg, boot, up, importReady, mem, disk, net, op, history>>

\* A client sends an import under an epoch it has seen, some time or other.
send(r, d, e, expire) ==
  LET m == [rid |-> r, digest |-> d, epoch |-> e, expire |-> expire] IN
  /\ m \notin net /\ Cardinality(net) < MaxMessages
  /\ net' = net \cup {m}
  /\ UNCHANGED <<utc, lkg, boot, up, importReady, mem, disk, op, probed, history>>

\* The provider's part, fail-closed: any staged keys and any commit marker count.
has_transaction_residue == mem.keys # "none"

\* The epoch the client saw is this one, and the lease outlives the sample.
Admitted(m, u, unc) ==
  /\ gatePasses(unc)
  /\ m.epoch = epoch
  /\ upper(u, unc) < m.expire

\* importKl1 of a request with an undecided entry: it is reconciled.  Decided entries
\* and other digests are answered without a change.
importKl1Known(m) ==
  /\ up /\ op = NoOp /\ importReady
  /\ mem.journal[m.rid].phase = "open" /\ mem.journal[m.rid].digest = m.digest
  /\ recover_entry(m.rid)
  /\ UNCHANGED <<utc, lkg, boot, up, importReady, net, op, probed, nfAt, starts>>

\* importKl1 of a new request, up to its first check of time, epoch and lease.  The
\* validity dates of items and certificate may refuse it too.
importKl1(m) ==
  /\ up /\ op = NoOp /\ importReady
  /\ mem.journal[m.rid].phase = "none" /\ ~has_transaction_residue
  /\ \E u \in Clock, unc \in Uncertainties :
       /\ trusted_now_ms(u)
       /\ op' \in {NoOp} \cup
                  (IF Admitted(m, u, unc) THEN {[at |-> "validate", msg |-> m]} ELSE {})
  /\ UNCHANGED <<utc, boot, up, importReady, mem, disk, net, probed, history>>

\* validate_version_and_time takes a sample of its own; it may refuse.
validate_version_and_time ==
  /\ op.at = "validate"
  /\ \E u \in Clock : trusted_now_ms(u)
  /\ op' \in {NoOp, [op EXCEPT !.at = "recheck"]}
  /\ UNCHANGED <<utc, boot, up, importReady, mem, disk, net, probed, history>>

\* The operation that is about to start, and what its sample was worth.
toStart(u, unc) ==
  [at |-> "start", msg |-> op.msg, truthful |-> Truthful(u, unc), when |-> utc]

\* Mutant: the lease is not checked again.
recheckEpochOnly ==
  /\ op.at = "recheck"
  /\ \E u \in Clock, unc \in Uncertainties :
       /\ trusted_now_ms(u)
       /\ op' = IF op.msg.epoch = epoch THEN toStart(u, unc) ELSE NoOp
  /\ UNCHANGED <<utc, boot, up, importReady, mem, disk, net, probed, history>>

\* The second check, just before the journal entry is made.
recheck ==
  /\ op.at = "recheck"
  /\ \E u \in Clock, unc \in Uncertainties :
       /\ trusted_now_ms(u)
       /\ op' = IF Admitted(op.msg, u, unc) THEN toStart(u, unc) ELSE NoOp
  /\ UNCHANGED <<utc, boot, up, importReady, mem, disk, net, probed, history>>

\* run_pipeline makes the journal entry; whether it was written is not looked at.
start ==
  /\ op.at = "start"
  /\ LET m == op.msg IN
       /\ \E ok \in BOOLEAN :
            write(put(m.rid, [phase |-> "open", digest |-> m.digest], mem.keys), ok)
       /\ starts' = [starts EXCEPT ![m.rid][boot] = @ + 1]
       /\ op' = [at |-> "run", msg |-> m]
  /\ UNCHANGED <<utc, lkg, boot, up, importReady, net, probed, nfAt>>

\* unwrapToStaging and the entries that follow it.
stage ==
  /\ op.at = "run"
  /\ \E ok \in BOOLEAN :
       /\ write([mem EXCEPT !.keys = "staged"], ok)
       /\ op' = [op EXCEPT !.at = IF ok THEN "staged" ELSE "stuck"]
  /\ UNCHANGED <<utc, lkg, boot, up, importReady, net, probed, nfAt, starts>>

\* commitBatch has written slots and marker.
commit ==
  /\ op.at = "staged"
  /\ write([mem EXCEPT !.keys = "active"], TRUE)
  /\ op' = [op EXCEPT !.at = "committed"]
  /\ UNCHANGED <<utc, lkg, boot, up, importReady, net, probed, nfAt, starts>>

\* The write of commitBatch fails: slots and marker in memory are put back, staging
\* is not.  The Store may hold the commit all the same.
commitFails ==
  /\ op.at = "staged"
  /\ mem' = [mem EXCEPT !.keys = "none"]
  /\ disk' \in {disk, [mem EXCEPT !.keys = "active"]}
  /\ noteKept
  /\ op' = [op EXCEPT !.at = "stuck"]
  /\ UNCHANGED <<utc, lkg, boot, up, importReady, net, probed, nfAt, starts>>

\* run_pipeline ends: the entry says succeeded or failed, or is left undecided.  A
\* failure rolls back what is staged.
finish ==
  /\ op.at \in {"run", "staged", "stuck", "committed"}
  /\ LET r == op.msg.rid IN
     \E ok \in BOOLEAN :
       \/ write(mark(r, "open", mem.keys), ok)
       \/ op.at = "committed" /\ write(mark(r, "done", mem.keys), ok)
       \/ op.at # "committed" /\ write(mark(r, "failed", "none"), ok)
  /\ op' = NoOp
  /\ UNCHANGED <<utc, lkg, boot, up, importReady, net, probed, nfAt, starts>>

\* query_result finds neither an entry nor residue.
NotFound(r) == mem.journal[r].phase = "none" /\ ~has_transaction_residue

\* getImportResultKl1 answers NOT_FOUND in this epoch.  queried_at_ms is the bare UTC
\* of a sample, or 0 when there is no trusted one.
answerNotFound(r) ==
  /\ up /\ op = NoOp
  /\ NotFound(r)
  /\ \E at \in Clock :
       /\ trusted_now_ms(at) \/ (at = 0 /\ UNCHANGED lkg)
       /\ nfAt' = [nfAt EXCEPT ![r][epoch] = IF at > @ THEN at ELSE @]
  /\ UNCHANGED <<utc, boot, up, importReady, mem, disk, net, op, probed, starts, kept>>

\* The time is asked for in between as well: for capability and time stamps
\* (compute_capability, recover_entry, importKl1, run_pipeline), and by the monitor and
\* by certificate injection, which share the composite.
sample ==
  /\ up
  /\ \E u \in Clock : trusted_now_ms(u)
  /\ UNCHANGED <<utc, boot, up, importReady, mem, disk, net, op, probed, history>>

tick ==
  /\ utc < MaxTime
  /\ utc' = utc + 1
  /\ UNCHANGED <<lkg, boot, up, importReady, mem, disk, net, op, probed, history>>

Next ==
  \/ initialize \/ compute_capability \/ restart \/ contractSnapshot
  \/ \E r \in Rids : recover_on_startup(r)
  \/ \E r \in Rids, d \in Digests, e \in probed, x \in Expiries : send(r, d, e, x)
  \/ \E m \in net : importKl1Known(m) \/ importKl1(m)
  \/ validate_version_and_time \/ recheck \/ start
  \/ stage \/ commit \/ commitFails \/ finish
  \/ \E r \in Rids : answerNotFound(r)
  \/ sample \/ tick

Spec == Init /\ [][Next]_vars

-----------------------------------------------------------------------------
(***************************************************************************)
(* Properties                                                              *)
(***************************************************************************)

Message == [rid : Rids, digest : Digests, epoch : Boots, expire : Expiries]

\* An import under way comes from a request that was sent, and ends with the process.
TypeOK ==
  /\ utc \in Clock /\ lkg \in Clock
  /\ boot \in 0..MaxBoots
  /\ {up, importReady} \subseteq BOOLEAN
  /\ mem \in Snapshot /\ disk \in Snapshot
  /\ net \subseteq Message
  /\ \/ op = NoOp
     \/ up /\ op = Booting
     \/ up /\ op \in [at : {"validate", "recheck", "run", "staged", "stuck", "committed"},
                      msg : net]
     \/ up /\ op \in [at : {"start"}, msg : net, truthful : BOOLEAN, when : Clock]
  /\ probed \subseteq Boots
  /\ nfAt \in [Rids -> [Boots -> Clock \cup {Never}]]
  /\ starts \in [Rids -> [Boots -> Nat]]
  /\ kept \in [Rids -> 0..MaxBoots]

\* Once NOT_FOUND was answered in an epoch with a queried_at_ms that had passed E by
\* the rollback tolerance, no late or repeated delivery of an import with that epoch
\* and that E starts an operation any more, whatever time and uncertainty the daemon
\* is given and however often it restarts (importKl1, query_result).
AbsenceIsFinal ==
  op.at \in {"start", "run"} =>
    nfAt[op.msg.rid][op.msg.epoch] < op.msg.expire + RollbackTolerance

\* An operation is admitted before its lease ends: when the sample at the second
\* check was truthful, true UTC had not reached E (kl1_trusted_upper_now, recheck).
AdmittedWithinLease ==
  op.at = "start" /\ op.truthful => op.when < op.msg.expire

\* However often the imports of a request id are delivered, with whatever items, one
\* process starts at most one operation for it; and once an entry of it has reached
\* the Store, through whichever of the pipeline's ignored writes, no later process
\* starts another (importKl1, run_pipeline, recover_entry).
OneOperationPerRequest ==
  \A r \in Rids, b \in Boots :
    /\ starts[r][b] <= 1
    /\ kept[r] # 0 /\ b > kept[r] => starts[r][b] = 0

-----------------------------------------------------------------------------
(***************************************************************************)
(* The inductive invariant                                                 *)
(***************************************************************************)

\* An entry never goes away again: not from the Store, and not from memory while the
\* process lives; a running process knows of every entry in the Store.  A start
\* without an entry was one of an earlier process.
EntryInv ==
  \A r \in Rids :
    /\ kept[r] # 0 <=> disk.journal[r].phase # "none"
    /\ up /\ disk.journal[r].phase # "none" => mem.journal[r].phase # "none"
    /\ kept[r] <= boot
    /\ \A b \in Boots :
         b > boot \/ (up /\ b = boot /\ mem.journal[r].phase = "none") => starts[r][b] = 0

\* An import finds no entry until it makes one.
OpInv ==
  /\ op.at \in {"validate", "recheck", "start"} => mem.journal[op.msg.rid].phase = "none"
  /\ op.at \in {"run", "staged", "stuck", "committed"} =>
       mem.journal[op.msg.rid].phase # "none"

\* An epoch has seen no NOT_FOUND before its start, and none later than the last
\* known good time of the process that is its own.
EpochInv ==
  /\ up => boot > 0
  /\ probed \subseteq 1..boot
  /\ \A r \in Rids, b \in Boots :
       /\ b > boot => nfAt[r][b] = Never
       /\ b = boot => nfAt[r][b] <= lkg

\* What every step of clients, daemon and clock preserves.
AdmissionInv ==
  /\ TypeOK
  /\ EntryInv /\ OpInv /\ EpochInv
  /\ AbsenceIsFinal /\ AdmittedWithinLease /\ OneOperationPerRequest

=============================================================================
