# TLA+ models of the T-Box security daemon (iov-vehicle-tbox-sec)

The daemon provisions a vehicle's telematics unit: device key and certificate,
TLS credentials, diagnostic seed and key, trusted time, and the pair of business
keys (V2C uplink and downlink AEAD). This directory holds TLA+ models of it, TLC
configurations for small instances, and TLAPS proofs. Paths are relative to the
repository root.

## 1. Inventory

| Component | State | Operations | Interacts with | Hard part |
|---|---|---|---|---|
| `BusinessKeyProvisioningService` (`src/business_key_provisioning.cpp`) | readiness flags, KL1 epoch; one mutex over every entry point | `initialize`, `import`, `importKl1`, `getImportResult`, `getStatus`, `beginShutdown` | provider, ledger, trusted time, device certificate | a ten-write pipeline that may fail or crash at every write; reconciliation at start and on retry |
| `SoftFileBusinessKeyProvider` (`src/soft_file_business_key_provider.cpp`) | ACTIVE and staged slots, generation, commit marker, journal; one file | `unwrapToStaging`, `verifyStaging`, `commitBatch`, `rollbackStaging`, `saveJournal`, `listJournal`, `querySlot`, `hasTransactionResidue` | external `hwyz::store::Store` | memory changes before the write that may fail |
| `SecureMetadataLedger` | one metadata entry per purpose | `load`, `get`, `put` | external Store | written after the commit it describes |
| KL1 admission (in the service) | contract epoch, lease, trusted upper time | contract snapshot, lease checks | trusted time | a late or repeated request against a lease, an uncertain clock and restarts |
| Envelope validation, canonical encoding | none | pure | service | which requests count as the same |
| `TrustedTime` (`src/trusted_time.cpp`) | last known good time, cached verdict, event sequence, subscribers | `query`, `get`, `refresh_now`, `subscribe`, monitor loop | platform time service, RTC | monitor thread, callbacks, check and update in two critical sections, leases that run out |
| `CertificateStore` (`src/certificate_store.cpp`) | generation directories, CURRENT, current generation | `openAndRecover`, `commit`, clean-up | file system, `SecService` | power loss between writes, fsyncs and renames |
| `TlsCredentialProvider` | profile status, version, references | `getTlsCredential`, `signTls`, `rotateCredential`, `loadMaterials` | certificate store, HSM | references that outlive rotation |
| `SecService` (`src/sec_service.cpp`) | provisioning state, CSR, seed, attempt counter, lockout | key pair, CSR, certificate, seed and key, reset | HSM, certificate store, TLS provider, PROV | no lock of its own; state in several stores; lockout |
| `SoftFileHsm`, `KeyEngine` | key files | generate, load, export, sign | `SecService` | a key stored in two writes |
| `SecIpcDispatcher`, `SecClient`, `SecRetryPolicy` | connections, pointers to the components | request, reply, retry | each other | lost and late replies, retries of what was done |
| `SecApplication` | lifecycle | start, failing start, shutdown | all | order of start and stop |
| Validators, CSR and chain parsers, adapters, tools | none, or forwarding | – | – | – |

What makes the modelled parts correct:

* business keys: both purposes change together or not at all; keys in force only
  get newer and are never lost; every trace of a request is covered by its
  journal entry; an answer given is not taken back; whatever was open at a crash
  is decided at the next start;
* KL1: a request is not admitted after its lease, never started after its client
  was told that it is absent for good, and started once as far as the journal can
  tell;
* trusted time: it does not go back, no lease outlives what it was granted on, and
  a loss of trust gets published without anybody asking;
* certificate store: a commit that was reported as successful survives power
  loss; to its users the store is one cell;
* device identity: the stored chain always certifies the stored key, the
  credential in service is the stored chain, old references expire;
* security access: attempts are bounded and a seed is good for one answer;
* IPC and application: a retry does no harm, calls return, shutdown ends and
  releases nothing in use.

The hazards, each at its line and with the property that would catch it, are in
`PROJECT.json` under `hazards`; those without a property say why.

## 2. Modules

| Module | Models |
|---|---|
| `BusinessKeyStore` | the provider's persistent state as one record (a *snapshot*) and the functions its operations apply to it |
| `BusinessKeyProvisioning` | service, provider and ledger as a state machine |
| `Kl1Admission` | lease admission over a network, a clock and a journal whose writes may fail |
| `CertificateStore` | the certificate store over a file system that may lose what was not synced |
| `CertificateCell` | what the store promises: one atomic cell; `CertificateStore` implements it |
| `TimeComposite` | the composite time provider, its adapter and its gates, queried by several threads |
| `TrustedTime` | the monitor on top of it; extends `TimeComposite` |
| `SeedKey` | security access: seeds, keys, attempts, lockout |
| `SecIpc` | client, retry policy, connection threads, dispatcher, application; extends `SeedKey` |
| `DeviceIdentity` | `SecService`'s provisioning over HSM, certificate store and TLS provider |
| `MC*` | instances for TLC |
| `BusinessKeyStoreProofs`, `BusinessKeyProvisioningProofs`, `CertificateStoreProofs`, `TrustedTimeProofs` (of `TimeComposite` and `TrustedTime`), `Kl1AdmissionProofs`, `SeedKeyProofs`, `SecIpcProofs`, `DeviceIdentityProofs` | lemmas and theorems |

Operators keep the names of the code. Definitions introduced by a comment that
begins with *Mutant* are altered copies of the definition that follows them; no
specification uses them. Each shows that one of the properties notices a mistake
of that kind.

### BusinessKeyStore and BusinessKeyProvisioning

The provider keeps all its state in memory and writes the whole of it under one
key on every change, so memory (`mem`) and disk (`disk`) are two snapshots. The
same holds for the ledger (`ledger`, `ledgerDisk`). A request is an *operation*:
a request id with one wrapped key per purpose; two operations with one request id
are the same id sent with different content. Keys, digests and dates are
abstracted to the operation that delivered them; versions are kept because
admission compares them.

Every entry point holds the service mutex to its end, so requests do not
interleave. What falls between two steps is a crash, and what happens at a step
is a failing write. One action is therefore one call that writes, together with
the decision that follows from its result:

| Action | Code |
|---|---|
| `import`, `importKl1` | admission of a new request id and the first journal write of `run_pipeline` |
| `unwrapToStaging(p)`, `noteStaged`, `noteBothStaged` | the unwrap loop and its journal writes |
| `verifyStaging`, `commitBatch`, `attest`, `putLedger(p)` | the rest of `run_pipeline` and `update_ledger` |
| `noteUnknown`, `rollback`, `noteFailed` | its error branches |
| `resume(o)` | a retry of an unfinished request: `recover_entry` |
| `report(r)` | a retry or a query of a finished one |
| `initialize`, `recover_on_startup(r)`, `finishInitialize` | start |
| `beginShutdown`, `crash` | shutdown flag; process end at any point |

A write (`save_state`) has one of four outcomes, chosen by `SaveOutcomes`: it
works; the Store is not ready and refuses; it fails and leaves the old content; or
it reports failure although the new content is there (*ambiguous*). The code's
`is_outcome_unknown` treats the last two alike. The history variable `blurred` notes
that a commit was ambiguous: from then on the code cannot know what it committed. `saveJournal`'s result is ignored
by the code and by the model. `LookupMayFail` lets the journal lookup of the
legacy import find the Store unreadable.

Left out: cryptography and encodings; checks that can only refuse (envelope,
validity dates, trusted time, lease, epoch) are part of the choice whether a
request is made; stored content is intact (no tampering, no bit rot, no unknown
state version); `initialize` that fails leaves a service that refuses everything
and is no action; the provider reports no storage replacement, as the soft-file
one does. Startup recovery takes the entries in any order, the code in the order
of their digests.

### Kl1Admission

The import is in the steps between which time may pass or the process may die:
`importKl1` (capability, journal, residue, time gate, epoch, lease),
`validate_version_and_time`, `recheck`, and the pipeline in short: `start` (the
journal entry), `stage`, `commit` or `commitFails`, `finish`. The provider's snapshot
is in memory and on disk as above, reduced to the phase of each entry and to
whether keys are staged or ACTIVE. `saveJournal`'s result is ignored: a write may
leave the old content, and a crash then forgets the entry. `recover_entry` decides
an open entry by what the slots hold, at start and when the request comes again.

Requests that were sent stay in `net` and may be delivered at any later time, any
number of times. A request is its id, the digest of its items, the epoch its
client saw and the end of its lease; the digest is an opaque value, and that
`build_request_digest` tells contents apart is taken for granted. True UTC (`utc`)
and the daemon's samples are different things: a sample is only bounded by the last
known good time, as `NoRollbackAfterReturn` of `TimeComposite` promises, and a
restart forgets that bound. Every sample has an uncertainty of its own, and the KL1
gate refuses one that is too large; `queried_at_ms` of an answer is the bare UTC of a
sample. `sample` stands for the other callers of the same composite.
`AdmittedWithinLease` speaks of samples that were truthful within the uncertainty
reported with them; `AbsenceIsFinal` needs no such assumption. The epoch is one value
per start: the code hashes a random boot number and a recovery counter.

### TimeComposite and TrustedTime

A query is a request to the TIME service, its answer, the mapping, the gate and
the recording of the last known good time, with time passing and other queries
between any two of them; certificate injection and KL1 imports call the composite beside
the monitor. An answer's *kind* names the first check it fails. Durations count from `BOOTTIME`; the last
instant `MaxTime` stands for every later one. In `TrustedTime` the loop's thread
and a thread in `get` run their queries under the monitor's mutex; `refresh_now`
is the callback of the TIME service. `publishIfChangedLocked` counts events and
calls the subscribers that are left.

### CertificateStore and CertificateCell

The file system is modelled by what it promises: `live` is what a process sees,
`low` what a power loss is certain to leave, `high` what it may leave; `ptr` and
`ptrs` say the same of CURRENT. A directory fsync makes `low` equal to `live`. Each
file is written as temporary file, fsync, rename, and is therefore whole or
absent. `generations/` itself is never fsynced by the code; the model takes the fsync of
a new directory to keep its entry there too, as common journaling file systems do
and POSIX does not promise. A commit is a sequence of actions (`commit`, `writeFileAtomic` three
times, `syncGeneration`, `switchCurrent`, `settle`, `removeOrphan`, `cleaned`) and
a crash, a power loss or a media fault may come between any two of them;
`removeOrphan` removes one file at a time, manifest first, as the code does.
`openAndRecover` and `walkBack` are recovery. The version is chosen by the caller,
`SecService::publishDeviceCertChain`, as current plus one.

`CertificateCell` is the abstract specification: the version served, the newest
commit that succeeded, the newest version CURRENT was switched to (`offered`), and
the commits damage may have cost: none without damage, one after one damaged file,
and nothing is promised after a second one, because the store keeps two
generations. `ImplementsCell` is the refinement, with `Served` the version of the
generation in memory while the store is open. It says that a refused commit changes
nothing that is served while the process lives, and that a restart serves nothing
older than the last successful commit and nothing that was never switched to. It
does not say that a refused commit stays without effect, because that is not so:
when the fsync after the rename of CURRENT fails, the commit is refused and a
restart serves it. The repository says the opposite, which is the run
`certstore_refused` (and `hidden` in `DeviceIdentity`).

### SeedKey and SecIpc

Both operations of `SeedKey` run under `seed_mutex_` and are one step each; time
is the steady clock. `SecIpc` runs them from connection threads. A client sends a
request over a connection; the transport may fail at any moment, and then the
client sends once more (`call`) or gives up (`callOnce`) while the thread that
has read the first copy goes on. `refuse_*` are the early returns of each group
of handlers, `answer_*` the statuses the rest of each may end with; what the
handlers do beyond security access and INITIALIZE is left to the other modules.
INITIALIZE may fail, before or after it has replaced the key engine. `owned` and `wired` are the incarnation of the components
that `SecService` holds and of those the dispatcher's pointers name. The
framework (`tbox::fw::ipc`) is external and modelled from its use.

### DeviceIdentity

Each connection thread goes through an operation in the steps at which another
thread or a crash may come between: reading the provisioning state, generating
and storing the key in two writes, building the CSR, validating, committing the
chain, rotating the credential, saving the state. A write may fail. The chain
changes in one step here, on the strength of `ImplementsCell`, and a failed commit
may leave a chain that a restart comes up with (`hidden`). The store always opens
here: `RecoveryFailsOnlyOnDamage` shows that `openAndRecover` fails after a media
fault only, and the service then runs without a chain. A chain is its serial number
and the key it certifies; `Foreign` certifies another device's key.

Loading materials ends in one of the verdicts of `validateAndStoreMaterials`
(`verdicts`): NOT_READY while root, chain or key are missing; READY only if the chain
is for the device key; and *refused* (ERROR or EXPIRED in the code) at any load, for
client usage, dates, CA or path may refuse a chain that injection accepted, which
checks no signature. The choice is made anew at every load because it depends on
the wall clock. A rotation raises the version whatever the verdict. `ref` follows
any of the references that were handed out.

## 3. Runs

| Run | Checks | Instance |
|---|---|---|
| `keyprov` | `ActivePairAtomic`, `MarkerVerifies`, `ActiveNeverFailed`, `StagingHasOpenOwner`, `NoTraceWithoutJournal`, `RepliesStable`, `ReplyInv`, `KeysOnlyAdvance`, `BootConverges` | 2 purposes, 2 request ids, 3 operations, all write outcomes, fairness of the service's own steps |
| `certstore` | `CommitSurvivesPowerLoss`, `NoErrorWithoutDamage`, `StoreInv`, `ImplementsCell` | 3 directories, 3 versions, one failing fsync or two damaged files, power losses, crashes |
| `time_rollback` | `NoRollbackAfterReturn`, `CompositeInv` | 2 threads, platform time off by up to two units, tolerance 1 |
| `time_monitor` | `LeaseWithinValidity`, `CacheIsPublished`, `MonitorInv`, `LossIsPublished` | loop and one caller, TIME good, unsynchronised, unreachable or gone |
| `kl1_admission` | `AbsenceIsFinal`, `AdmittedWithinLease`, `OneOperationPerRequest`, `AdmissionInv` | 1 request id, 2 digests, 3 starts, 2 distinct requests delivered any number of times, uncertainties 0, 1 and one that is refused |
| `seed_key` | `WrongKeysBounded`, `OneJudgementPerSeed`, `SeedInv` | 5 levels, 7 seeds, 5 units of time |
| `ipc` | `NoFalseRefusal`, `NoUseAfterRelease`, `IpcInv`, `CallsReturn`, `ShutdownCompletes` | 2 clients, one of them with two connections |
| `identity` | `KeyPairIntact`, `ChainCertifiesKey`, `InstalledMeansCommitted`, `ServedChainIsCurrent`, `OldReferencesExpire`, `IdentityInv`, `StoredKeyStays`, `CommittedChainIsJudged` | 2 threads, 2 keys, 2 chains, 2 starts, one failing write |

`...Inv` are the inductive invariants of section 4; each has the type invariant of
its module as its first conjunct. `ipc`, `identity` and
`kl1_admission` take two and a half to three and a half minutes on two cores,
`keyprov` a minute and a half, the others less.
In `TypeOK` of `TrustedTime`, `DeviceIdentity`, `Kl1Admission` and `SecIpc` a few
conjuncts say more than types: who holds a lock, what is gone after a crash.

Runs that are expected to find a violation, each for a statement of the
repository that the code does not keep:

| Run | Statement | What happens |
|---|---|---|
| `keyprov_false_commit` | COMMITTED: atomically activated (`include/tbox/sec/business_key.h:47`) | request A ends OUTCOME_UNKNOWN after a failed write; B is given the same generation and commits; reconciling A finds its generation ACTIVE and reports COMMITTED |
| `certstore_refused` | a commit that fails leaves the old generation in force (`include/certificate_store.h:61`, `src/certificate_store.cpp:391`, `src/sec_service.cpp:1078`) | CURRENT is renamed, the fsync of its directory fails, `commit` reports a failure; CURRENT names the refused generation and a restart serves it |
| `time_events` | changes of the trusted time are pushed to subscribers (`src/sec_application.cpp:268`) | the handle that `subscribe` returns is dropped, which cancels the subscription (`include/trusted_time.h:271`) |
| `ipc_initialize` | INITIALIZE is read-only (`src/sec_retry_policy.cpp:32`) | it creates the TLS provider and the business key service anew; the dispatcher goes on using the old ones |

**Bounds.** The business-key instances have no numeric bound: a generation is at
most the number of request ids, and everything else is finite. Two purposes are
what the code provisions. Two request ids give retry, conflict (two operations on
one id), supersession and a batch that is newer in one purpose only. Crashes and
failing writes are unbounded. In the certificate store `MaxVersion`, `FsyncFaults`
and `Damage` bound commits and faults; three versions are the least with which
clean-up deletes a committed generation, and three directories suffice, because a
removed name becomes free again. `GidSymmetry` and `ThreadSymmetry` are sound:
both are only compared. In the time models every duration is one or two units
below `MaxTime`, so that each can run out before, at and after another;
`SeqMod` wraps event numbers, of which only neighbours are compared. In
`kl1_admission` three starts give a request of an earlier epoch and one whose entry
was lost with the process before, two distinct messages a repetition or a
conflict, and the leases end before the clock does; request ids interact only
through staged keys and the commit marker, which make admission stricter, so one
is enough. `seed_key` has room for two lockouts in a row.
In `ipc` two incarnations and one seed are enough for a call to be judged twice;
its clock stands still, since expiry only turns an answer into a refusal that
`SeedKey` already covers. In `identity` two keys and chains give replacement, two
starts a reference from before a restart, two versions a rotation and references
on both sides of it. Beyond `MaxVersion`, `MaxSerial` and `MaxBoots` the corresponding
operations stop, which is why deadlock is not checked there; in the other models
without a deadlock check the clock stops at its bound or the process has ended.

**Fairness.** Nothing is assumed of clients, crashes or of writes succeeding.
`BusinessKeyProvisioning`: weak fairness of the steps the service takes by itself
inside a call, which is straight-line code under its own mutex. `TrustedTime`: the
loop and the threads in a query keep running, time passes; a query has a timeout.
`SecIpc`: connection threads run, a call without a reply ends by
`receive_timeout_ms`, `cleanup` proceeds. `DeviceIdentity`: threads run, the
supervisor restarts the daemon, and the TLS client asks again whenever a
connection is free (strong, since threads may be busy in between): the credential
is only reloaded when somebody asks for it.

**Not claimed.** `RepliesStable` and `ReplyInv` claim nothing once a commit was
ambiguous (`blurred`: an answer FAILED, a file that says committed): the code cannot
tell. `OneOperationPerRequest` allows a second operation in a later process when
every journal write of the first one was lost: nothing on disk tells of it then. The limits of the certificate store's
promise were found by its proof. With two failing fsyncs and a restart between
them, `openAndRecover` acts on the CURRENT it sees without syncing it, and clean-up
removes a generation that CURRENT may still name after a power loss: at most one
fsync fails (`FsyncFaults`), and media faults and failing fsyncs are not combined.
Nor is a media fault followed by a power loss: files that clean-up removed may
come back in part, and recovery may then skip a generation (`powerLoss` requires
`damage = 0`). With four directories and two damaged files the walk back may also
skip a generation, which no instance with three showed; hence the cell promises
nothing after the second damaged file. A store whose fallback was used may end in ERROR at the second restart,
since `openAndRecover` does not rewrite CURRENT: `ImplementsCell` bounds what is
served, not that the store opens. `AbsenceIsFinal` takes the answer NOT_FOUND to
count only once its `queried_at_ms` has passed the lease by the rollback tolerance.
`CommittedChainIsJudged` does not say that the verdict is READY: the code commits
chains that its own TLS provider refuses (`src/sec_service.cpp:1088`). Nothing is
claimed of the provisioning state moving back from CERT_INSTALLED when `get_csr`
rebuilds the CSR, nor of `import_ready` being out of date.

## 4. Proofs

Each theorem is proved for every value of the constants that satisfies the
`ASSUME`s of its module: any number of requests, threads, clients, directories,
keys and starts, any durations and tolerances, and crashes wherever they fall. TLC
evaluates the same `ASSUME`s on the instances of section 3.

Every proof has one shape. An invariant is strengthened to an inductive one, one
lemma per action shows that the step keeps it, and the properties are read off it
or off a step taken from it. Why each needs its strengthening:

### Business keys (`BusinessKeyStoreProofs`, `BusinessKeyProvisioningProofs`)

| Theorem | Establishes |
|---|---|
| `InvariantHolds`, `TypeCorrect` | `IndInv`, `TypeOK` |
| `DualPurposeAtomicity` | `ActivePairAtomic` |
| `MarkerAlwaysVerifies` | `MarkerVerifies` |
| `ActiveIsNeverFailed` | `ActiveNeverFailed` |
| `StagingIsOwned` | `StagingHasOpenOwner` |
| `NotFoundIsSound` | `NoTraceWithoutJournal` |
| `KeysNeverRegress` | `KeysOnlyAdvance` |
| `ReplyInvHolds`, `RepliesAreStable` | `ReplyInv`, `RepliesStable` |

All assume `~LookupMayFail`: with a failing lookup the legacy import starts a
second operation, which overwrites the entry of the first. The last row speaks of
the time before an ambiguous commit (`blurred`).

Dual-purpose atomicity after `commitBatch` needs that both slots were staged by
the same operation in the same generation (`StagedInv`, `StagingOwnedIn`); that
staging is not left over from another operation needs that staged slots have an
open owner, one generation ahead of ACTIVE (`StagingOwnedIn`, `PipelineInv`); that a
rollback is never refused for its own staging needs the same. That no ACTIVE
request is marked FAILED needs that recovery's test on generations recognises it
(`ActiveJournaledIn`, `MarkedIn`). All of it must hold of the snapshot on disk too,
because a crash replaces memory by it, although failed writes let the two drift
apart: `SoundSnapshot` is therefore stated once and required of both, and
`MemDiskInv` and `TraceInv` say how far apart they can be (disk knows no entry that
memory does not; entries of committed generations are on disk; slots on disk are
those in memory or newer). `BusinessKeyStoreProofs` proves that the functions on
snapshots preserve `SoundSnapshot`.

`RepliesStable` speaks of phases, and the phase on disk may lag behind the answer:
the write of FAILED may have failed. What does not lag behind is the *verdict*
recovery would reach (`CommittedIn`): memory and disk agree on it between any two
writes (`VerdictInv`), and it is what was told (`ToldInv`). The only step that could
change the verdict of another request is the commit, since an undecided request of
the same generation then looks committed, which is the violation of
`keyprov_false_commit`; `QuietInv` says that nobody has an answer for such a request.

### Certificate store (`CertificateStoreProofs`)

| Theorem | Establishes |
|---|---|
| `StoreInvHolds`, `StoreTypeCorrect` | `StoreInv`, `TypeOK` |
| `CommitsSurvivePowerLoss` | `CommitSurvivesPowerLoss` |
| `RecoveryFailsOnlyOnDamage` | `NoErrorWithoutDamage` |
| `StoreImplementsCell` | `ImplementsCell`: initial states map to `CellInit`, every step to a step of the cell or to none |

Any number of directories, versions and damaged files; at most one failing fsync.
That a commit survives a power loss needs, besides that what CURRENT may name is
whole (`WholeInv`), that nothing names the directory being written before
`switchCurrent` (`CommitInv`: no pointer and no predecessor refers to it) and that
clean-up spares what memory and CURRENT need (`CleanInv`). After a lost fsync CURRENT
may be one generation back; without one the predecessor is whole too, which is
what a damaged file falls back on. `SpareInv` carries the refinement past the
damage: recovery will find the `Anchor`, at most one commit older, or nothing
(`Dead`). `ServeInv` is then the lower bound in the guard of the cell's `open`, and
`OfferInv` the upper one: everything recovery may come upon was CURRENT once.

### Trusted time (`TrustedTimeProofs`)

| Theorem | Establishes |
|---|---|
| `CompositeInvHolds`, `CompositeTypeCorrect` | `CompositeInv`, `CompositeTypeOK` |
| `AcceptedTimeIsMonotonic` | `NoRollbackAfterReturn`, any number of threads |
| `MonitorInvHolds`, `MonitorTypeCorrect` | `MonitorInv`, `TypeOK` of the monitor |
| `LeasesEndInTime` | `LeaseWithinValidity` |
| `CacheIsAlwaysPublished` | `CacheIsPublished` |
| `MonitorTimeIsMonotonic` | `NoRollbackAfterReturn` in the monitor's specification |

Gate and record are two critical sections, so between them another query may move
the last known good time; `FloorInv` ties it to the largest time returned and every
query to a floor it cannot pass. `AnswerInv` follows the validity TIME promised from
the answer through mapping and gate, `LeaseInv` through the cache, where each stage
counts from an earlier instant than the last. `PublishedInv` holds inside the
mutex as well, which the property does not say. The monitor's theorems are for its
two threads (`MonitorConstants`).

### KL1 admission (`Kl1AdmissionProofs`)

| Theorem | Establishes |
|---|---|
| `AdmissionInvHolds`, `AdmissionTypeCorrect` | `AdmissionInv`, `TypeOK` |
| `AbsenceStaysFinal` | `AbsenceIsFinal` |
| `AdmissionsAreWithinLease` | `AdmittedWithinLease` |
| `RequestsStartOnce` | `OneOperationPerRequest` |

Whichever journal writes fail, an entry never leaves the Store again, nor memory
while the process lives, and a running process knows every entry in the Store; a
start that left no entry was one of an earlier process (`EntryInv`). So a second
start finds the entry of the first (`OpInv`). `AbsenceIsFinal` rests on time and epoch:
a NOT_FOUND of the present epoch is no later than the last known good time of the
process that gave it, and later epochs have given none (`EpochInv`); the sample of a
later admission is at most the tolerance below that, and its upper bound, whatever
its uncertainty, no smaller than the sample.

### Security access and IPC (`SeedKeyProofs`, `SecIpcProofs`)

| Theorem | Establishes |
|---|---|
| `SeedInvHolds` | `SeedInv` |
| `WrongKeysAreBounded` | `WrongKeysBounded`, any number of attempts and lockout period |
| `SeedIsJudgedOnce` | `OneJudgementPerSeed` |
| `IpcInvHolds`, `IpcTypeCorrect` | `IpcInv`, `TypeOK` |
| `HandlersRunOnLiveObjects` | `NoUseAfterRelease`, any number of clients and connections |
| `RefusalsAreTrue` | `NoFalseRefusal` |

The bound on wrong keys is a division; `LockoutInv` replaces it by a number of full
rounds, each ended by a lockout that begins no earlier than the one before it
ended. `NoUseAfterRelease` needs the whole order of start and clean-up (`LifeInv`).
`NoFalseRefusal` needs that a VERIFY_KEY under way has one copy and that its key is
not accepted before that copy is answered (`CopyInv`): abandoned copies of earlier
calls may still be inside a handler.

### Device identity (`DeviceIdentityProofs`)

| Theorem | Establishes |
|---|---|
| `IdentityInvHolds`, `TypeCorrect` | `IdentityInv`, `TypeOK` |
| `KeyPairStaysIntact` | `KeyPairIntact` |
| `StoredKeyIsNeverReplaced` | `StoredKeyStays` (action property) |
| `CommittedChainCertifiesKey` | `ChainCertifiesKey` |
| `InstalledIsCommitted` | `InstalledMeansCommitted` |
| `ServesCommittedChain` | `ServedChainIsCurrent` |
| `ReferencesExpire` | `OldReferencesExpire` |

Any number of threads, keys, chains and starts. Two threads may both decide to
generate the key; `KeyInv` says that the second finds the first one's in memory and
that a thread inside the HSM's lock is alone and writes where no key is stored. A
chain validated before another thread's step is still good when it is committed
only because the stored key never changes (`CertInv` with `StoredKeyStays`'s
argument). References expire because the version only grows while the process
lives, every commit is followed by a new one whatever the rotation finds, and a
restart changes the boot number (`RefInv`).

### Only model-checked

* Liveness (`BootConverges`, `LossIsPublished`, `CallsReturn`, `ShutdownCompletes`,
  `CommittedChainIsJudged`): fairness and `ENABLED` are outside the prover's reach.
* The four statements of section 3 that the code does not keep.

## 5. Not modelled

* Cryptographic primitives, ASN.1, JSON, log output; the command line tool, the
  configuration report and error names, which have no state of their own.
* `HsmBusinessKeyProvider` and the null providers, which refuse everything;
  envelope validation, which can only refuse; the canonical encoding and its hash,
  of which only the digest is seen (`Kl1Admission`); the fake time source, the
  diagnostic adapter and the in-process service dispatcher, which only tests
  construct. Without a diagnostic service CSR_SUBMITTED is never reached, and
  `submit_csr` changes at most the vehicle information.
* `TlsCredentialProvider::revokeCredential`, which nothing calls. The checks of a
  chain are a free choice of verdict at every load; the code makes them when
  material is loaded and not again when a credential is handed out.
* Failing reads of the framework store in `DeviceIdentity`: `key_exists` then
  answers no, and a certified key may be overwritten (`src/soft_file_hsm.cpp:631`).
* The encryption of stored keys: the key encryption key is written in place
  without fsync (`src/soft_file_hsm.cpp:862`).
* Data races proper: `csr_der_` and the vehicle information are shared without a
  lock; the model takes each access to be one step.
* A second `initialize` inside `DeviceIdentity` (it is in `SecIpc`), requests that
  do not parse (a status and no effect), replies that do not parse (the client
  takes them for SUCCESS, `src/sec_client.cpp:74`), and event connections.
* Further places where documentation and code differ, found while modelling and
  without effect on a property: `storageReplaced()` is never overridden, so
  governance is never entered (`include/business_key_provider.h:237`); any commit
  marker counts as residue for every request id
  (`src/soft_file_business_key_provider.cpp:867`); subscribers are called under the
  monitor's mutex (`src/trusted_time.cpp:784`); GET_TRUSTED_TIME is never sent again
  although `include/tbox/sec/client.h` calls it retryable; RESET_STATUS counts as
  read-only; the quiesce step does not refuse `signTls`
  (`src/sec_application.cpp:383`); all connections share one seed
  (`src/sec_service.cpp:561`); a seed of level 255 can never be answered
  (`src/sec_service.cpp:609`); two concurrent injections may commit the same version
  (`src/sec_service.cpp:1061`).

## 6. Plan

Every safety invariant and action property of the passing runs is proved. Left:

1. that the composite's last known good time only grows and that `Kl1Admission`'s
   sample is what `TimeComposite` promises, as a theorem between the two modules
   instead of a sentence;
2. that a step of `DeviceIdentity`'s chain is a step of `CertificateCell`;
3. action properties worth having beside the invariants: a finished journal entry
   never becomes open again, an epoch never comes back, the attempt counter is
   reset by a right key or a lockout only.
