------------------------- MODULE BusinessKeyProvisioning -------------------------
(***************************************************************************)
(* BusinessKeyProvisioningService over SoftFileBusinessKeyProvider and     *)
(* SecureMetadataLedger: import of a batch of wrapped keys (legacy import  *)
(* and lease-admitted importKl1), the journal, startup recovery, result    *)
(* and status queries.                                                     *)
(*                                                                         *)
(* Every entry point holds the service mutex to its end, so two requests   *)
(* never interleave; what can fall between two steps of one request is a   *)
(* crash, and what can happen at a step is a failing write.  One action is *)
(* therefore one call that writes (or the decision it follows from), and   *)
(* Crash is enabled between any two of them.  A refused request changes    *)
(* nothing and is no action; trusted time, the lease and the capability    *)
(* epoch of KL1 can only refuse, so here they are part of the choice of    *)
(* whether a request is made at all.                                       *)
(***************************************************************************)
EXTENDS BusinessKeyStore

CONSTANTS
  Apis,          \* which import interfaces the client uses: "legacy", "kl1"
  SaveOutcomes,  \* what a write to the external Store may do, see Outcome
  SealMayFail,   \* whether sealing a slot key may fail (INTERNAL_ERROR)
  LookupMayFail  \* whether a journal lookup may find the Store unreadable

\* ok: written.  not_ready: refused before writing (BUSINESS_KEY_NOT_READY).
\* write_failed: an exception, nothing written (STORAGE_WRITE_FAILED).
\* write_ambiguous: an exception, yet the new content is what a later load
\* reads; the code calls this class of errors "outcome unknown".
Outcome == {"ok", "not_ready", "write_failed", "write_ambiguous"}

ASSUME FaultAssumption ==
  /\ Apis \subseteq {"legacy", "kl1"}
  /\ SaveOutcomes \subseteq Outcome
  /\ "ok" \in SaveOutcomes
  /\ SealMayFail \in BOOLEAN
  /\ LookupMayFail \in BOOLEAN

VARIABLES
  mem,         \* the provider's state in memory
  disk,        \* the provider's state as the Store holds it
  ledger,      \* SecureMetadataLedger in memory: operation recorded per purpose
  ledgerDisk,  \* the ledger as the Store holds it
  pc,          \* where the service is in the call it executes
  home,        \* where it returns: "boot" (startup recovery) or "idle" (a client call)
  cur,         \* the operation being processed
  todo,        \* purposes the current loop has still to handle
  queue,       \* request ids startup recovery has still to handle
  ready,       \* import_ready: fixed when initialize() ends
  shutting,    \* shutting_down_
  told,        \* history: final results reported for the latest attempt of a request id
  activated,   \* history: operations whose commit reached the Store
  blurred      \* history: did a commit reach the Store and report a failure?

store == <<mem, disk>>
ledgers == <<ledger, ledgerDisk>>
control == <<pc, home, cur, todo, queue, ready>>
vars == <<mem, disk, ledger, ledgerDisk, pc, home, cur, todo, queue, ready,
          shutting, told, activated, blurred>>

Location == {"down", "boot", "idle", "unwrap", "note", "both", "verify",
             "commit", "attest", "ledger", "rollback", "fail", "unknown"}

NoLedger == [p \in Purposes |-> None]

TypeOK ==
  /\ mem \in Snapshot
  /\ disk \in Snapshot
  /\ ledger \in [Purposes -> Ops \cup {None}]
  /\ ledgerDisk \in [Purposes -> Ops \cup {None}]
  /\ pc \in Location
  /\ home \in {"boot", "idle"}
  /\ cur \in Ops \cup {None}
  /\ todo \in SUBSET Purposes
  /\ queue \in SUBSET Rids
  /\ ready \in BOOLEAN
  /\ shutting \in BOOLEAN
  /\ told \in [Rids -> SUBSET {"COMMITTED", "FAILED"}]
  /\ activated \in SUBSET Ops
  /\ blurred \in BOOLEAN

Init ==
  /\ mem = EmptySnapshot
  /\ disk = EmptySnapshot
  /\ ledger = NoLedger
  /\ ledgerDisk = NoLedger
  /\ pc = "down"
  /\ home = "idle"
  /\ cur = None
  /\ todo = {}
  /\ queue = {}
  /\ ready = FALSE
  /\ shutting = FALSE
  /\ told = [r \in Rids |-> {}]
  /\ activated = {}
  /\ blurred = FALSE

-----------------------------------------------------------------------------
(***************************************************************************)
(* Writing                                                                 *)
(***************************************************************************)

Written(out) == out \in {"ok", "write_ambiguous"}

\* is_outcome_unknown: the error classes that leave the outcome open.
is_outcome_unknown(out) == out \in {"write_failed", "write_ambiguous"}

\* save_state: memory has changed to s; the Store may or may not hold it.
save_state(s, out) ==
  /\ mem' = s
  /\ disk' = IF Written(out) THEN s ELSE disk

rid == RidOf[cur]
entry == mem.journal[rid]

\* saveJournal of the current entry in a new phase; its result is ignored.
saveJournal(phase) == \E out \in SaveOutcomes : save_state(setPhase(mem, rid, phase), out)

\* rollbackStaging; on CONFLICT nothing is written, otherwise its result is ignored.
rollbackStaging(gen) ==
  \/ /\ rollbackConflict(mem, gen)
     /\ UNCHANGED store
  \/ /\ ~rollbackConflict(mem, gen)
     /\ \E out \in SaveOutcomes : save_state(clearStaging(mem), out)

Goto(where) == pc' = where /\ UNCHANGED <<home, cur, todo, queue, ready>>

\* The call ends: startup recovery goes on, a client call returns.
Return ==
  /\ pc' = home
  /\ home' = "idle"
  /\ cur' = None
  /\ todo' = {}
  /\ UNCHANGED <<queue, ready>>

\* The result a client is given for request id r; recovery tells nobody.
Tell(r, result) ==
  told' = IF home = "idle" THEN [told EXCEPT ![r] = @ \cup {result}] ELSE told

-----------------------------------------------------------------------------
(***************************************************************************)
(* Admission                                                               *)
(***************************************************************************)

Serving == pc = "idle" /\ ~shutting

\* Mutant: an item of the same version is admitted.
validate_version_not_older(o) ==
  \A p \in Purposes : mem.active[p].op # None => Ver[o][p] >= Ver[mem.active[p].op][p]

\* validate_version_and_time: every item must be newer than its ACTIVE slot.
validate_version(o) ==
  \A p \in Purposes : mem.active[p].op # None => Ver[o][p] > Ver[mem.active[p].op][p]

has_transaction_residue(r) ==
  \/ providerResidue(mem)
  \/ \E p \in Purposes : ledger[p] # None /\ RidOf[ledger[p]] = r

\* run_pipeline up to the first journal write.
startPipeline(o) ==
  /\ \E out \in SaveOutcomes :
       save_state(putJournal(mem, RidOf[o],
                    [op |-> o, phase |-> "PROCESSING",
                     gen |-> next_generation(mem), proof |-> FALSE]), out)
  /\ pc' = "unwrap"
  /\ home' = "idle"
  /\ cur' = o
  /\ todo' = Purposes
  /\ told' = [told EXCEPT ![RidOf[o]] = {}]
  /\ UNCHANGED <<queue, ready, ledgers, shutting, activated, blurred>>

\* loadJournal, which only legacy import uses, answers "no entry" when the
\* Store cannot be read (IO_ERROR).
import(o) ==
  /\ "legacy" \in Apis
  /\ Serving /\ ready
  /\ mem.journal[RidOf[o]].op = None \/ LookupMayFail
  /\ validate_version(o)
  /\ startPipeline(o)

\* loadJournalEx tells an unreadable Store from a missing entry and refuses.
importKl1(o) ==
  /\ "kl1" \in Apis
  /\ Serving /\ ready
  /\ mem.journal[RidOf[o]].op = None
  /\ ~has_transaction_residue(RidOf[o])
  /\ validate_version(o)
  /\ startPipeline(o)

-----------------------------------------------------------------------------
(***************************************************************************)
(* The import pipeline                                                     *)
(***************************************************************************)

unwrapToStaging(p) ==
  /\ pc = "unwrap" /\ p \in todo
  /\ \/ /\ UNCHANGED <<store, todo>>        \* unwrapping, length or KCV check fails
        /\ pc' = "rollback"
     \/ /\ SealMayFail                     \* encrypt_slot_key fails
        /\ UNCHANGED <<store, todo>>
        /\ pc' = "unknown"
     \/ \E out \in SaveOutcomes :
          /\ save_state(stageSlot(mem, p, cur, entry.gen), out)
          /\ todo' = todo \ {p}
          /\ pc' = IF out = "ok" THEN "note"
                   ELSE IF is_outcome_unknown(out) THEN "unknown" ELSE "rollback"
  /\ UNCHANGED <<home, cur, queue, ready, ledgers, shutting, told, activated, blurred>>

noteStaged ==
  /\ pc = "note"
  /\ saveJournal(IF Uplink \in todo THEN "PROCESSING" ELSE "UPLINK_STAGED")
  /\ Goto(IF todo = {} THEN "both" ELSE "unwrap")
  /\ UNCHANGED <<ledgers, shutting, told, activated, blurred>>

noteBothStaged ==
  /\ pc = "both"
  /\ saveJournal("BOTH_STAGED")
  /\ Goto("verify")
  /\ UNCHANGED <<ledgers, shutting, told, activated, blurred>>

\* verifyStaging of every item, then the COMMITTING entry.
verifyStaging ==
  /\ pc = "verify"
  /\ \/ /\ \A p \in Purposes : mem.staging[p].op # None
        /\ saveJournal("COMMITTING")
        /\ Goto("commit")
     \/ UNCHANGED store /\ Goto("rollback")
  /\ UNCHANGED <<ledgers, shutting, told, activated, blurred>>

commitBatch ==
  /\ pc = "commit"
  /\ \/ /\ ~commitReady(mem, entry.gen)
        /\ UNCHANGED <<store, activated, blurred>>
        /\ Goto("rollback")
     \/ /\ commitReady(mem, entry.gen)
        /\ \E out \in SaveOutcomes :
             /\ mem' = IF out = "ok" THEN committed(mem, entry.gen) ELSE commitUndone(mem)
             /\ disk' = IF Written(out) THEN committed(mem, entry.gen) ELSE disk
             /\ activated' = IF Written(out) THEN activated \cup {cur} ELSE activated
             /\ blurred' = (blurred \/ out = "write_ambiguous")
             /\ Goto(IF out = "ok" THEN "attest"
                     ELSE IF is_outcome_unknown(out) THEN "unknown" ELSE "rollback")
  /\ UNCHANGED <<ledgers, shutting, told>>

\* generateProof of every item, then the SUCCEEDED or OUTCOME_UNKNOWN entry.
attest ==
  /\ pc = "attest"
  /\ \/ /\ \E out \in SaveOutcomes :
             save_state(putJournal(mem, rid,
                          [entry EXCEPT !.phase = "SUCCEEDED", !.proof = TRUE]), out)
        /\ pc' = "ledger"
        /\ todo' = Purposes
        /\ UNCHANGED <<home, cur, queue, ready>>
     \/ /\ saveJournal("OUTCOME_UNKNOWN")
        /\ Return
  /\ UNCHANGED <<ledgers, shutting, told, activated, blurred>>

\* update_ledger: one put per item; a Store that is not ready refuses before
\* the entry changes, other failures are ignored.
putLedger(p) ==
  /\ pc = "ledger" /\ p \in todo
  /\ \E out \in SaveOutcomes :
       /\ ledger' = IF out = "not_ready" THEN ledger ELSE [ledger EXCEPT ![p] = cur]
       /\ ledgerDisk' = IF Written(out) THEN [ledger EXCEPT ![p] = cur] ELSE ledgerDisk
  /\ IF todo = {p}
       THEN Return /\ Tell(rid, "COMMITTED")
       ELSE /\ todo' = todo \ {p}
            /\ UNCHANGED <<pc, home, cur, queue, ready, told>>
  /\ UNCHANGED <<store, shutting, activated, blurred>>

\* The outcome is left open: nothing is rolled back.
noteUnknown ==
  /\ pc = "unknown"
  /\ saveJournal("OUTCOME_UNKNOWN")
  /\ Return
  /\ UNCHANGED <<ledgers, shutting, told, activated, blurred>>

rollback ==
  /\ pc = "rollback"
  /\ rollbackStaging(entry.gen)
  /\ Goto("fail")
  /\ UNCHANGED <<ledgers, shutting, told, activated, blurred>>

noteFailed ==
  /\ pc = "fail"
  /\ saveJournal("FAILED")
  /\ Return
  /\ Tell(rid, "FAILED")
  /\ UNCHANGED <<ledgers, shutting, activated, blurred>>

-----------------------------------------------------------------------------
(***************************************************************************)
(* Recovery, startup, crash                                                *)
(***************************************************************************)

\* recover_entry for request id r, up to its first write: if both purposes are
\* ACTIVE in the entry's generation the import is taken to have committed.
recover_entry(r) ==
  LET e == mem.journal[r]
  IN  /\ cur' = e.op
      /\ \/ /\ bothActive(mem, e.gen)
            /\ \E out \in SaveOutcomes : save_state(setPhase(mem, r, "SUCCEEDED"), out)
            /\ pc' = "ledger"
            /\ todo' = Purposes
         \/ /\ ~bothActive(mem, e.gen)
            /\ rollbackStaging(e.gen)
            /\ pc' = "fail"
            /\ todo' = {}
      /\ UNCHANGED <<ready, ledgers, shutting, told, activated, blurred>>

\* A request id that is journaled and not finished: either import interface
\* reconciles it instead of starting a second operation.
resume(o) ==
  /\ Serving /\ ready
  /\ mem.journal[RidOf[o]].op = o
  /\ mem.journal[RidOf[o]].phase \notin TerminalPhase
  /\ home' = "idle"
  /\ UNCHANGED queue
  /\ recover_entry(RidOf[o])

\* A finished request id: import, importKl1 and getImportResult all report it.
report(r) ==
  /\ Serving
  /\ mem.journal[r].phase \in {"SUCCEEDED", "FAILED"}
  /\ Tell(r, IF mem.journal[r].phase = "SUCCEEDED" THEN "COMMITTED" ELSE "FAILED")
  /\ UNCHANGED <<store, ledgers, control, shutting, activated, blurred>>

\* initialize(): load both stores, then recover_on_startup.
initialize ==
  /\ pc = "down"
  /\ mem' = loadState(disk)
  /\ ledger' = ledgerDisk
  /\ queue' = openEntries(disk)
  /\ pc' = "boot"
  /\ UNCHANGED <<disk, ledgerDisk, home, cur, todo, ready, shutting, told, activated, blurred>>

recover_on_startup(r) ==
  /\ pc = "boot" /\ r \in queue
  /\ queue' = queue \ {r}
  /\ home' = "boot"
  /\ recover_entry(r)

\* The end of initialize(): import_ready is the conjunction of capabilities
\* probed at this moment.
finishInitialize ==
  /\ pc = "boot" /\ queue = {}
  /\ pc' = "idle"
  /\ ready' \in BOOLEAN
  /\ UNCHANGED <<store, ledgers, home, cur, todo, queue, shutting, told, activated, blurred>>

beginShutdown ==
  /\ pc # "down" /\ ~shutting
  /\ shutting' = TRUE
  /\ UNCHANGED <<store, ledgers, control, told, activated, blurred>>

\* Power loss, kill, or the process exit that ends a shutdown.
crash ==
  /\ pc # "down"
  /\ mem' = EmptySnapshot
  /\ ledger' = NoLedger
  /\ pc' = "down"
  /\ home' = "idle"
  /\ cur' = None
  /\ todo' = {}
  /\ queue' = {}
  /\ ready' = FALSE
  /\ shutting' = FALSE
  /\ UNCHANGED <<disk, ledgerDisk, told, activated, blurred>>

-----------------------------------------------------------------------------
\* The steps the service thread takes by itself once a call is under way.
ServiceStep ==
  \/ \E p \in Purposes : unwrapToStaging(p) \/ putLedger(p)
  \/ noteStaged \/ noteBothStaged \/ verifyStaging \/ commitBatch \/ attest
  \/ noteUnknown \/ rollback \/ noteFailed
  \/ \E r \in Rids : recover_on_startup(r)
  \/ finishInitialize

Next ==
  \/ ServiceStep
  \/ \E o \in Ops : import(o) \/ importKl1(o) \/ resume(o)
  \/ \E r \in Rids : report(r)
  \/ initialize
  \/ beginShutdown
  \/ crash

Spec == Init /\ [][Next]_vars

\* The service thread does not stop in the middle of a call.
FairSpec == Spec /\ WF_vars(ServiceStep)

-----------------------------------------------------------------------------
(***************************************************************************)
(* Safety                                                                  *)
(***************************************************************************)

\* Dual-purpose atomicity: in memory and on disk, whatever crashes and failing
\* writes did before, all purposes hold the keys of one operation in one
\* generation, or none does (commitBatch, recover_entry: never a
\* single-purpose ACTIVE).
ActivePairAtomic == PairedIn(mem) /\ PairedIn(disk)

\* The commit marker stored beside the ACTIVE slots always verifies, so
\* initialize() never discards good keys because a failed commitBatch put
\* slots, generation and marker back inconsistently.
MarkerVerifies == MarkedIn(mem) /\ MarkedIn(disk)

\* A request whose keys are ACTIVE is journaled as committed or as undecided
\* by commit, in the ACTIVE generation: no interleaving of retries, rollbacks
\* and recovery marks it FAILED or forgets it.
ActiveNeverFailed == ActiveJournaledIn(mem) /\ ActiveJournaledIn(disk)

\* Staged keys always belong to a request that is still open and will be
\* rolled back by recover_entry in its own generation: the rollback that
\* follows is never refused as a CONFLICT for the owner, so no finished
\* request leaves staged keys behind.
StagingHasOpenOwner == StagingOwnedIn(mem) /\ StagingOwnedIn(disk)

Journaled(o) == mem.journal[RidOf[o]].op = o

\* What getImportResult's NOT_FOUND rests on: once the service is up, a request
\* id without a journal entry has left no trace, neither in memory nor on
\* disk, neither in a slot nor in staging nor in the ledger.
NoTraceWithoutJournal ==
  pc # "down" =>
    /\ \A o \in activated : Journaled(o)
    /\ \A p \in Purposes : \A s \in {mem, disk} :
         /\ s.active[p].op # None => Journaled(s.active[p].op)
         /\ s.staging[p].op # None => Journaled(s.staging[p].op)
    /\ \A p \in Purposes :
         /\ ledger[p] # None => Journaled(ledger[p])
         /\ ledgerDisk[p] # None => Journaled(ledgerDisk[p])

\* A final result given to a client is never contradicted, whatever crashes,
\* failing writes and recoveries follow, as long as no commitBatch reported a
\* failure although its content reached the Store: a COMMITTED request stays
\* SUCCEEDED; a FAILED one stays FAILED, or is not known at all when none of
\* its writes reached the Store.
RepliesStable ==
  pc = "idle" /\ ~blurred => \A r \in Rids :
    /\ "COMMITTED" \in told[r] => mem.journal[r].phase = "SUCCEEDED"
    /\ "FAILED" \in told[r] => mem.journal[r].phase \in {"FAILED", "ABSENT"}

\* COMMITTED means what BusinessKeyImportState says of it: the keys of this
\* very request were activated.
CommittedWasActivated ==
  \A r \in Rids : mem.journal[r].phase = "SUCCEEDED" => mem.journal[r].op \in activated

\* The keys in force, as the next reader would find them.
inForce == IF pc = "down" THEN disk.active ELSE mem.active

\* Keys in force are only ever replaced by newer ones, purpose by purpose, and
\* never lost: not by a failed commit, a rollback, a crash or a restart.
KeysOnlyAdvance ==
  [][\A p \in Purposes : inForce[p].op # None =>
       \/ inForce'[p] = inForce[p]
       \/ /\ inForce'[p].op # None
          /\ Ver[inForce'[p].op][p] > Ver[inForce[p].op][p]]_vars

-----------------------------------------------------------------------------
(***************************************************************************)
(* The inductive invariant behind the safety properties                    *)
(***************************************************************************)

Staging == {"unwrap", "note", "both", "verify", "commit"}

\* Between the first journal write and the commit (or the rollback that gives
\* it up) the entry stays open, one generation ahead of the ACTIVE slots, and
\* its keys are newer than those.
PipelineInv ==
  pc \in Staging \cup {"rollback"} =>
    /\ entry.gen = mem.gen + 1
    /\ validate_version(cur)

\* The purposes already handled are staged by this very operation.
StagedInv ==
  /\ pc \in Staging =>
       \A p \in Purposes \ todo : mem.staging[p] = [op |-> cur, gen |-> entry.gen]
  /\ pc \in {"both", "verify", "commit"} => todo = {}

\* Whatever is executed works on its own journal entry.
EntryInv ==
  /\ pc \notin {"down", "boot", "idle"} => cur \in Ops /\ entry.op = cur
  /\ pc \in Staging \cup {"rollback", "unknown"} => entry.phase \notin TerminalPhase
  /\ pc = "commit" => entry.phase = "COMMITTING"
  /\ pc = "attest" => entry.gen = mem.gen
  /\ pc = "fail" =>
       \A p \in Purposes : mem.active[p].op # cur /\ mem.staging[p].op # cur

\* Startup recovery has only open entries left, and not the one at hand.
QueueInv ==
  /\ \A r \in queue : mem.journal[r].phase \notin TerminalPhase
  /\ queue # {} =>
       pc = "boot" \/ (pc \in {"ledger", "fail"} /\ home = "boot" /\ rid \notin queue)

\* Memory and disk: disk never knows of an entry memory does not, every entry
\* of a committed generation is on disk, and the slots on disk are the slots in
\* memory or newer ones (after an ambiguous write).
MemDiskInv ==
  pc # "down" =>
    /\ \A r \in Rids : disk.journal[r].op # None => mem.journal[r].op = disk.journal[r].op
    /\ \A r \in Rids : mem.journal[r].op # None /\ mem.journal[r].gen <= mem.gen
                         => disk.journal[r].op = mem.journal[r].op
    /\ \A p \in Purposes : mem.active[p].op # None =>
         \/ disk.active[p] = mem.active[p]
         \/ /\ disk.active[p].op # None
            /\ Ver[disk.active[p].op][p] > Ver[mem.active[p].op][p]

OnDisk(o) == disk.journal[RidOf[o]].op = o

\* Everything that outlives a request is on disk in the journal.
TraceInv ==
  /\ \A o \in activated : OnDisk(o)
  /\ pc \in {"attest", "ledger"} => OnDisk(cur)
  /\ \A p \in Purposes : /\ ledger[p] # None => OnDisk(ledger[p])
                         /\ ledgerDisk[p] # None => OnDisk(ledgerDisk[p])

\* The inductive invariant: both snapshots are sound, and the call under way
\* stands in the relations above to them.
IndInv ==
  /\ TypeOK
  /\ SoundSnapshot(mem)
  /\ SoundSnapshot(disk)
  /\ PipelineInv
  /\ StagedInv
  /\ EntryInv
  /\ QueueInv
  /\ MemDiskInv
  /\ TraceInv

-----------------------------------------------------------------------------
(***************************************************************************)
(* The inductive invariant behind RepliesStable                            *)
(***************************************************************************)

\* The verdict recovery would reach on request id r from snapshot s.
CommittedIn(s, r) ==
  LET e == s.journal[r]
  IN  e.phase = "SUCCEEDED" \/ (e.phase \notin TerminalPhase /\ bothActive(s, e.gen))

\* A crash at this moment changes no verdict: where memory and disk differ,
\* recovery from either decides every request the same way.
VerdictInv == pc # "down" => \A r \in Rids : CommittedIn(mem, r) <=> CommittedIn(disk, r)

\* What a client was told is the verdict of what is stored.
ToldInv ==
  \A r \in Rids :
    /\ "COMMITTED" \in told[r] => CommittedIn(disk, r)
    /\ "FAILED" \in told[r] => ~CommittedIn(disk, r)

\* A request somebody got a final answer for is open again only while startup
\* recovery has it in hand: no commit of another request can fall in between.
QuietInv ==
  pc # "down" =>
    \A r \in Rids : told[r] # {} /\ mem.journal[r].phase \notin TerminalPhase =>
      r \in queue \/ (pc = "fail" /\ home = "boot" /\ r = rid)

\* Where a call reports its result, the verdict is already that result.
StageInv ==
  /\ pc = "ledger" => entry.phase = "SUCCEEDED"
  /\ pc = "attest" => entry.phase \notin TerminalPhase /\ CommittedIn(mem, rid)
  /\ pc = "fail" => entry.phase \notin TerminalPhase /\ ~CommittedIn(mem, rid)

\* Memory, disk and the answers given agree on the verdict of every request
\* between any two writes of an import, a rollback or a recovery, until a
\* commitBatch reports a failure although its content reached the Store.
ReplyInv == IndInv /\ (blurred \/ (VerdictInv /\ ToldInv /\ QuietInv /\ StageInv))

-----------------------------------------------------------------------------
(***************************************************************************)
(* Liveness                                                                *)
(***************************************************************************)

\* Startup reconciliation converges: every request found open when the daemon
\* starts is decided by the time it serves, unless the daemon crashes again.
BootConverges ==
  \A r \in Rids :
    (pc = "boot" /\ mem.journal[r].phase \notin TerminalPhase)
      ~> (pc = "down" \/ (pc = "idle" /\ mem.journal[r].phase \in TerminalPhase))

=============================================================================
