---------------------------- MODULE BusinessKeyStore ----------------------------
(***************************************************************************)
(* The persistent state of SoftFileBusinessKeyProvider and the state       *)
(* transformers its operations apply to it.  The provider keeps the whole  *)
(* state in memory and writes all of it, under one key, on every change    *)
(* (save_state), so a "snapshot" is one record: the copy in memory and the *)
(* copy on disk are two snapshots.                                         *)
(*                                                                         *)
(* An import request is an operation: a request id and one wrapped key per *)
(* purpose.  Two operations with the same request id are the same request  *)
(* sent with different content (their request digests differ).  Key        *)
(* material, key ids, algorithms and validity dates are abstracted to the  *)
(* operation that delivered them; the version of each item is kept,        *)
(* because admission compares it.                                          *)
(***************************************************************************)
EXTENDS Naturals, FiniteSetsExt

CONSTANTS
  Purposes,   \* the key purposes provisioned together (UPLINK_AEAD, DOWNLINK_AEAD)
  Uplink,     \* the purpose that moves the journal to UPLINK_STAGED
  Rids,       \* request ids
  Ops,        \* operations
  RidOf,      \* the request id of an operation
  Ver,        \* Ver[o][p]: business_key_version of operation o's item for p
  None        \* no operation

ASSUME StoreAssumption ==
  /\ Uplink \in Purposes
  /\ RidOf \in [Ops -> Rids]
  /\ Ver \in [Ops -> [Purposes -> Nat \ {0}]]
  /\ None \notin Ops

-----------------------------------------------------------------------------
\* A slot holds the keys one operation delivered, in one generation.
Slot == [op : Ops \cup {None}, gen : Nat]

NoSlot == [op |-> None, gen |-> 0]

NoSlots == [p \in Purposes |-> NoSlot]

\* The journal phases the code stores.  ABSENT: no entry for the request id.
Phase == {"ABSENT", "PROCESSING", "UPLINK_STAGED", "BOTH_STAGED",
          "COMMITTING", "SUCCEEDED", "FAILED", "OUTCOME_UNKNOWN"}

TerminalPhase == {"ABSENT", "SUCCEEDED", "FAILED"}

\* A journal entry; proof says that every item carries its import attestation.
Entry == [op : Ops \cup {None}, phase : Phase, gen : Nat, proof : BOOLEAN]

NoEntry == [op |-> None, phase |-> "ABSENT", gen |-> 0, proof |-> FALSE]

\* The HMAC over the generation and the ACTIVE slots, as the data it covers.
Marker == [gen : Nat, active : [Purposes -> Slot]]

NoMarker == [gen |-> 0, active |-> NoSlots]

Snapshot == [active  : [Purposes -> Slot],
             gen     : Nat,
             marker  : Marker,
             staging : [Purposes -> Slot],
             sgen    : Nat,
             journal : [Rids -> Entry]]

EmptySnapshot == [active  |-> NoSlots,
                  gen     |-> 0,
                  marker  |-> NoMarker,
                  staging |-> NoSlots,
                  sgen    |-> 0,
                  journal |-> [r \in Rids |-> NoEntry]]

-----------------------------------------------------------------------------
compute_commit_marker(gen, active) == [gen |-> gen, active |-> active]

\* Mutant: loading forgets the entries that were in flight.
loadStateDropsOpen(s) ==
  [s EXCEPT !.journal = [r \in Rids |-> IF @[r].phase \in TerminalPhase THEN @[r] ELSE NoEntry]]

\* What initialize() keeps of the stored state: ACTIVE slots whose commit
\* marker does not verify are dropped.
loadState(s) ==
  IF s.active # NoSlots /\ s.marker # compute_commit_marker(s.gen, s.active)
    THEN [s EXCEPT !.active = NoSlots]
    ELSE s

\* Mutants of the startup scan: finished entries are reconciled again; an
\* undecided entry is taken for a finished one.
openEntriesAll(s) == {r \in Rids : s.journal[r].phase # "ABSENT"}
openEntriesDecided(s) ==
  {r \in Rids : s.journal[r].phase \notin TerminalPhase \cup {"OUTCOME_UNKNOWN"}}

\* The entries recover_on_startup has to reconcile.
openEntries(s) == {r \in Rids : s.journal[r].phase \notin TerminalPhase}

\* One past the newest ACTIVE generation over all purposes.
next_generation(s) == 1 + Max({s.active[p].gen : p \in Purposes})

\* Mutant: the generation is compared off by one.
bothActiveOffByOne(s, gen) ==
  \A p \in Purposes : s.active[p].op # None /\ s.active[p].gen + 1 = gen

\* A lookup that finds both purposes ACTIVE in the given generation.
bothActive(s, gen) ==
  \A p \in Purposes : s.active[p].op # None /\ s.active[p].gen = gen

putJournal(s, r, entry) == [s EXCEPT !.journal[r] = entry]

setPhase(s, r, phase) == [s EXCEPT !.journal[r].phase = phase]

stageSlot(s, p, o, gen) ==
  [s EXCEPT !.staging[p] = [op |-> o, gen |-> gen], !.sgen = gen]

\* The preconditions commitBatch checks before it touches anything.
commitReady(s, gen) ==
  /\ \A p \in Purposes : s.staging[p].op # None /\ s.staging[p].gen = gen
  /\ s.sgen = gen

\* The state commitBatch writes.
committed(s, gen) ==
  [s EXCEPT !.active  = s.staging,
            !.gen     = gen,
            !.marker  = compute_commit_marker(gen, s.staging),
            !.staging = NoSlots,
            !.sgen    = 0]

\* Mutant: the staging generation is reset, the staged slots stay.
clearStagingGenOnly(s) == [s EXCEPT !.sgen = 0]

clearStaging(s) == [s EXCEPT !.staging = NoSlots, !.sgen = 0]

\* Mutants: the failed commit restores all but one slot; it does not restore
\* the marker.
commitUndonePartly(s) == [clearStaging(s) EXCEPT !.active[Uplink] = s.staging[Uplink]]
commitUndoneNewMarker(s) ==
  [clearStaging(s) EXCEPT !.marker = compute_commit_marker(s.sgen, s.staging)]

\* The state commitBatch leaves in memory when the write fails: ACTIVE slots,
\* generation and marker are put back, the cleared staging is not.
commitUndone(s) == clearStaging(s)

\* rollbackStaging refuses (CONFLICT) when staging belongs to another generation.
rollbackConflict(s, gen) == s.sgen # 0 /\ s.sgen # gen

\* hasTransactionResidue: anything staged, or any commit marker at all.
providerResidue(s) == s.staging # NoSlots \/ s.marker # NoMarker

-----------------------------------------------------------------------------
(***************************************************************************)
(* What every snapshot, in memory or on disk, must satisfy.                *)
(***************************************************************************)

\* All purposes carry the keys of one and the same operation and generation.
PairedIn(s) == \A p, q \in Purposes : s.active[p] = s.active[q]

\* The commit marker verifies against the slots and generation beside it.
MarkedIn(s) ==
  /\ s.active # NoSlots => s.marker = compute_commit_marker(s.gen, s.active)
  /\ \A p \in Purposes : s.active[p].gen = s.gen

\* The ACTIVE operation has its own journal entry, of the ACTIVE generation,
\* which is not FAILED and not still before the commit.
ActiveJournaledIn(s) ==
  \A p \in Purposes : s.active[p].op # None =>
    LET e == s.journal[RidOf[s.active[p].op]]
    IN  /\ e.op = s.active[p].op
        /\ e.gen = s.gen
        /\ e.phase \in {"COMMITTING", "OUTCOME_UNKNOWN", "SUCCEEDED"}

\* Whatever is staged belongs to an operation whose journal entry is still
\* open, in the generation right after the ACTIVE one.
StagingOwnedIn(s) ==
  /\ s.sgen # 0 => s.sgen = s.gen + 1
  /\ \A p \in Purposes : s.staging[p].op # None =>
       LET e == s.journal[RidOf[s.staging[p].op]]
       IN  /\ e.op = s.staging[p].op
           /\ e.phase \notin TerminalPhase
           /\ e.gen = s.staging[p].gen
           /\ s.staging[p].gen = s.gen + 1
           /\ s.sgen = s.gen + 1

\* The journal entry of a request id holds an operation of that id.
JournalKeyedIn(s) ==
  \A r \in Rids :
    /\ s.journal[r].op = None <=> s.journal[r].phase = "ABSENT"
    /\ s.journal[r].op # None => RidOf[s.journal[r].op] = r

SoundSnapshot(s) ==
  /\ s \in Snapshot
  /\ PairedIn(s)
  /\ MarkedIn(s)
  /\ ActiveJournaledIn(s)
  /\ StagingOwnedIn(s)
  /\ JournalKeyedIn(s)

=============================================================================
