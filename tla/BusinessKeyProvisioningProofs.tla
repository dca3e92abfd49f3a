---------------------- MODULE BusinessKeyProvisioningProofs ----------------------
(***************************************************************************)
(* Proofs about BusinessKeyProvisioning, for every set of operations,      *)
(* request ids and purposes and for every combination of write failures:   *)
(* IndInv is inductive, and the safety properties follow from it.          *)
(***************************************************************************)
EXTENDS BusinessKeyProvisioning, BusinessKeyStoreProofs

USE StoreAssumption, FaultAssumption

\* The empty daemon and the empty stores satisfy the inductive invariant.
LEMMA InitIndInv == Init => IndInv
<1> SUFFICES ASSUME Init PROVE IndInv
  OBVIOUS
<1>1. SoundSnapshot(mem) /\ SoundSnapshot(disk)
  BY EmptySound DEF Init
<1>2. TypeOK
  BY <1>1 DEF Init, TypeOK, SoundSnapshot, NoLedger, Location
<1>3. PipelineInv /\ StagedInv /\ EntryInv /\ QueueInv /\ MemDiskInv
  BY DEF Init, PipelineInv, StagedInv, EntryInv, QueueInv, MemDiskInv, Staging
<1>4. TraceInv
  BY DEF Init, TraceInv, NoLedger
<1> QED
  BY <1>1, <1>2, <1>3, <1>4 DEF IndInv

\* A write that keeps the ACTIVE slots and the journaled operations keeps both
\* snapshots sound and the relation between memory and disk, whatever becomes
\* of the write.
LEMMA SaveKeeps ==
  ASSUME IndInv, NEW t, NEW out \in SaveOutcomes, pc # "down",
         save_state(t, out), SoundSnapshot(t), SameCore(mem, t)
  PROVE  /\ SoundSnapshot(mem') /\ SoundSnapshot(disk')
         /\ MemDiskInv'
         /\ \A o \in Ops : OnDisk(o) => OnDisk(o)'
<1>1. mem' = t /\ (disk' = t \/ disk' = disk)
  BY DEF save_state
<1>2. SoundSnapshot(mem') /\ SoundSnapshot(disk')
  BY <1>1 DEF IndInv
<1>3. MemDiskInv'
  <2>1. CASE disk' = t
    BY <1>1, <2>1 DEF MemDiskInv
  <2>2. CASE disk' = disk
    BY <1>1, <2>2 DEF MemDiskInv, SameCore, IndInv
  <2> QED
    BY <1>1, <2>1, <2>2
<1>4. ASSUME NEW o \in Ops, OnDisk(o)
      PROVE  OnDisk(o)'
  <2>1. RidOf[o] \in Rids /\ mem.journal[RidOf[o]].op = o
    BY <1>4 DEF OnDisk, IndInv, MemDiskInv
  <2> QED
    BY <1>1, <1>4, <2>1 DEF OnDisk, SameCore
<1> QED
  BY <1>2, <1>3, <1>4

\* The same for a write that moves one journaled operation to another phase.
LEMMA PhaseKeeps ==
  ASSUME IndInv, pc # "down", NEW r \in Rids, NEW o \in Ops, mem.journal[r].op = o,
         NEW ph \in Phase \ {"ABSENT"}, NEW out \in SaveOutcomes,
         save_state(setPhase(mem, r, ph), out),
         ph \notin TerminalPhase \/ \A p \in Purposes : mem.staging[p].op # o,
         \/ ph \in {"COMMITTING", "OUTCOME_UNKNOWN", "SUCCEEDED"}
         \/ \A p \in Purposes : mem.active[p].op # o
  PROVE  /\ SoundSnapshot(mem') /\ SoundSnapshot(disk')
         /\ MemDiskInv'
         /\ \A x \in Ops : OnDisk(x) => OnDisk(x)'
         /\ SameCore(mem, mem') /\ mem'.staging = mem.staging
         /\ mem'.journal[r].phase = ph
         /\ \A x \in Rids \ {r} : mem'.journal[x] = mem.journal[x]
<1> DEFINE e == [mem.journal[r] EXCEPT !.phase = ph]
           t == putJournal(mem, r, e)
<1>1. mem \in Snapshot /\ SoundSnapshot(mem) /\ mem.journal[r].op # None
  BY DEF IndInv, SoundSnapshot
<1>2. /\ setPhase(mem, r, ph) = t
      /\ e \in Entry /\ e.op = o /\ e.gen = mem.journal[r].gen /\ e.phase = ph
  BY <1>1, SetPhaseRewrites
<1>3. /\ SameCore(mem, t) /\ t.staging = mem.staging
      /\ t.journal[r] = e
      /\ \A x \in Rids \ {r} : t.journal[x] = mem.journal[x]
  <2> HIDE DEF e
  <2> QED
    BY <1>1, <1>2, RewriteFields
<1>4. SoundSnapshot(t)
  <2> HIDE DEF e
  <2> QED
    BY <1>1, <1>2, NewPhaseSound
<1>5. save_state(t, out)
  BY <1>2
<1>6. mem' = t
  BY <1>5 DEF save_state
<1> HIDE DEF t
<1>7. /\ SoundSnapshot(mem') /\ SoundSnapshot(disk') /\ MemDiskInv'
      /\ \A x \in Ops : OnDisk(x) => OnDisk(x)'
  BY <1>3, <1>4, <1>5, SaveKeeps
<1> QED
  BY <1>2, <1>3, <1>6, <1>7

\* The same for a journal write of the operation at hand.
LEMMA SaveJournalKeeps ==
  ASSUME IndInv, NEW ph \in Phase \ {"ABSENT"}, pc \notin {"down", "boot", "idle"},
         saveJournal(ph),
         ph \notin TerminalPhase \/ \A p \in Purposes : mem.staging[p].op # cur,
         \/ ph \in {"COMMITTING", "OUTCOME_UNKNOWN", "SUCCEEDED"}
         \/ \A p \in Purposes : mem.active[p].op # cur
  PROVE  /\ SoundSnapshot(mem') /\ SoundSnapshot(disk')
         /\ MemDiskInv'
         /\ \A o \in Ops : OnDisk(o) => OnDisk(o)'
         /\ SameCore(mem, mem') /\ mem'.staging = mem.staging
         /\ mem'.journal[rid].phase = ph
         /\ \A x \in Rids \ {rid} : mem'.journal[x] = mem.journal[x]
<1>1. cur \in Ops /\ rid \in Rids /\ mem.journal[rid].op = cur
  BY DEF IndInv, EntryInv, entry, rid
<1>2. PICK out \in SaveOutcomes : save_state(setPhase(mem, rid, ph), out)
  BY DEF saveJournal
<1> QED
  BY <1>1, <1>2, PhaseKeeps

\* A journal entry is opened (import, importKl1).
LEMMA StartPipelineStep ==
  ASSUME IndInv, NEW o \in Ops, pc = "idle", startPipeline(o),
         mem.journal[RidOf[o]].op = None, validate_version(o)
  PROVE  IndInv'
<1> DEFINE r == RidOf[o]
           e == [op |-> o, phase |-> "PROCESSING", gen |-> mem.gen + 1, proof |-> FALSE]
           t == putJournal(mem, r, e)
<1>1. SoundSnapshot(mem) /\ mem \in Snapshot /\ r \in Rids
  BY DEF IndInv, SoundSnapshot
<1>2. PICK out \in SaveOutcomes : save_state(t, out)
  BY <1>1, NextGeneration DEF startPipeline
<1>3. SoundSnapshot(t)
  BY <1>1, PutFreshSound
<1>4. /\ t.active = mem.active /\ t.staging = mem.staging /\ t.gen = mem.gen
      /\ t.journal[r] = e
      /\ \A x \in Rids \ {r} : t.journal[x] = mem.journal[x]
  BY <1>1 DEF putJournal, Snapshot
<1>5. mem' = t /\ (disk' = t \/ disk' = disk)
  BY <1>2 DEF save_state
<1> HIDE DEF t
<1>6. /\ pc' = "unwrap" /\ home' = "idle" /\ cur' = o /\ todo' = Purposes
      /\ queue' = queue /\ ready' = ready /\ ledger' = ledger
      /\ ledgerDisk' = ledgerDisk /\ shutting' = shutting /\ activated' = activated
      /\ blurred' = blurred
      /\ told' = [told EXCEPT ![r] = {}]
  BY DEF startPipeline, ledgers
<1>7. SoundSnapshot(mem') /\ SoundSnapshot(disk')
  BY <1>3, <1>5 DEF IndInv
<1>8. TypeOK'
  BY <1>1, <1>6, <1>7 DEF IndInv, TypeOK, SoundSnapshot, Location
<1>9. /\ rid' = r /\ entry' = e
  BY <1>4, <1>5, <1>6 DEF rid, entry
<1>10. PipelineInv' /\ StagedInv'
  BY <1>4, <1>5, <1>6, <1>9 DEF PipelineInv, StagedInv, Staging, validate_version
<1>11. EntryInv' /\ QueueInv'
  BY <1>6, <1>9 DEF IndInv, EntryInv, QueueInv, Staging, TerminalPhase
<1>12. MemDiskInv'
  <2>1. CASE disk' = t
    BY <1>5, <2>1 DEF MemDiskInv
  <2>2. CASE disk' = disk
    <3>1. mem.gen \in Nat
      BY <1>1 DEF Snapshot
    <3>2. \A x \in Rids : disk'.journal[x].op # None => mem'.journal[x].op = disk'.journal[x].op
      BY <1>4, <1>5, <2>2 DEF MemDiskInv, IndInv
    <3>3. \A x \in Rids : mem'.journal[x].op # None /\ mem'.journal[x].gen <= mem'.gen
                            => disk'.journal[x].op = mem'.journal[x].op
      BY <1>4, <1>5, <2>2, <3>1 DEF MemDiskInv, IndInv
    <3>4. mem'.active = mem.active
      BY <1>4, <1>5
    <3> QED
      BY <2>2, <3>2, <3>3, <3>4 DEF MemDiskInv, IndInv
  <2> QED
    BY <1>5, <2>1, <2>2
<1>13. TraceInv'
  <2>1. ASSUME NEW x \in Ops, OnDisk(x) PROVE OnDisk(x)'
    <3>1. RidOf[x] \in Rids \ {r} /\ mem.journal[RidOf[x]].op = x
      BY <2>1 DEF OnDisk, IndInv, MemDiskInv
    <3> QED
      BY <1>4, <1>5, <2>1, <3>1 DEF OnDisk
  <2> QED
    BY <1>6, <2>1 DEF IndInv, TraceInv, TypeOK
<1> QED
  BY <1>7, <1>8, <1>10, <1>11, <1>12, <1>13 DEF IndInv

\* One purpose is unwrapped into staging, or fails to be.
LEMMA UnwrapStep ==
  ASSUME IndInv, NEW p \in Purposes, unwrapToStaging(p)
  PROVE  IndInv'
<1>1. /\ pc = "unwrap" /\ p \in todo /\ cur \in Ops /\ rid \in Rids
      /\ SoundSnapshot(mem) /\ mem \in Snapshot /\ entry.op = cur
      /\ entry.gen = mem.gen + 1 /\ entry.phase \notin TerminalPhase
  BY DEF unwrapToStaging, IndInv, EntryInv, PipelineInv, Staging, SoundSnapshot, rid
<1>2. /\ home' = home /\ cur' = cur /\ queue' = queue /\ ready' = ready
      /\ ledger' = ledger /\ ledgerDisk' = ledgerDisk /\ shutting' = shutting
      /\ told' = told /\ activated' = activated /\ blurred' = blurred
  BY DEF unwrapToStaging, ledgers
<1>3. queue = {}
  BY <1>1 DEF IndInv, QueueInv
<1>4. CASE mem' = mem /\ disk' = disk /\ todo' = todo /\ pc' \in {"rollback", "unknown"}
  <2>1. rid' = rid /\ entry' = entry
    BY <1>2, <1>4 DEF rid, entry
  <2>2. TypeOK'
    BY <1>2, <1>4 DEF IndInv, TypeOK, Location
  <2>3. PipelineInv' /\ StagedInv' /\ EntryInv' /\ QueueInv'
    BY <1>1, <1>2, <1>3, <1>4, <2>1
       DEF IndInv, PipelineInv, StagedInv, EntryInv, QueueInv, Staging, validate_version
  <2>4. MemDiskInv' /\ TraceInv'
    BY <1>1, <1>2, <1>4 DEF IndInv, MemDiskInv, TraceInv, OnDisk
  <2> QED
    BY <1>4, <2>2, <2>3, <2>4 DEF IndInv
<1>5. ASSUME NEW out \in SaveOutcomes,
             save_state(stageSlot(mem, p, cur, entry.gen), out),
             todo' = todo \ {p},
             pc' \in {"note", "unknown", "rollback"}
      PROVE  IndInv'
  <2> DEFINE t == stageSlot(mem, p, cur, entry.gen)
  <2>1. SoundSnapshot(t)
    BY <1>1, StageSound DEF entry, rid
  <2>2. /\ SameCore(mem, t) /\ t.journal = mem.journal
        /\ t.staging[p] = [op |-> cur, gen |-> entry.gen]
        /\ \A q \in Purposes \ {p} : t.staging[q] = mem.staging[q]
    BY <1>1, StagingFields
  <2>3. mem' = t
    BY <1>5 DEF save_state
  <2> HIDE DEF t
  <2>4. /\ SoundSnapshot(mem') /\ SoundSnapshot(disk') /\ MemDiskInv'
        /\ \A o \in Ops : OnDisk(o) => OnDisk(o)'
    BY <1>1, <1>5, <2>1, <2>2, SaveKeeps DEF t
  <2>5. rid' = rid /\ entry' = entry
    BY <1>2, <2>2, <2>3 DEF rid, entry
  <2>6. TypeOK'
    BY <1>2, <1>5, <2>4 DEF IndInv, TypeOK, Location, SoundSnapshot
  <2>7. PipelineInv'
    BY <1>1, <1>2, <2>2, <2>3, <2>5
       DEF IndInv, PipelineInv, Staging, validate_version, SameCore
  <2>8. StagedInv'
    BY <1>1, <1>2, <1>5, <2>2, <2>3, <2>5 DEF IndInv, StagedInv, Staging
  <2>9. EntryInv' /\ QueueInv'
    BY <1>1, <1>2, <1>3, <1>5, <2>5 DEF EntryInv, QueueInv, Staging
  <2>10. TraceInv'
    BY <1>2, <1>5, <2>4 DEF IndInv, TraceInv, TypeOK
  <2> QED
    BY <2>4, <2>6, <2>7, <2>8, <2>9, <2>10 DEF IndInv
<1> QED
  BY <1>4, <1>5 DEF unwrapToStaging, store

\* A purpose is noted in the journal as staged.
LEMMA NoteStagedStep == ASSUME IndInv, noteStaged PROVE IndInv'
<1> DEFINE ph == IF Uplink \in todo THEN "PROCESSING" ELSE "UPLINK_STAGED"
<1>1. /\ pc = "note" /\ saveJournal(ph) /\ ph \in Phase \ TerminalPhase
      /\ cur \in Ops /\ rid \in Rids /\ mem \in Snapshot
      /\ entry.gen = mem.gen + 1
  BY DEF noteStaged, Phase, TerminalPhase, IndInv, EntryInv, PipelineInv, Staging,
         SoundSnapshot, rid
<1>2. /\ pc' = IF todo = {} THEN "both" ELSE "unwrap"
      /\ home' = home /\ cur' = cur /\ todo' = todo /\ queue' = queue /\ ready' = ready
      /\ ledger' = ledger /\ ledgerDisk' = ledgerDisk /\ shutting' = shutting
      /\ told' = told /\ activated' = activated /\ blurred' = blurred
  BY DEF noteStaged, Goto, ledgers
<1> HIDE DEF ph
<1>3. /\ SoundSnapshot(mem') /\ SoundSnapshot(disk') /\ MemDiskInv'
      /\ \A o \in Ops : OnDisk(o) => OnDisk(o)'
      /\ SameCore(mem, mem') /\ mem'.staging = mem.staging
      /\ mem'.journal[rid].phase = ph
  <2>1. ph \notin TerminalPhase /\ ph \in Phase \ {"ABSENT"}
    BY SMTT(30), <1>1 DEF TerminalPhase
  <2>2. \A p \in Purposes : mem.active[p].op # cur
    BY <1>1 DEF IndInv, SoundSnapshot, Snapshot, ActiveJournaledIn, entry, rid
  <2> QED
    BY <1>1, <2>1, <2>2, SaveJournalKeeps
<1>4. /\ rid' = rid /\ entry'.op = entry.op /\ entry'.gen = entry.gen /\ entry'.phase = ph
  BY <1>1, <1>2, <1>3 DEF rid, entry, SameCore
<1>5. TypeOK'
  BY <1>2, <1>3 DEF IndInv, TypeOK, Location, SoundSnapshot
<1>6. PipelineInv' /\ StagedInv'
  BY <1>1, <1>2, <1>3, <1>4
     DEF IndInv, PipelineInv, StagedInv, Staging, validate_version, SameCore
<1>7. EntryInv' /\ QueueInv'
  BY <1>1, <1>2, <1>4 DEF IndInv, EntryInv, QueueInv, Staging
<1>8. TraceInv'
  BY <1>2, <1>3 DEF IndInv, TraceInv, TypeOK
<1> QED
  BY <1>3, <1>5, <1>6, <1>7, <1>8 DEF IndInv

\* Both purposes are noted in the journal as staged.
LEMMA NoteBothStagedStep == ASSUME IndInv, noteBothStaged PROVE IndInv'
<1>1. /\ pc = "both" /\ saveJournal("BOTH_STAGED")
      /\ cur \in Ops /\ rid \in Rids /\ mem \in Snapshot
      /\ entry.gen = mem.gen + 1
  BY DEF noteBothStaged, IndInv, EntryInv, PipelineInv, Staging, SoundSnapshot, rid
<1>2. /\ pc' = "verify"
      /\ home' = home /\ cur' = cur /\ todo' = todo /\ queue' = queue /\ ready' = ready
      /\ ledger' = ledger /\ ledgerDisk' = ledgerDisk /\ shutting' = shutting
      /\ told' = told /\ activated' = activated /\ blurred' = blurred
  BY DEF noteBothStaged, Goto, ledgers
<1>3. /\ SoundSnapshot(mem') /\ SoundSnapshot(disk') /\ MemDiskInv'
      /\ \A o \in Ops : OnDisk(o) => OnDisk(o)'
      /\ SameCore(mem, mem') /\ mem'.staging = mem.staging
      /\ mem'.journal[rid].phase = "BOTH_STAGED"
  <2>1. "BOTH_STAGED" \notin TerminalPhase /\ "BOTH_STAGED" \in Phase \ {"ABSENT"}
    BY SMTT(30) DEF TerminalPhase, Phase
  <2>2. \A p \in Purposes : mem.active[p].op # cur
    BY <1>1 DEF IndInv, SoundSnapshot, Snapshot, ActiveJournaledIn, entry, rid
  <2> QED
    BY <1>1, <2>1, <2>2, SaveJournalKeeps
<1>4. /\ rid' = rid /\ entry'.op = entry.op /\ entry'.gen = entry.gen
      /\ entry'.phase = "BOTH_STAGED"
  BY <1>1, <1>2, <1>3 DEF rid, entry, SameCore
<1>5. TypeOK'
  BY <1>2, <1>3 DEF IndInv, TypeOK, Location, SoundSnapshot
<1>6. PipelineInv' /\ StagedInv'
  BY <1>1, <1>2, <1>3, <1>4
     DEF IndInv, PipelineInv, StagedInv, Staging, validate_version, SameCore
<1>7. EntryInv' /\ QueueInv'
  BY <1>1, <1>2, <1>4 DEF IndInv, EntryInv, QueueInv, Staging, TerminalPhase
<1>8. TraceInv'
  BY <1>2, <1>3 DEF IndInv, TraceInv, TypeOK
<1> QED
  BY <1>3, <1>5, <1>6, <1>7, <1>8 DEF IndInv

\* The staged keys are verified, or the batch is given up.
LEMMA VerifyStep == ASSUME IndInv, verifyStaging PROVE IndInv'
<1>1. /\ pc = "verify"
      /\ cur \in Ops /\ rid \in Rids /\ mem \in Snapshot
      /\ entry.gen = mem.gen + 1
  BY DEF verifyStaging, IndInv, EntryInv, PipelineInv, Staging, SoundSnapshot, rid
<1>2. /\ home' = home /\ cur' = cur /\ todo' = todo /\ queue' = queue /\ ready' = ready
      /\ ledger' = ledger /\ ledgerDisk' = ledgerDisk /\ shutting' = shutting
      /\ told' = told /\ activated' = activated /\ blurred' = blurred
  BY DEF verifyStaging, Goto, ledgers
<1>3. CASE saveJournal("COMMITTING") /\ pc' = "commit"
  <2>1. /\ SoundSnapshot(mem') /\ SoundSnapshot(disk') /\ MemDiskInv'
        /\ \A o \in Ops : OnDisk(o) => OnDisk(o)'
        /\ SameCore(mem, mem') /\ mem'.staging = mem.staging
        /\ mem'.journal[rid].phase = "COMMITTING"
    <3>1. "COMMITTING" \notin TerminalPhase /\ "COMMITTING" \in Phase \ {"ABSENT"}
      BY DEF TerminalPhase, Phase
    <3> QED
      BY <1>1, <1>3, <3>1, SaveJournalKeeps
  <2>2. /\ rid' = rid /\ entry'.op = entry.op /\ entry'.gen = entry.gen
        /\ entry'.phase = "COMMITTING"
    BY <1>1, <1>2, <2>1 DEF rid, entry, SameCore
  <2>3. TypeOK'
    BY <1>2, <1>3, <2>1 DEF IndInv, TypeOK, Location, SoundSnapshot
  <2>4. PipelineInv' /\ StagedInv'
    BY <1>1, <1>2, <1>3, <2>1, <2>2
       DEF IndInv, PipelineInv, StagedInv, Staging, validate_version, SameCore
  <2>5. EntryInv' /\ QueueInv'
    BY <1>1, <1>2, <1>3, <2>2 DEF IndInv, EntryInv, QueueInv, Staging, TerminalPhase
  <2>6. TraceInv'
    BY <1>2, <1>3, <2>1 DEF IndInv, TraceInv, TypeOK
  <2> QED
    BY <2>1, <2>3, <2>4, <2>5, <2>6 DEF IndInv
<1>4. CASE mem' = mem /\ disk' = disk /\ pc' = "rollback"
  <2>1. rid' = rid /\ entry' = entry
    BY <1>2, <1>4 DEF rid, entry
  <2>2. TypeOK'
    BY <1>2, <1>4 DEF IndInv, TypeOK, Location
  <2>3. PipelineInv' /\ StagedInv' /\ EntryInv' /\ QueueInv'
    BY <1>1, <1>2, <1>4, <2>1
       DEF IndInv, PipelineInv, StagedInv, EntryInv, QueueInv, Staging, validate_version
  <2>4. MemDiskInv' /\ TraceInv'
    BY <1>1, <1>2, <1>4 DEF IndInv, MemDiskInv, TraceInv, OnDisk
  <2> QED
    BY <1>4, <2>2, <2>3, <2>4 DEF IndInv
<1> QED
  BY <1>3, <1>4 DEF verifyStaging, Goto, store

\* The batch is committed, or the write fails and the ACTIVE slots stay.
LEMMA CommitStep == ASSUME IndInv, commitBatch PROVE IndInv'
<1>1. /\ pc = "commit"
      /\ cur \in Ops /\ rid \in Rids /\ mem \in Snapshot /\ SoundSnapshot(mem)
      /\ entry.op = cur /\ entry.gen = mem.gen + 1 /\ entry.phase = "COMMITTING"
      /\ validate_version(cur) /\ todo = {} /\ queue = {}
      /\ \A p \in Purposes : mem.staging[p] = [op |-> cur, gen |-> entry.gen]
  BY DEF commitBatch, IndInv, EntryInv, PipelineInv, StagedInv, QueueInv, Staging,
         SoundSnapshot, rid
<1>2. /\ home' = home /\ cur' = cur /\ todo' = todo /\ queue' = queue /\ ready' = ready
      /\ ledger' = ledger /\ ledgerDisk' = ledgerDisk /\ shutting' = shutting
      /\ told' = told
  BY DEF commitBatch, Goto, ledgers
<1>0. blurred' \in BOOLEAN
  BY DEF commitBatch, IndInv, TypeOK
<1> DEFINE t == committed(mem, entry.gen)
           u == clearStaging(mem)
<1>3. /\ SoundSnapshot(t) /\ t.active = mem.staging /\ t.gen = entry.gen
      /\ t.journal = mem.journal
  <2>1. SoundSnapshot(t)
    BY <1>1, CommitSound DEF entry, rid, Snapshot
  <2> QED
    BY <1>1, <2>1 DEF committed, Snapshot
<1>4. SoundSnapshot(u) /\ SameCore(mem, u) /\ u.journal = mem.journal
  BY <1>1, ClearSound, StagingFields
<1> HIDE DEF t, u
<1>5. CASE mem' = mem /\ disk' = disk /\ activated' = activated /\ pc' = "rollback"
  <2>1. rid' = rid /\ entry' = entry
    BY <1>2, <1>5 DEF rid, entry
  <2>2. TypeOK'
    BY <1>0, <1>2, <1>5 DEF IndInv, TypeOK, Location
  <2>3. PipelineInv' /\ StagedInv' /\ EntryInv' /\ QueueInv'
    BY <1>1, <1>2, <1>5, <2>1
       DEF IndInv, PipelineInv, StagedInv, EntryInv, QueueInv, Staging, validate_version
  <2>4. MemDiskInv' /\ TraceInv'
    BY <1>1, <1>2, <1>5 DEF IndInv, MemDiskInv, TraceInv, OnDisk
  <2> QED
    BY <1>5, <2>2, <2>3, <2>4 DEF IndInv
<1>6. CASE mem' = t /\ disk' = t /\ activated' = activated \cup {cur} /\ pc' = "attest"
  <2>1. rid' = rid /\ entry' = entry
    BY <1>2, <1>3, <1>6 DEF rid, entry
  <2>2. TypeOK'
    BY <1>0, <1>1, <1>2, <1>3, <1>6 DEF IndInv, TypeOK, Location, SoundSnapshot
  <2>3. PipelineInv' /\ StagedInv' /\ EntryInv' /\ QueueInv'
    BY <1>1, <1>2, <1>3, <1>6, <2>1
       DEF PipelineInv, StagedInv, EntryInv, QueueInv, Staging
  <2>4. MemDiskInv'
    BY <1>6 DEF MemDiskInv
  <2>5. \A o \in Ops : OnDisk(o) \/ o = cur => OnDisk(o)'
    BY <1>1, <1>3, <1>6 DEF IndInv, MemDiskInv, OnDisk, entry, rid
  <2>6. TraceInv'
    BY <1>1, <1>2, <1>6, <2>5 DEF IndInv, TraceInv, TypeOK
  <2> QED
    BY <1>3, <1>6, <2>2, <2>3, <2>4, <2>6 DEF IndInv
<1>7. CASE /\ mem' = u /\ pc' \in {"unknown", "rollback"}
           /\ \/ disk' = t /\ activated' = activated \cup {cur}
              \/ disk' = disk /\ activated' = activated
  <2>1. rid' = rid /\ entry' = entry
    BY <1>2, <1>4, <1>7 DEF rid, entry
  <2>2. SoundSnapshot(mem') /\ SoundSnapshot(disk')
    BY <1>3, <1>4, <1>7 DEF IndInv
  <2>3. TypeOK'
    BY <1>0, <1>1, <1>2, <1>7, <2>2 DEF IndInv, TypeOK, Location, SoundSnapshot
  <2>4. PipelineInv'
    BY <1>1, <1>2, <1>4, <1>7, <2>1 DEF PipelineInv, Staging, validate_version, SameCore
  <2>5. StagedInv' /\ EntryInv' /\ QueueInv'
    BY <1>1, <1>2, <1>7, <2>1 DEF StagedInv, EntryInv, QueueInv, Staging, TerminalPhase
  <2>6. MemDiskInv'
    <3>1. CASE disk' = disk
      BY <1>1, <1>4, <1>7, <3>1 DEF IndInv, MemDiskInv, SameCore
    <3>2. CASE disk' = t
      <4>1. \A r \in Rids : disk'.journal[r] = mem'.journal[r]
        BY <1>3, <1>4, <1>7, <3>2
      <4>2. \A p \in Purposes : mem'.active[p].op # None =>
              /\ disk'.active[p].op # None
              /\ Ver[disk'.active[p].op][p] > Ver[mem'.active[p].op][p]
        BY <1>1, <1>3, <1>4, <1>7, <3>2 DEF validate_version, SameCore
      <4> QED
        BY <4>1, <4>2 DEF MemDiskInv
    <3> QED
      BY <1>7, <3>1, <3>2
  <2>7. \A o \in Ops : OnDisk(o) \/ (disk' = t /\ o = cur) => OnDisk(o)'
    BY <1>1, <1>3, <1>7 DEF IndInv, MemDiskInv, OnDisk, entry, rid
  <2>8. TraceInv'
    BY <1>1, <1>2, <1>7, <2>7 DEF IndInv, TraceInv, TypeOK
  <2> QED
    BY <2>2, <2>3, <2>4, <2>5, <2>6, <2>8 DEF IndInv
<1> QED
  <2>1. \/ mem' = mem /\ disk' = disk /\ activated' = activated /\ pc' = "rollback"
        \/ mem' = t /\ disk' = t /\ activated' = activated \cup {cur} /\ pc' = "attest"
        \/ /\ mem' = u /\ pc' \in {"unknown", "rollback"}
           /\ \/ disk' = t /\ activated' = activated \cup {cur}
              \/ disk' = disk /\ activated' = activated
    BY DEF commitBatch, Goto, store, Written, is_outcome_unknown, commitUndone, t, u
  <2> QED
    BY <1>5, <1>6, <1>7, <2>1

\* The imported keys are attested, or the outcome is left open.
LEMMA AttestStep == ASSUME IndInv, attest PROVE IndInv'
<1>1. /\ pc = "attest"
      /\ cur \in Ops /\ rid \in Rids /\ mem \in Snapshot /\ SoundSnapshot(mem)
      /\ entry.op = cur /\ entry.gen = mem.gen /\ queue = {} /\ OnDisk(cur)
  BY DEF attest, IndInv, EntryInv, TraceInv, QueueInv, SoundSnapshot, rid
<1>2. /\ queue' = queue /\ ready' = ready
      /\ ledger' = ledger /\ ledgerDisk' = ledgerDisk /\ shutting' = shutting
      /\ told' = told /\ activated' = activated /\ blurred' = blurred
  BY DEF attest, Return, ledgers
<1>3. ASSUME NEW out \in SaveOutcomes,
             save_state(putJournal(mem, rid,
               [entry EXCEPT !.phase = "SUCCEEDED", !.proof = TRUE]), out),
             pc' = "ledger", todo' = Purposes, home' = home, cur' = cur
      PROVE  IndInv'
  <2> DEFINE e == [entry EXCEPT !.phase = "SUCCEEDED", !.proof = TRUE]
             t == putJournal(mem, rid, e)
  <2>1. e \in Entry /\ e.op = cur /\ e.gen = mem.gen /\ e.phase = "SUCCEEDED"
    <3>1. entry \in Entry
      BY <1>1 DEF entry, Snapshot
    <3> QED
      BY <1>1, <3>1 DEF Entry, Phase
  <2> HIDE DEF e
  <2>2. \A p \in Purposes : mem.staging[p].op # cur
    BY <1>1 DEF SoundSnapshot, StagingOwnedIn, Snapshot, entry, rid
  <2>3. SoundSnapshot(t)
    BY <1>1, <2>1, <2>2, NewPhaseSound DEF entry
  <2>4. SameCore(mem, t) /\ t.journal[rid] = e
    BY <1>1, <2>1, RewriteFields DEF entry
  <2>5. mem' = t
    BY <1>3 DEF save_state, e
  <2> HIDE DEF t
  <2>6. /\ SoundSnapshot(mem') /\ SoundSnapshot(disk') /\ MemDiskInv'
        /\ \A o \in Ops : OnDisk(o) => OnDisk(o)'
    BY <1>1, <1>3, <2>3, <2>4, SaveKeeps DEF t, e
  <2>7. rid' = rid /\ entry' = e
    BY <1>3, <2>4, <2>5 DEF rid, entry
  <2>8. TypeOK'
    BY <1>2, <1>3, <2>6 DEF IndInv, TypeOK, Location, SoundSnapshot
  <2>9. PipelineInv' /\ StagedInv' /\ EntryInv' /\ QueueInv'
    BY <1>1, <1>2, <1>3, <2>1, <2>7 DEF PipelineInv, StagedInv, EntryInv, QueueInv, Staging
  <2>10. TraceInv'
    BY <1>1, <1>2, <1>3, <2>6 DEF IndInv, TraceInv, TypeOK
  <2> QED
    BY <2>6, <2>8, <2>9, <2>10 DEF IndInv
<1>4. CASE saveJournal("OUTCOME_UNKNOWN") /\ Return
  <2>1. /\ SoundSnapshot(mem') /\ SoundSnapshot(disk') /\ MemDiskInv'
        /\ \A o \in Ops : OnDisk(o) => OnDisk(o)'
    <3>1. "OUTCOME_UNKNOWN" \notin TerminalPhase /\ "OUTCOME_UNKNOWN" \in Phase \ {"ABSENT"}
      BY DEF TerminalPhase, Phase
    <3> QED
      BY <1>1, <1>4, <3>1, SaveJournalKeeps
  <2>2. pc' = home /\ home' = "idle" /\ cur' = None /\ todo' = {}
    BY <1>4 DEF Return
  <2>3. TypeOK' /\ home \in {"boot", "idle"}
    BY <1>2, <2>1, <2>2 DEF IndInv, TypeOK, Location, SoundSnapshot
  <2>4. PipelineInv' /\ StagedInv' /\ EntryInv' /\ QueueInv'
    BY <1>1, <1>2, <2>2, <2>3 DEF PipelineInv, StagedInv, EntryInv, QueueInv, Staging
  <2>5. TraceInv'
    BY <1>2, <2>1, <2>2, <2>3 DEF IndInv, TraceInv, TypeOK
  <2> QED
    BY <2>1, <2>3, <2>4, <2>5 DEF IndInv
<1> QED
  BY <1>3, <1>4 DEF attest

\* rollbackStaging of an operation that is not ACTIVE leaves nothing of it
\* staged: when it is refused, what is staged belongs to another generation.
LEMMA RollbackClears ==
  ASSUME IndInv, pc # "down", NEW o \in Ops, mem.journal[RidOf[o]].op = o,
         rollbackStaging(mem.journal[RidOf[o]].gen)
  PROVE  /\ SoundSnapshot(mem') /\ SoundSnapshot(disk') /\ MemDiskInv'
         /\ \A x \in Ops : OnDisk(x) => OnDisk(x)'
         /\ SameCore(mem, mem') /\ mem'.journal = mem.journal
         /\ \A p \in Purposes : mem'.staging[p].op # o
<1>1. SoundSnapshot(mem) /\ SoundSnapshot(disk) /\ mem \in Snapshot
  BY DEF IndInv, SoundSnapshot
<1>2. CASE rollbackConflict(mem, mem.journal[RidOf[o]].gen) /\ UNCHANGED store
  <2>1. mem' = mem /\ disk' = disk
    BY SMTT(30), <1>2 DEF store
  <2>2. \A p \in Purposes : mem.staging[p].op # o
    BY <1>1, <1>2 DEF SoundSnapshot, StagingOwnedIn, rollbackConflict, Snapshot
  <2>3. MemDiskInv'
    BY <2>1 DEF IndInv, MemDiskInv
  <2> QED
    BY <1>1, <2>1, <2>2, <2>3 DEF OnDisk, SameCore
<1>3. ASSUME NEW out \in SaveOutcomes, save_state(clearStaging(mem), out)
      PROVE  /\ SoundSnapshot(mem') /\ SoundSnapshot(disk') /\ MemDiskInv'
             /\ \A x \in Ops : OnDisk(x) => OnDisk(x)'
             /\ SameCore(mem, mem') /\ mem'.journal = mem.journal
             /\ \A p \in Purposes : mem'.staging[p].op # o
  <2> DEFINE t == clearStaging(mem)
  <2>1. /\ SoundSnapshot(t) /\ SameCore(mem, t) /\ t.journal = mem.journal
        /\ \A p \in Purposes : t.staging[p].op = None
    BY <1>1, ClearSound, StagingFields
  <2>2. mem' = t
    BY <1>3 DEF save_state
  <2>3. save_state(t, out)
    BY <1>3
  <2> HIDE DEF t
  <2>4. /\ SoundSnapshot(mem') /\ SoundSnapshot(disk') /\ MemDiskInv'
        /\ \A x \in Ops : OnDisk(x) => OnDisk(x)'
    BY <2>1, <2>3, SaveKeeps
  <2> QED
    BY <2>1, <2>2, <2>4
<1> QED
  BY <1>2, <1>3 DEF rollbackStaging

\* One ledger entry is put; with the last one the import is reported.
LEMMA PutLedgerStep ==
  ASSUME IndInv, NEW p \in Purposes, putLedger(p)
  PROVE  IndInv'
<1>1. /\ pc = "ledger" /\ p \in todo /\ cur \in Ops /\ rid \in Rids /\ OnDisk(cur)
      /\ queue # {} => home = "boot"
      /\ home \in {"boot", "idle"}
  BY DEF putLedger, IndInv, TypeOK, EntryInv, TraceInv, QueueInv, rid
<1>2. /\ mem' = mem /\ disk' = disk /\ shutting' = shutting /\ activated' = activated
      /\ blurred' = blurred
      /\ queue' = queue /\ ready' = ready
  BY DEF putLedger, store, Return
<1>3. /\ ledger' \in {ledger, [ledger EXCEPT ![p] = cur]}
      /\ ledgerDisk' \in {ledgerDisk, [ledger EXCEPT ![p] = cur]}
  BY DEF putLedger
<1>4. \/ /\ pc' = home /\ home' = "idle" /\ cur' = None /\ todo' = {}
      \/ /\ pc' = pc /\ home' = home /\ cur' = cur /\ todo' = todo \ {p}
  BY DEF putLedger, Return
<1>5. told' \in {told, [told EXCEPT ![rid] = @ \cup {"COMMITTED"}]}
  BY DEF putLedger, Tell
<1>6. TypeOK'
  <2>1. told' \in [Rids -> SUBSET {"COMMITTED", "FAILED"}]
    BY <1>1, <1>5 DEF IndInv, TypeOK
  <2>2. ledger' \in [Purposes -> Ops \cup {None}] /\ ledgerDisk' \in [Purposes -> Ops \cup {None}]
    BY <1>1, <1>3 DEF IndInv, TypeOK
  <2>3. /\ pc' \in Location /\ home' \in {"boot", "idle"}
        /\ cur' \in Ops \cup {None} /\ todo' \in SUBSET Purposes
    BY <1>1, <1>4 DEF IndInv, TypeOK, Location
  <2> QED
    BY <1>2, <2>1, <2>2, <2>3 DEF IndInv, TypeOK
<1>7. PipelineInv' /\ StagedInv'
  BY <1>1, <1>4 DEF PipelineInv, StagedInv, Staging
<1>8. EntryInv' /\ QueueInv'
  BY <1>1, <1>2, <1>4 DEF IndInv, EntryInv, QueueInv, Staging, entry, rid
<1>9. MemDiskInv' /\ SoundSnapshot(mem') /\ SoundSnapshot(disk')
  BY <1>1, <1>2 DEF IndInv, MemDiskInv
<1>10. TraceInv'
  <2>1. \A q \in Purposes : /\ ledger'[q] # None => OnDisk(ledger'[q])
                            /\ ledgerDisk'[q] # None => OnDisk(ledgerDisk'[q])
    BY <1>1, <1>3 DEF IndInv, TraceInv, TypeOK
  <2> QED
    BY <1>1, <1>2, <1>4, <2>1 DEF IndInv, TraceInv, OnDisk
<1> QED
  BY <1>6, <1>7, <1>8, <1>9, <1>10 DEF IndInv

\* The outcome is journaled as unknown.
LEMMA NoteUnknownStep == ASSUME IndInv, noteUnknown PROVE IndInv'
<1>1. /\ pc = "unknown" /\ cur \in Ops /\ rid \in Rids /\ queue = {}
      /\ home \in {"boot", "idle"}
  BY DEF noteUnknown, IndInv, TypeOK, EntryInv, QueueInv, rid
<1>2. /\ pc' = home /\ home' = "idle" /\ cur' = None /\ todo' = {}
      /\ queue' = queue /\ ready' = ready
      /\ ledger' = ledger /\ ledgerDisk' = ledgerDisk /\ shutting' = shutting
      /\ told' = told /\ activated' = activated /\ blurred' = blurred
  BY DEF noteUnknown, Return, ledgers
<1>3. /\ SoundSnapshot(mem') /\ SoundSnapshot(disk') /\ MemDiskInv'
      /\ \A o \in Ops : OnDisk(o) => OnDisk(o)'
  <2>1. "OUTCOME_UNKNOWN" \notin TerminalPhase /\ "OUTCOME_UNKNOWN" \in Phase \ {"ABSENT"}
    BY DEF TerminalPhase, Phase
  <2>2. saveJournal("OUTCOME_UNKNOWN")
    BY DEF noteUnknown
  <2> QED
    BY <1>1, <2>1, <2>2, SaveJournalKeeps
<1>4. TypeOK'
  BY <1>1, <1>2, <1>3 DEF IndInv, TypeOK, Location, SoundSnapshot
<1>5. PipelineInv' /\ StagedInv' /\ EntryInv' /\ QueueInv'
  BY <1>1, <1>2 DEF PipelineInv, StagedInv, EntryInv, QueueInv, Staging
<1>6. TraceInv'
  BY <1>1, <1>2, <1>3 DEF IndInv, TraceInv, TypeOK
<1> QED
  BY <1>3, <1>4, <1>5, <1>6 DEF IndInv

\* The staging area is rolled back after a failure.
LEMMA RollbackStep == ASSUME IndInv, rollback PROVE IndInv'
<1>1. /\ pc = "rollback" /\ cur \in Ops /\ rid \in Rids /\ queue = {}
      /\ entry.op = cur /\ entry.gen = mem.gen + 1
      /\ SoundSnapshot(mem) /\ mem \in Snapshot
  BY DEF rollback, IndInv, EntryInv, PipelineInv, QueueInv, SoundSnapshot, rid
<1>2. /\ pc' = "fail" /\ home' = home /\ cur' = cur /\ todo' = todo
      /\ queue' = queue /\ ready' = ready
      /\ ledger' = ledger /\ ledgerDisk' = ledgerDisk /\ shutting' = shutting
      /\ told' = told /\ activated' = activated /\ blurred' = blurred
  BY DEF rollback, Goto, ledgers
<1>3. /\ SoundSnapshot(mem') /\ SoundSnapshot(disk') /\ MemDiskInv'
      /\ \A o \in Ops : OnDisk(o) => OnDisk(o)'
      /\ SameCore(mem, mem') /\ mem'.journal = mem.journal
      /\ \A p \in Purposes : mem'.staging[p].op # cur
  BY <1>1, RollbackClears DEF rollback, entry, rid
<1>4. \A p \in Purposes : mem.active[p].op # cur
  <2>1. mem.gen \in Nat
    BY <1>1 DEF Snapshot
  <2> QED
    BY <1>1, <2>1 DEF SoundSnapshot, ActiveJournaledIn, entry, rid
<1>5. TypeOK'
  BY <1>2, <1>3 DEF IndInv, TypeOK, Location, SoundSnapshot
<1>6. PipelineInv' /\ StagedInv' /\ QueueInv'
  BY <1>1, <1>2 DEF PipelineInv, StagedInv, QueueInv, Staging
<1>7. EntryInv'
  BY <1>1, <1>2, <1>3, <1>4 DEF EntryInv, Staging, entry, rid, SameCore
<1>8. TraceInv'
  BY <1>2, <1>3 DEF IndInv, TraceInv, TypeOK
<1> QED
  BY <1>3, <1>5, <1>6, <1>7, <1>8 DEF IndInv

\* The failure is journaled and reported.
LEMMA NoteFailedStep == ASSUME IndInv, noteFailed PROVE IndInv'
<1>1. /\ pc = "fail" /\ cur \in Ops /\ rid \in Rids
      /\ queue # {} => home = "boot" /\ rid \notin queue
      /\ home \in {"boot", "idle"}
      /\ \A p \in Purposes : mem.active[p].op # cur /\ mem.staging[p].op # cur
  BY DEF noteFailed, IndInv, TypeOK, EntryInv, QueueInv, rid
<1>2. /\ pc' = home /\ home' = "idle" /\ cur' = None /\ todo' = {}
      /\ queue' = queue /\ ready' = ready
      /\ ledger' = ledger /\ ledgerDisk' = ledgerDisk /\ shutting' = shutting
      /\ activated' = activated /\ blurred' = blurred
      /\ told' \in {told, [told EXCEPT ![rid] = @ \cup {"FAILED"}]}
  BY DEF noteFailed, Return, Tell, ledgers
<1>3. /\ SoundSnapshot(mem') /\ SoundSnapshot(disk') /\ MemDiskInv'
      /\ \A o \in Ops : OnDisk(o) => OnDisk(o)'
      /\ \A x \in Rids \ {rid} : mem'.journal[x] = mem.journal[x]
  <2>1. "FAILED" \in Phase \ {"ABSENT"}
    BY DEF Phase
  <2>2. saveJournal("FAILED")
    BY DEF noteFailed
  <2> QED
    BY <1>1, <2>1, <2>2, SaveJournalKeeps
<1>4. TypeOK'
  <2>1. told' \in [Rids -> SUBSET {"COMMITTED", "FAILED"}]
    BY <1>1, <1>2 DEF IndInv, TypeOK
  <2> QED
    BY <1>1, <1>2, <1>3, <2>1 DEF IndInv, TypeOK, Location, SoundSnapshot
<1>5. PipelineInv' /\ StagedInv' /\ EntryInv'
  BY <1>1, <1>2 DEF PipelineInv, StagedInv, EntryInv, Staging
<1>6. QueueInv'
  BY <1>1, <1>2, <1>3 DEF IndInv, QueueInv, TypeOK
<1>7. TraceInv'
  BY <1>1, <1>2, <1>3 DEF IndInv, TraceInv, TypeOK
<1> QED
  BY <1>3, <1>4, <1>5, <1>6, <1>7 DEF IndInv

\* An open entry is reconciled: its keys are found ACTIVE and it is finished as
\* committed, or it is rolled back.
LEMMA RecoverEntryStep ==
  ASSUME IndInv, NEW r \in Rids, recover_entry(r), pc \in {"boot", "idle"},
         mem.journal[r].phase \notin TerminalPhase,
         queue' = queue \ {r}, home' \in {"boot", "idle"},
         queue' # {} => home' = "boot"
  PROVE  IndInv'
<1> DEFINE o == mem.journal[r].op
           g == mem.journal[r].gen
<1>1. /\ SoundSnapshot(mem) /\ mem \in Snapshot /\ mem.gen \in Nat
      /\ o \in Ops /\ RidOf[o] = r
  <2>1. SoundSnapshot(mem) /\ mem \in Snapshot
    BY DEF IndInv, SoundSnapshot
  <2>2. o # None
    BY <2>1 DEF SoundSnapshot, JournalKeyedIn, TerminalPhase
  <2> QED
    BY <2>1, <2>2 DEF SoundSnapshot, JournalKeyedIn, Snapshot, Entry
<1>2. /\ cur' = o /\ ready' = ready /\ ledger' = ledger /\ ledgerDisk' = ledgerDisk
      /\ shutting' = shutting /\ told' = told /\ activated' = activated
      /\ blurred' = blurred
  BY DEF recover_entry, ledgers
<1>3. rid' = r
  BY <1>1, <1>2 DEF rid
<1>4. ASSUME bothActive(mem, g), NEW out \in SaveOutcomes,
             save_state(setPhase(mem, r, "SUCCEEDED"), out),
             pc' = "ledger", todo' = Purposes
      PROVE  IndInv'
  <2>1. g = mem.gen
    BY <1>1, <1>4 DEF bothActive, SoundSnapshot, MarkedIn
  <2>2. \A p \in Purposes : mem.staging[p].op # o
    BY <1>1, <2>1 DEF SoundSnapshot, StagingOwnedIn
  <2>3. OnDisk(o)
    BY <1>1, <2>1 DEF IndInv, MemDiskInv, OnDisk
  <2>4. /\ SoundSnapshot(mem') /\ SoundSnapshot(disk') /\ MemDiskInv'
        /\ \A x \in Ops : OnDisk(x) => OnDisk(x)'
        /\ SameCore(mem, mem')
        /\ \A x \in Rids \ {r} : mem'.journal[x] = mem.journal[x]
    <3>1. "SUCCEEDED" \in Phase \ {"ABSENT"}
      BY DEF Phase
    <3> QED
      BY <1>1, <1>4, <2>2, <3>1, PhaseKeeps
  <2>5. entry'.op = o
    BY <1>3, <2>4 DEF entry, SameCore
  <2>6. TypeOK'
    BY <1>1, <1>2, <1>4, <2>4 DEF IndInv, TypeOK, Location, SoundSnapshot
  <2>7. PipelineInv' /\ StagedInv'
    BY <1>4 DEF PipelineInv, StagedInv, Staging
  <2>8. EntryInv' /\ QueueInv'
    BY <1>1, <1>2, <1>3, <1>4, <2>4, <2>5 DEF IndInv, EntryInv, QueueInv, Staging, TypeOK
  <2>9. TraceInv'
    BY <1>1, <1>2, <1>4, <2>3, <2>4 DEF IndInv, TraceInv, TypeOK
  <2> QED
    BY <2>4, <2>6, <2>7, <2>8, <2>9 DEF IndInv
<1>5. ASSUME ~bothActive(mem, g), rollbackStaging(g), pc' = "fail", todo' = {}
      PROVE  IndInv'
  <2>1. \A p \in Purposes : mem.active[p].op # o
    <3> SUFFICES ASSUME NEW p \in Purposes, mem.active[p].op = o PROVE FALSE
      OBVIOUS
    <3>1. g = mem.gen
      BY <1>1 DEF SoundSnapshot, ActiveJournaledIn
    <3>2. \A q \in Purposes : mem.active[q].op = o /\ mem.active[q].gen = mem.gen
      BY <1>1 DEF SoundSnapshot, PairedIn, MarkedIn
    <3> QED
      BY <1>1, <1>5, <3>1, <3>2 DEF bothActive
  <2>2. /\ SoundSnapshot(mem') /\ SoundSnapshot(disk') /\ MemDiskInv'
        /\ \A x \in Ops : OnDisk(x) => OnDisk(x)'
        /\ SameCore(mem, mem') /\ mem'.journal = mem.journal
        /\ \A p \in Purposes : mem'.staging[p].op # o
    BY <1>1, <1>5, RollbackClears
  <2>3. entry'.op = o
    BY <1>3, <2>2 DEF entry
  <2>4. TypeOK'
    BY <1>1, <1>2, <1>5, <2>2 DEF IndInv, TypeOK, Location, SoundSnapshot
  <2>5. PipelineInv' /\ StagedInv'
    BY <1>5 DEF PipelineInv, StagedInv, Staging
  <2>6. EntryInv' /\ QueueInv'
    BY <1>1, <1>2, <1>3, <1>5, <2>1, <2>2, <2>3
       DEF IndInv, EntryInv, QueueInv, Staging, TypeOK, SameCore
  <2>7. TraceInv'
    BY <1>2, <1>5, <2>2 DEF IndInv, TraceInv, TypeOK
  <2> QED
    BY <2>2, <2>4, <2>5, <2>6, <2>7 DEF IndInv
<1> QED
  BY <1>4, <1>5 DEF recover_entry

\* A finished request is reported.
LEMMA ReportStep == ASSUME IndInv, NEW r \in Rids, report(r) PROVE IndInv'
<1>1. /\ mem' = mem /\ disk' = disk /\ ledger' = ledger /\ ledgerDisk' = ledgerDisk
      /\ pc' = pc /\ home' = home /\ cur' = cur /\ todo' = todo /\ queue' = queue
      /\ ready' = ready /\ shutting' = shutting /\ activated' = activated
      /\ blurred' = blurred
  BY DEF report, store, ledgers, control
<1>2. told' \in [Rids -> SUBSET {"COMMITTED", "FAILED"}]
  <2>1. \E result \in {"COMMITTED", "FAILED"} :
           told' \in {told, [told EXCEPT ![r] = @ \cup {result}]}
    BY DEF report, Tell
  <2> QED
    BY <2>1 DEF IndInv, TypeOK
<1>3. TypeOK'
  BY <1>1, <1>2 DEF IndInv, TypeOK
<1>4. PipelineInv' /\ StagedInv' /\ EntryInv' /\ QueueInv'
  BY <1>1 DEF IndInv, PipelineInv, StagedInv, EntryInv, QueueInv, Staging,
              validate_version, entry, rid
<1>5. MemDiskInv' /\ TraceInv'
  BY <1>1 DEF IndInv, MemDiskInv, TraceInv, OnDisk
<1> QED
  BY <1>1, <1>3, <1>4, <1>5 DEF IndInv

\* The daemon loads what is stored; nothing is dropped.
LEMMA InitializeStep == ASSUME IndInv, initialize PROVE IndInv'
<1>1. /\ mem' = disk /\ disk' = disk /\ SoundSnapshot(disk)
      /\ ledger' = ledgerDisk /\ ledgerDisk' = ledgerDisk
      /\ pc' = "boot" /\ home' = home /\ cur' = cur /\ todo' = todo
      /\ queue' = {r \in Rids : disk.journal[r].phase \notin TerminalPhase}
      /\ ready' = ready /\ shutting' = shutting /\ told' = told /\ activated' = activated
      /\ blurred' = blurred
  BY LoadKeepsSound DEF initialize, openEntries, IndInv
<1>2. TypeOK'
  BY <1>1 DEF IndInv, TypeOK, Location
<1>3. PipelineInv' /\ StagedInv' /\ EntryInv' /\ QueueInv'
  BY <1>1 DEF PipelineInv, StagedInv, EntryInv, QueueInv, Staging
<1>4. MemDiskInv' /\ TraceInv'
  BY <1>1 DEF IndInv, MemDiskInv, TraceInv, OnDisk
<1> QED
  BY <1>1, <1>2, <1>3, <1>4 DEF IndInv

\* Recovery is complete and the daemon serves.
LEMMA FinishInitializeStep == ASSUME IndInv, finishInitialize PROVE IndInv'
<1>1. /\ pc = "boot" /\ queue = {}
      /\ mem' = mem /\ disk' = disk /\ ledger' = ledger /\ ledgerDisk' = ledgerDisk
      /\ pc' = "idle" /\ home' = home /\ cur' = cur /\ todo' = todo /\ queue' = queue
      /\ ready' \in BOOLEAN /\ shutting' = shutting /\ told' = told
      /\ activated' = activated /\ blurred' = blurred
  BY DEF finishInitialize, store, ledgers
<1>2. TypeOK'
  BY <1>1 DEF IndInv, TypeOK, Location
<1>3. PipelineInv' /\ StagedInv' /\ EntryInv' /\ QueueInv'
  BY <1>1 DEF PipelineInv, StagedInv, EntryInv, QueueInv, Staging
<1>4. MemDiskInv' /\ TraceInv'
  BY <1>1 DEF IndInv, MemDiskInv, TraceInv, OnDisk
<1> QED
  BY <1>1, <1>2, <1>3, <1>4 DEF IndInv

\* Shutdown is announced, or nothing changes at all.
LEMMA ShutdownStep ==
  ASSUME IndInv, beginShutdown \/ UNCHANGED vars
  PROVE  IndInv'
<1>1. /\ mem' = mem /\ disk' = disk /\ ledger' = ledger /\ ledgerDisk' = ledgerDisk
      /\ pc' = pc /\ home' = home /\ cur' = cur /\ todo' = todo /\ queue' = queue
      /\ ready' = ready /\ told' = told /\ activated' = activated /\ blurred' = blurred
      /\ shutting' \in {TRUE, shutting}
  BY DEF beginShutdown, vars, store, ledgers, control
<1>2. TypeOK'
  BY <1>1 DEF IndInv, TypeOK
<1>3. PipelineInv' /\ StagedInv' /\ EntryInv' /\ QueueInv'
  BY <1>1 DEF IndInv, PipelineInv, StagedInv, EntryInv, QueueInv, Staging,
              validate_version, entry, rid
<1>4. MemDiskInv' /\ TraceInv'
  BY <1>1 DEF IndInv, MemDiskInv, TraceInv, OnDisk
<1> QED
  BY <1>1, <1>2, <1>3, <1>4 DEF IndInv

\* Everything in memory is lost.
LEMMA CrashStep == ASSUME IndInv, crash PROVE IndInv'
<1>1. /\ mem' = EmptySnapshot /\ disk' = disk /\ ledger' = NoLedger
      /\ ledgerDisk' = ledgerDisk /\ pc' = "down" /\ home' = "idle" /\ cur' = None
      /\ todo' = {} /\ queue' = {} /\ ready' = FALSE /\ shutting' = FALSE
      /\ told' = told /\ activated' = activated /\ blurred' = blurred
  BY DEF crash
<1>2. SoundSnapshot(mem') /\ SoundSnapshot(disk')
  BY <1>1, EmptySound DEF IndInv
<1>3. TypeOK'
  BY <1>1, <1>2 DEF IndInv, TypeOK, Location, SoundSnapshot, NoLedger
<1>4. PipelineInv' /\ StagedInv' /\ EntryInv' /\ QueueInv' /\ MemDiskInv'
  BY <1>1 DEF PipelineInv, StagedInv, EntryInv, QueueInv, MemDiskInv, Staging
<1>5. TraceInv'
  BY <1>1 DEF IndInv, TraceInv, OnDisk, NoLedger
<1> QED
  BY <1>2, <1>3, <1>4, <1>5 DEF IndInv

\* Every step of the service, of a client and of the environment keeps the
\* inductive invariant, as long as journal lookups find the Store readable: a
\* lookup that does not lets legacy import overwrite an entry.
LEMMA NextIndInv ==
  ASSUME ~LookupMayFail
  PROVE  IndInv /\ [Next]_vars => IndInv'
<1> SUFFICES ASSUME IndInv, [Next]_vars PROVE IndInv'
  OBVIOUS
<1>1. ASSUME NEW p \in Purposes, unwrapToStaging(p) \/ putLedger(p) PROVE IndInv'
  BY <1>1, UnwrapStep, PutLedgerStep
<1>2. CASE noteStaged \/ noteBothStaged \/ verifyStaging \/ commitBatch \/ attest
  BY <1>2, NoteStagedStep, NoteBothStagedStep, VerifyStep, CommitStep, AttestStep
<1>3. CASE noteUnknown \/ rollback \/ noteFailed
  BY <1>3, NoteUnknownStep, RollbackStep, NoteFailedStep
<1>4. ASSUME NEW r \in Rids, recover_on_startup(r) PROVE IndInv'
  <2>1. /\ pc = "boot" /\ r \in queue /\ queue' = queue \ {r} /\ home' = "boot"
        /\ recover_entry(r)
    BY <1>4 DEF recover_on_startup
  <2>2. mem.journal[r].phase \notin TerminalPhase
    BY <2>1 DEF IndInv, QueueInv
  <2> QED
    BY <2>1, <2>2, RecoverEntryStep
<1>5. ASSUME NEW o \in Ops, import(o) \/ importKl1(o) PROVE IndInv'
  <2>1. mem.journal[RidOf[o]].op = None
    BY <1>5 DEF import, importKl1, IndInv, SoundSnapshot, JournalKeyedIn
  <2> QED
    BY <1>5, <2>1, StartPipelineStep DEF import, importKl1, Serving
<1>6. ASSUME NEW o \in Ops, resume(o) PROVE IndInv'
  <2>1. /\ pc = "idle" /\ queue' = queue /\ home' = "idle" /\ RidOf[o] \in Rids
        /\ recover_entry(RidOf[o])
        /\ mem.journal[RidOf[o]].phase \notin TerminalPhase
    BY <1>6 DEF resume, Serving
  <2>2. queue = {}
    BY <2>1 DEF IndInv, QueueInv
  <2> QED
    BY <2>1, <2>2, RecoverEntryStep
<1>7. ASSUME NEW r \in Rids, report(r) PROVE IndInv'
  BY <1>7, ReportStep
<1>8. CASE finishInitialize \/ initialize \/ crash
  BY <1>8, FinishInitializeStep, InitializeStep, CrashStep
<1>9. CASE beginShutdown \/ UNCHANGED vars
  BY <1>9, ShutdownStep
<1> QED
  BY <1>1, <1>2, <1>3, <1>4, <1>5, <1>6, <1>7, <1>8, <1>9 DEF Next, ServiceStep

-----------------------------------------------------------------------------
\* The invariant itself, for every set of operations and every fault.
THEOREM InvariantHolds == ASSUME ~LookupMayFail PROVE Spec => []IndInv
BY InitIndInv, NextIndInv, PTL DEF Spec

\* Every variable of the service keeps its type.
THEOREM TypeCorrect == ASSUME ~LookupMayFail PROVE Spec => []TypeOK
<1>1. IndInv => TypeOK
  BY DEF IndInv
<1> QED
  BY <1>1, InvariantHolds, PTL

\* Dual-purpose atomicity: crashes, failing writes, retries and recoveries
\* never leave a single-purpose or mixed ACTIVE set, in memory or on disk
\* (commitBatch, recover_entry).
THEOREM DualPurposeAtomicity == ASSUME ~LookupMayFail PROVE Spec => []ActivePairAtomic
<1>1. IndInv => ActivePairAtomic
  BY DEF IndInv, SoundSnapshot, ActivePairAtomic
<1> QED
  BY <1>1, InvariantHolds, PTL

\* The commit marker beside the ACTIVE slots always verifies, so initialize()
\* never drops good keys.
THEOREM MarkerAlwaysVerifies == ASSUME ~LookupMayFail PROVE Spec => []MarkerVerifies
<1>1. IndInv => MarkerVerifies
  BY DEF IndInv, SoundSnapshot, MarkerVerifies
<1> QED
  BY <1>1, InvariantHolds, PTL

\* The request whose keys are ACTIVE is never journaled as failed.
THEOREM ActiveIsNeverFailed == ASSUME ~LookupMayFail PROVE Spec => []ActiveNeverFailed
<1>1. IndInv => ActiveNeverFailed
  BY DEF IndInv, SoundSnapshot, ActiveNeverFailed
<1> QED
  BY <1>1, InvariantHolds, PTL

\* Staged keys belong to a request that is still open, in its own generation.
THEOREM StagingIsOwned == ASSUME ~LookupMayFail PROVE Spec => []StagingHasOpenOwner
<1>1. IndInv => StagingHasOpenOwner
  BY DEF IndInv, SoundSnapshot, StagingHasOpenOwner
<1> QED
  BY <1>1, InvariantHolds, PTL

\* A request id without a journal entry has left no trace in slots, staging or
\* ledger: what the NOT_FOUND answer of getImportResult rests on.
THEOREM NotFoundIsSound == ASSUME ~LookupMayFail PROVE Spec => []NoTraceWithoutJournal
<1>1. ASSUME IndInv, pc # "down", NEW o \in Ops, OnDisk(o)
      PROVE  Journaled(o)
  BY <1>1 DEF IndInv, MemDiskInv, OnDisk, Journaled
<1>2. ASSUME IndInv PROVE NoTraceWithoutJournal
  <2> SUFFICES ASSUME pc # "down" PROVE NoTraceWithoutJournal
    BY DEF NoTraceWithoutJournal
  <2>1. \A o \in activated : Journaled(o)
    <3>1. \A o \in activated : o \in Ops /\ OnDisk(o)
      BY SMTT(30), <1>2 DEF IndInv, TraceInv, TypeOK
    <3> QED
      BY <1>1, <1>2, <3>1
  <2>2. \A p \in Purposes :
          /\ mem.active[p].op # None => Journaled(mem.active[p].op)
          /\ mem.staging[p].op # None => Journaled(mem.staging[p].op)
    <3>1. ActiveJournaledIn(mem) /\ StagingOwnedIn(mem)
      BY <1>2 DEF IndInv, SoundSnapshot
    <3> QED
      BY <3>1 DEF ActiveJournaledIn, StagingOwnedIn, Journaled
  <2>3. \A p \in Purposes :
          /\ disk.active[p].op # None => Journaled(disk.active[p].op)
          /\ disk.staging[p].op # None => Journaled(disk.staging[p].op)
    <3>1. \A p \in Purposes : /\ disk.active[p].op \in Ops \cup {None}
                              /\ disk.staging[p].op \in Ops \cup {None}
      BY <1>2 DEF IndInv, SoundSnapshot, Snapshot, Slot
    <3>2. ActiveJournaledIn(disk) /\ StagingOwnedIn(disk)
      BY <1>2 DEF IndInv, SoundSnapshot
    <3>3. \A p \in Purposes : /\ disk.active[p].op # None => OnDisk(disk.active[p].op)
                              /\ disk.staging[p].op # None => OnDisk(disk.staging[p].op)
      BY <3>2 DEF ActiveJournaledIn, StagingOwnedIn, OnDisk
    <3> QED
      BY <1>1, <1>2, <3>1, <3>3
  <2>4. \A p \in Purposes :
          /\ ledger[p] # None => Journaled(ledger[p])
          /\ ledgerDisk[p] # None => Journaled(ledgerDisk[p])
    <3>1. \A p \in Purposes : /\ ledger[p] # None => ledger[p] \in Ops /\ OnDisk(ledger[p])
                              /\ ledgerDisk[p] # None =>
                                   ledgerDisk[p] \in Ops /\ OnDisk(ledgerDisk[p])
      BY <1>2 DEF IndInv, TraceInv, TypeOK
    <3> QED
      BY <1>1, <1>2, <3>1
  <2> QED
    BY <2>1, <2>2, <2>3, <2>4 DEF NoTraceWithoutJournal
<1> QED
  BY <1>2, InvariantHolds, PTL

\* A step that keeps the slots in memory and does not take the daemon down or
\* up keeps the keys in force.
LEMMA ForceKept ==
  ASSUME pc # "down", pc' # "down", mem'.active = mem.active
  PROVE  inForce' = inForce
BY DEF inForce

\* Keys in force are only replaced by newer ones and never lost: validate_version
\* holds from admission to commitBatch, a failed commit and a rollback keep the
\* slots, and what a crash falls back to is what memory had or newer.
THEOREM KeysNeverRegress == ASSUME ~LookupMayFail PROVE Spec => KeysOnlyAdvance
<1> DEFINE Advance ==
      \A p \in Purposes : inForce[p].op # None =>
        \/ inForce'[p] = inForce[p]
        \/ /\ inForce'[p].op # None
           /\ Ver[inForce'[p].op][p] > Ver[inForce[p].op][p]
<1>1. ASSUME IndInv, [Next]_vars PROVE Advance
  <2> USE <1>1
  <2>0. SoundSnapshot(mem) /\ mem \in Snapshot
    BY DEF IndInv, SoundSnapshot
  <2>1. CASE inForce' = inForce
    BY <2>1
  <2>2. ASSUME NEW t, NEW out, save_state(t, out), pc # "down", pc' # "down",
               t.active = mem.active
        PROVE  Advance
    BY <2>2, <2>1, ForceKept DEF save_state
  <2>3. ASSUME NEW p \in Purposes, unwrapToStaging(p) PROVE Advance
    <3>1. pc # "down" /\ pc' # "down"
      BY <2>3 DEF unwrapToStaging
    <3>2. mem'.active = mem.active
      <4>1. stageSlot(mem, p, cur, entry.gen).active = mem.active
        BY <2>0 DEF stageSlot, Snapshot
      <4> QED
        BY <2>3, <4>1 DEF unwrapToStaging, store, save_state
    <3> QED
      BY <2>1, <3>1, <3>2, ForceKept
  <2>4. ASSUME NEW ph, saveJournal(ph), pc # "down", pc' # "down" PROVE Advance
    <3>1. \A r : setPhase(mem, r, ph).active = mem.active
      BY <2>0 DEF setPhase, Snapshot
    <3> QED
      BY <2>2, <2>4, <3>1 DEF saveJournal
  <2>5. CASE noteStaged \/ noteBothStaged \/ noteUnknown \/ noteFailed
    <3>1. pc # "down" /\ pc' # "down"
      BY <2>5 DEF noteStaged, noteBothStaged, noteUnknown, noteFailed, Goto, Return,
                  IndInv, TypeOK
    <3> QED
      BY <2>4, <2>5, <3>1 DEF noteStaged, noteBothStaged, noteUnknown, noteFailed
  <2>6. CASE verifyStaging
    <3>1. pc # "down" /\ pc' # "down"
      BY <2>6 DEF verifyStaging, Goto
    <3> QED
      BY <2>1, <2>4, <2>6, <3>1, ForceKept DEF verifyStaging, store
  <2>7. CASE commitBatch
    <3>1. /\ pc = "commit" /\ pc' # "down" /\ validate_version(cur) /\ cur \in Ops
          /\ \A p \in Purposes : mem.staging[p].op = cur
      BY <2>7 DEF commitBatch, Goto, IndInv, PipelineInv, StagedInv, EntryInv, Staging
    <3>2. CASE mem' = mem \/ mem' = clearStaging(mem)
      <4>1. mem'.active = mem.active
        BY <2>0, <3>2, StagingFields DEF SameCore
      <4> QED
        BY <2>1, <3>1, <4>1, ForceKept
    <3>3. CASE mem' = committed(mem, entry.gen)
      <4>1. mem'.active = mem.staging
        BY <2>0, <3>3 DEF committed, Snapshot
      <4>2. inForce = mem.active /\ inForce' = mem.staging
        BY <3>1, <4>1 DEF inForce
      <4> QED
        BY <3>1, <4>2 DEF validate_version
    <3> QED
      BY <2>7, <3>2, <3>3 DEF commitBatch, store, commitUndone
  <2>8. CASE attest
    <3>1. pc # "down" /\ pc' # "down"
      BY <2>8 DEF attest, Return, IndInv, TypeOK
    <3>2. \A e : putJournal(mem, rid, e).active = mem.active
      BY <2>0 DEF putJournal, Snapshot
    <3> QED
      BY <2>2, <2>4, <2>8, <3>1, <3>2 DEF attest
  <2>9. ASSUME NEW g, rollbackStaging(g) PROVE mem'.active = mem.active
    BY <2>0, <2>9, StagingFields DEF rollbackStaging, store, save_state, SameCore
  <2>10. CASE rollback
    <3>1. pc # "down" /\ pc' # "down" /\ mem'.active = mem.active
      BY <2>9, <2>10 DEF rollback, Goto
    <3> QED
      BY <2>1, <3>1, ForceKept
  <2>11. ASSUME NEW r \in Rids, recover_entry(r), pc # "down" PROVE Advance
    <3>1. setPhase(mem, r, "SUCCEEDED").active = mem.active
      BY <2>0 DEF setPhase, Snapshot
    <3>2. pc' # "down" /\ mem'.active = mem.active
      BY <2>9, <2>11, <3>1 DEF recover_entry, save_state
    <3> QED
      BY <2>1, <2>11, <3>2, ForceKept
  <2>12. ASSUME NEW o \in Ops, import(o) \/ importKl1(o) PROVE Advance
    <3>1. pc # "down" /\ pc' # "down" /\ startPipeline(o)
      BY <2>12 DEF import, importKl1, Serving, startPipeline
    <3>2. \A r, e : putJournal(mem, r, e).active = mem.active
      BY <2>0 DEF putJournal, Snapshot
    <3> QED
      BY <2>2, <3>1, <3>2 DEF startPipeline
  <2>13. ASSUME NEW p \in Purposes, putLedger(p) PROVE Advance
    <3>1. pc # "down" /\ pc' # "down" /\ mem' = mem
      BY <2>13 DEF putLedger, Return, store, IndInv, TypeOK
    <3> QED
      BY <2>1, <3>1, ForceKept
  <2>14. CASE \/ \E r \in Rids : report(r)
              \/ finishInitialize \/ beginShutdown \/ UNCHANGED vars
    <3>1. /\ mem' = mem /\ disk' = disk
          /\ pc' = "down" <=> pc = "down"
      BY <2>14 DEF report, finishInitialize, beginShutdown, vars, store, control
    <3> QED
      BY <2>1, <3>1 DEF inForce
  <2>15. CASE initialize
    <3>1. pc = "down" /\ pc' = "boot" /\ mem' = disk
      BY <2>15, LoadKeepsSound DEF initialize, IndInv
    <3> QED
      BY <2>1, <3>1 DEF inForce
  <2>16. CASE crash
    <3>1. pc # "down" /\ pc' = "down" /\ disk' = disk
      BY <2>16 DEF crash
    <3>2. inForce = mem.active /\ inForce' = disk.active
      BY <3>1 DEF inForce
    <3> QED
      BY <3>1, <3>2 DEF IndInv, MemDiskInv
  <2>17. ASSUME NEW r \in Rids, recover_on_startup(r) PROVE Advance
    BY <2>11, <2>17 DEF recover_on_startup
  <2>18. ASSUME NEW o \in Ops, resume(o) PROVE Advance
    BY <2>11, <2>18 DEF resume, Serving
  <2> HIDE DEF Advance
  <2> QED
    BY <2>3, <2>5, <2>6, <2>7, <2>8, <2>10, <2>12, <2>13, <2>14, <2>15, <2>16,
       <2>17, <2>18
       DEF Next, ServiceStep
<1>2. IndInv /\ [Next]_vars => [Advance]_vars
  BY <1>1
<1> HIDE DEF Advance
<1>3. Spec => [][Advance]_vars
  BY <1>2, InvariantHolds, PTL DEF Spec
<1> QED
  BY <1>3 DEF KeysOnlyAdvance, Advance

-----------------------------------------------------------------------------
(***************************************************************************)
(* Replies are never contradicted: ReplyInv                              *)
(***************************************************************************)

\* Memory, disk and the answers given agree.
Agreed == IndInv /\ VerdictInv /\ ToldInv /\ QuietInv /\ StageInv

\* What every write but the committing one does to the journal and the slots:
\* it rewrites the phase of one entry, in memory and perhaps on disk.
Rewrites(r, ph) ==
  /\ disk' \in {mem', disk}
  /\ mem'.active = mem.active
  /\ mem'.journal[r].phase = ph
  /\ mem'.journal[r].gen = mem.journal[r].gen
  /\ \A x \in Rids \ {r} : mem'.journal[x] = mem.journal[x]

\* setPhase is such a write.
LEMMA PhaseRewrites ==
  ASSUME mem \in Snapshot, NEW r \in Rids, NEW ph, NEW out,
         save_state(setPhase(mem, r, ph), out)
  PROVE  Rewrites(r, ph)
<1>1. mem' = setPhase(mem, r, ph) /\ disk' \in {mem', disk}
  BY DEF save_state
<1>2. mem.journal[r] \in Entry
  BY DEF Snapshot
<1>3. [mem.journal[r] EXCEPT !.phase = ph].phase = ph
      /\ [mem.journal[r] EXCEPT !.phase = ph].gen = mem.journal[r].gen
  BY <1>2 DEF Entry
<1>4. mem'.journal = [mem.journal EXCEPT ![r] = [mem.journal[r] EXCEPT !.phase = ph]]
      /\ mem'.active = mem.active
  BY <1>1 DEF setPhase, Snapshot
<1>5. mem.journal \in [Rids -> Entry]
  BY DEF Snapshot
<1> QED
  BY <1>1, <1>3, <1>4, <1>5 DEF Rewrites

\* A write that keeps the slots' keys and the journal is one too.
LEMMA StagingRewrites ==
  ASSUME mem' \in {mem, clearStaging(mem)}, disk' \in {mem', disk}, mem \in Snapshot,
         NEW r \in Rids
  PROVE  Rewrites(r, mem.journal[r].phase) /\ mem'.journal = mem.journal
<1>1. mem'.journal = mem.journal /\ mem'.active = mem.active
  BY StagingFields DEF SameCore
<1> QED
  BY <1>1 DEF Rewrites

\* Such a write changes no verdict when the new phase agrees with the verdict
\* so far: a crash before or after it makes no difference to any client.
LEMMA VerdictsKept ==
  ASSUME Agreed, pc # "down", NEW r \in Rids, NEW ph, Rewrites(r, ph),
         \/ ph = mem.journal[r].phase
         \/ ph \notin TerminalPhase /\ mem.journal[r].phase \notin TerminalPhase
         \/ ph = "SUCCEEDED" /\ CommittedIn(mem, r)
         \/ ph = "FAILED" /\ ~CommittedIn(mem, r)
  PROVE  /\ VerdictInv'
         /\ \A x \in Rids : /\ CommittedIn(mem', x) <=> CommittedIn(mem, x)
                            /\ CommittedIn(disk', x) <=> CommittedIn(disk, x)
<1>1. \A x \in Rids : CommittedIn(mem', x) <=> CommittedIn(mem, x)
  <2>1. CommittedIn(mem', r) <=> CommittedIn(mem, r)
    BY DEF Rewrites, CommittedIn, bothActive, TerminalPhase
  <2>2. \A x \in Rids \ {r} : CommittedIn(mem', x) <=> CommittedIn(mem, x)
    BY DEF Rewrites, CommittedIn, bothActive
  <2> QED
    BY <2>1, <2>2
<1>2. \A x \in Rids : CommittedIn(mem, x) <=> CommittedIn(disk, x)
  BY DEF Agreed, VerdictInv
<1>3. disk' = mem' \/ disk' = disk
  BY DEF Rewrites
<1>4. \A x \in Rids : CommittedIn(disk', x) <=> CommittedIn(disk, x)
  BY <1>1, <1>2, <1>3
<1>5. \A x \in Rids : CommittedIn(mem', x) <=> CommittedIn(disk', x)
  BY <1>1, <1>2, <1>4
<1> QED
  BY <1>1, <1>4, <1>5 DEF VerdictInv

\* Outside recovery and reporting nobody was given a final answer for a request
\* that is open: in particular not for the one that is being imported.
LEMMA Settled ==
  ASSUME Agreed, pc \notin {"down", "boot", "ledger", "fail"}, NEW x \in Rids,
         told[x] # {}
  PROVE  mem.journal[x].phase \in TerminalPhase
BY DEF Agreed, QuietInv, IndInv, QueueInv

\* The steps of a request that leave it open.
LEMMA OpenStays ==
  ASSUME Agreed, pc \in Staging \cup {"rollback", "unknown", "attest"}, NEW ph,
         Rewrites(rid, ph), ph \notin TerminalPhase, told' = told
  PROVE  VerdictInv' /\ ToldInv' /\ QuietInv'
<1>1. cur \in Ops /\ rid \in Rids /\ mem.journal[rid].phase \notin TerminalPhase
  <2>1. cur \in Ops /\ entry.phase \notin TerminalPhase
    BY DEF Agreed, StageInv, IndInv, EntryInv, Staging
  <2> QED
    BY <2>1 DEF entry, rid
<1>2. pc \notin {"down", "boot", "ledger", "fail"}
  BY DEF Staging
<1>3. /\ VerdictInv'
      /\ \A x \in Rids : CommittedIn(disk', x) <=> CommittedIn(disk, x)
  BY <1>1, <1>2, VerdictsKept
<1>4. ToldInv'
  BY <1>3 DEF Agreed, ToldInv
<1>5. \A x \in Rids : told'[x] # {} => mem'.journal[x].phase \in TerminalPhase
  <2> SUFFICES ASSUME NEW x \in Rids, told[x] # {}
               PROVE  mem'.journal[x].phase \in TerminalPhase
    OBVIOUS
  <2>1. mem.journal[x].phase \in TerminalPhase
    BY <1>2, Settled
  <2>2. x # rid
    BY <1>1, <2>1
  <2> QED
    BY <2>1, <2>2 DEF Rewrites
<1> QED
  BY <1>3, <1>4, <1>5 DEF QuietInv

\* A purpose is unwrapped into staging, or fails to be.
LEMMA UnwrapReply ==
  ASSUME Agreed, NEW p \in Purposes, unwrapToStaging(p)
  PROVE  VerdictInv' /\ ToldInv' /\ QuietInv' /\ StageInv'
<1>1. /\ pc = "unwrap" /\ pc' \in {"rollback", "unknown", "note"} /\ told' = told
      /\ mem \in Snapshot /\ cur \in Ops /\ rid \in Rids /\ entry.phase \notin TerminalPhase
  BY DEF unwrapToStaging, Agreed, IndInv, SoundSnapshot, EntryInv, Staging, rid
<1>2. Rewrites(rid, entry.phase)
  <2>1. \/ mem' = mem /\ disk' = disk
        \/ mem' = stageSlot(mem, p, cur, entry.gen) /\ disk' \in {mem', disk}
    BY DEF unwrapToStaging, store, save_state
  <2>2. LET t == stageSlot(mem, p, cur, entry.gen)
        IN  t.active = mem.active /\ t.journal = mem.journal
    BY <1>1 DEF stageSlot, Snapshot
  <2>3. mem'.active = mem.active /\ mem'.journal = mem.journal /\ disk' \in {mem', disk}
    BY <2>1, <2>2
  <2> QED
    BY <2>3 DEF Rewrites, entry
<1>3. VerdictInv' /\ ToldInv' /\ QuietInv'
  BY <1>1, <1>2, OpenStays DEF Staging
<1>4. StageInv'
  BY <1>1 DEF StageInv
<1> QED
  BY <1>3, <1>4

\* The journal writes that leave the request open.
LEMMA NoteReply ==
  ASSUME Agreed, NEW ph \in Phase \ TerminalPhase, saveJournal(ph),
         pc \in Staging \cup {"unknown", "attest"}, told' = told,
         pc' \notin {"ledger", "attest", "fail"}
  PROVE  VerdictInv' /\ ToldInv' /\ QuietInv' /\ StageInv'
<1>1. mem \in Snapshot /\ cur \in Ops /\ rid \in Rids
  BY DEF Agreed, IndInv, SoundSnapshot, EntryInv, Staging, rid
<1>2. Rewrites(rid, ph)
  BY <1>1, PhaseRewrites DEF saveJournal
<1>3. VerdictInv' /\ ToldInv' /\ QuietInv'
  BY <1>2, OpenStays
<1>4. StageInv'
  BY DEF StageInv
<1> QED
  BY <1>3, <1>4

\* The staged purposes are noted, verified, or left undecided.
LEMMA NotesReply ==
  ASSUME Agreed, noteStaged \/ noteBothStaged \/ verifyStaging \/ noteUnknown
  PROVE  VerdictInv' /\ ToldInv' /\ QuietInv' /\ StageInv'
<1>1. mem \in Snapshot /\ home \in {"boot", "idle"}
  BY DEF Agreed, IndInv, TypeOK
<1>2. {"PROCESSING", "UPLINK_STAGED", "BOTH_STAGED", "COMMITTING", "OUTCOME_UNKNOWN"}
        \subseteq Phase \ TerminalPhase
  BY DEF Phase, TerminalPhase
<1>3. CASE noteStaged
  <2>1. \E ph \in {"PROCESSING", "UPLINK_STAGED"} : saveJournal(ph)
    BY <1>3 DEF noteStaged
  <2>2. pc = "note" /\ told' = told /\ pc' \in {"both", "unwrap"}
    BY <1>3 DEF noteStaged, Goto
  <2> QED
    BY <1>2, <2>1, <2>2, NoteReply DEF Staging
<1>4. CASE noteBothStaged
  <2>1. saveJournal("BOTH_STAGED") /\ pc = "both" /\ told' = told /\ pc' = "verify"
    BY <1>4 DEF noteBothStaged, Goto
  <2> QED
    BY <1>2, <2>1, NoteReply DEF Staging
<1>5. CASE verifyStaging /\ saveJournal("COMMITTING") /\ pc' = "commit"
  <2>1. pc = "verify" /\ told' = told
    BY <1>5 DEF verifyStaging
  <2> QED
    BY <1>2, <1>5, <2>1, NoteReply DEF Staging
<1>6. CASE verifyStaging /\ UNCHANGED store /\ pc' = "rollback"
  <2>1. /\ pc = "verify" /\ told' = told /\ mem' = mem /\ disk' = disk
        /\ cur \in Ops /\ rid \in Rids /\ entry.phase \notin TerminalPhase
    BY <1>6 DEF verifyStaging, store, Agreed, IndInv, EntryInv, Staging, rid
  <2>2. Rewrites(rid, entry.phase)
    BY <1>1, <2>1, StagingRewrites DEF entry
  <2>3. VerdictInv' /\ ToldInv' /\ QuietInv'
    BY <2>1, <2>2, OpenStays DEF Staging
  <2> QED
    BY <1>6, <2>3 DEF StageInv
<1>7. CASE noteUnknown
  <2>1. saveJournal("OUTCOME_UNKNOWN") /\ pc = "unknown" /\ told' = told /\ pc' = home
    BY <1>7 DEF noteUnknown, Return
  <2> QED
    BY <1>1, <1>2, <2>1, NoteReply
<1> QED
  BY <1>3, <1>4, <1>5, <1>6, <1>7 DEF verifyStaging, Goto

\* The staging area is rolled back; the entry is still open and not committed.
LEMMA RollbackReply ==
  ASSUME Agreed, rollback
  PROVE  VerdictInv' /\ ToldInv' /\ QuietInv' /\ StageInv'
<1>1. /\ pc = "rollback" /\ pc' = "fail" /\ told' = told /\ cur' = cur
      /\ mem \in Snapshot /\ SoundSnapshot(mem) /\ cur \in Ops /\ rid \in Rids
      /\ entry.phase \notin TerminalPhase /\ entry.gen = mem.gen + 1
  BY DEF rollback, Goto, Agreed, IndInv, SoundSnapshot, EntryInv, PipelineInv, rid
<1>2. mem' \in {mem, clearStaging(mem)} /\ disk' \in {mem', disk}
  BY DEF rollback, rollbackStaging, store, save_state
<1>3. Rewrites(rid, entry.phase) /\ mem'.journal = mem.journal
  BY <1>1, <1>2, StagingRewrites DEF entry
<1>4. VerdictInv' /\ ToldInv' /\ QuietInv'
  BY <1>1, <1>3, OpenStays
<1>5. ~CommittedIn(mem, rid)
  <2>1. mem.gen \in Nat /\ mem.active[Uplink].gen = mem.gen
    BY <1>1 DEF Snapshot, SoundSnapshot, MarkedIn
  <2>2. ~bothActive(mem, entry.gen)
    BY <1>1, <2>1 DEF bothActive
  <2> QED
    BY <1>1, <2>2 DEF CommittedIn, entry, TerminalPhase
<1>6. rid' = rid /\ entry' = entry
  BY <1>1, <1>3 DEF rid, entry
<1>7. ~CommittedIn(mem', rid)
  BY <1>3, <1>5 DEF CommittedIn, bothActive, Rewrites
<1>8. StageInv'
  BY <1>1, <1>6, <1>7 DEF StageInv
<1> QED
  BY <1>4, <1>8

\* The commit decides the request at hand, of which nobody was told anything;
\* every request somebody was told of is decided already.
LEMMA CommitReply ==
  ASSUME Agreed, commitBatch, ~blurred'
  PROVE  VerdictInv' /\ ToldInv' /\ QuietInv' /\ StageInv'
<1>1. /\ pc = "commit" /\ told' = told /\ cur' = cur
      /\ mem \in Snapshot /\ cur \in Ops /\ rid \in Rids
      /\ entry.phase \notin TerminalPhase
  BY DEF commitBatch, Goto, Agreed, IndInv, SoundSnapshot, EntryInv, Staging, rid
<1> DEFINE t == committed(mem, entry.gen)
<1>2. \/ mem' \in {mem, clearStaging(mem)} /\ disk' = disk /\ pc' \in {"unknown", "rollback"}
      \/ mem' = t /\ disk' = t /\ pc' = "attest" /\ commitReady(mem, entry.gen)
  BY DEF commitBatch, Goto, store, Written, is_outcome_unknown, commitUndone
<1>3. t.journal = mem.journal /\ t.active = mem.staging
  BY <1>1 DEF committed, Snapshot
<1> HIDE DEF t
<1>4. CASE mem' \in {mem, clearStaging(mem)} /\ disk' = disk /\ pc' \in {"unknown", "rollback"}
  <2>1. Rewrites(rid, entry.phase)
    BY <1>1, <1>4, StagingRewrites DEF entry
  <2>2. VerdictInv' /\ ToldInv' /\ QuietInv'
    BY <1>1, <2>1, OpenStays DEF Staging
  <2> QED
    BY <1>4, <2>2 DEF StageInv
<1>5. CASE mem' = t /\ disk' = t /\ pc' = "attest" /\ commitReady(mem, entry.gen)
  <2>1. VerdictInv'
    BY <1>5 DEF VerdictInv
  <2>2. \A x \in Rids : told[x] # {} => mem.journal[x].phase \in TerminalPhase
    BY <1>1, Settled
  <2>3. QuietInv'
    BY <1>1, <1>3, <1>5, <2>2 DEF QuietInv
  <2>4. ToldInv'
    <3>1. ASSUME NEW x \in Rids, told[x] # {}
          PROVE  CommittedIn(t, x) <=> CommittedIn(disk, x)
      <4>1. CommittedIn(t, x) <=> CommittedIn(mem, x)
        BY <1>3, <2>2, <3>1 DEF CommittedIn
      <4> QED
        BY <1>1, <4>1 DEF Agreed, VerdictInv
    <3> QED
      BY <1>1, <1>5, <3>1 DEF Agreed, ToldInv
  <2>5. StageInv'
    <3>1. bothActive(t, entry.gen)
      BY <1>3, <1>5 DEF bothActive, commitReady
    <3>2. rid' = rid /\ entry' = entry
      BY <1>1, <1>3, <1>5 DEF rid, entry
    <3>3. CommittedIn(mem', rid)
      BY <1>1, <1>3, <1>5, <3>1 DEF CommittedIn, entry
    <3> QED
      BY <1>1, <1>5, <3>2, <3>3 DEF StageInv
  <2> QED
    BY <2>1, <2>3, <2>4, <2>5
<1> QED
  BY <1>2, <1>4, <1>5

\* The request is finished as committed, or left undecided.
LEMMA AttestReply ==
  ASSUME Agreed, attest
  PROVE  VerdictInv' /\ ToldInv' /\ QuietInv' /\ StageInv'
<1>1. /\ pc = "attest" /\ told' = told /\ home \in {"boot", "idle"}
      /\ mem \in Snapshot /\ cur \in Ops /\ rid \in Rids /\ CommittedIn(mem, rid)
  BY DEF attest, Agreed, IndInv, TypeOK, EntryInv, StageInv, rid
<1>2. ASSUME NEW out \in SaveOutcomes,
             save_state(putJournal(mem, rid,
               [entry EXCEPT !.phase = "SUCCEEDED", !.proof = TRUE]), out),
             pc' = "ledger", cur' = cur
      PROVE  VerdictInv' /\ ToldInv' /\ QuietInv' /\ StageInv'
  <2> DEFINE e == [entry EXCEPT !.phase = "SUCCEEDED", !.proof = TRUE]
  <2>1. e.phase = "SUCCEEDED" /\ e.gen = entry.gen
    <3>1. entry \in Entry
      BY <1>1 DEF entry, Snapshot
    <3> QED
      BY <3>1 DEF Entry
  <2>2. mem' = putJournal(mem, rid, e) /\ disk' \in {mem', disk}
    BY <1>2 DEF save_state
  <2> HIDE DEF e
  <2>3. Rewrites(rid, "SUCCEEDED")
    BY <1>1, <2>1, <2>2 DEF Rewrites, putJournal, Snapshot, entry
  <2>4. /\ VerdictInv'
        /\ \A x \in Rids : CommittedIn(disk', x) <=> CommittedIn(disk, x)
    BY <1>1, <2>3, VerdictsKept
  <2>5. ToldInv'
    BY <1>1, <2>4 DEF Agreed, ToldInv
  <2>6. \A x \in Rids : told[x] # {} => mem.journal[x].phase \in TerminalPhase
    BY <1>1, Settled
  <2>7. QuietInv'
    BY <1>1, <2>3, <2>6 DEF QuietInv, Rewrites, TerminalPhase
  <2>8. StageInv'
    BY <1>2, <2>3 DEF StageInv, Rewrites, rid, entry
  <2> QED
    BY <2>4, <2>5, <2>7, <2>8
<1>3. CASE saveJournal("OUTCOME_UNKNOWN") /\ pc' = home
  <2>1. "OUTCOME_UNKNOWN" \in Phase \ TerminalPhase
    BY DEF Phase, TerminalPhase
  <2> QED
    BY <1>1, <1>3, <2>1, NoteReply
<1> QED
  BY <1>2, <1>3 DEF attest, Return

\* The ledger is updated; with the last entry COMMITTED is reported, and the
\* entry is SUCCEEDED by then.
LEMMA PutLedgerReply ==
  ASSUME Agreed, NEW p \in Purposes, putLedger(p)
  PROVE  VerdictInv' /\ ToldInv' /\ QuietInv' /\ StageInv'
<1>1. /\ pc = "ledger" /\ mem' = mem /\ disk' = disk /\ queue' = queue
      /\ cur \in Ops /\ rid \in Rids /\ mem.journal[rid].phase = "SUCCEEDED"
      /\ home \in {"boot", "idle"} /\ told \in [Rids -> SUBSET {"COMMITTED", "FAILED"}]
  BY DEF putLedger, store, Return, Agreed, IndInv, TypeOK, EntryInv, StageInv, rid, entry
<1>2. \/ pc' = home
      \/ pc' = pc /\ cur' = cur
  BY DEF putLedger, Return
<1>3. told' \in {told, [told EXCEPT ![rid] = @ \cup {"COMMITTED"}]}
  BY DEF putLedger, Tell
<1>4. VerdictInv'
  BY <1>1 DEF Agreed, VerdictInv
<1>5. CommittedIn(disk, rid)
  BY <1>1 DEF Agreed, VerdictInv, CommittedIn
<1>6. \A x \in Rids : /\ x # rid => told'[x] = told[x]
                      /\ told'[rid] \in {told[rid], told[rid] \cup {"COMMITTED"}}
  BY <1>1, <1>3
<1>7. ToldInv'
  BY <1>1, <1>5, <1>6 DEF Agreed, ToldInv
<1>8. QuietInv'
  <2> SUFFICES ASSUME NEW x \in Rids, told'[x] # {}, mem.journal[x].phase \notin TerminalPhase
               PROVE  x \in queue
    BY <1>1 DEF QuietInv
  <2>1. x # rid
    BY <1>1 DEF TerminalPhase
  <2> QED
    BY <1>1, <1>6, <2>1 DEF Agreed, QuietInv
<1>9. StageInv'
  BY <1>1, <1>2 DEF StageInv, entry, rid
<1> QED
  BY <1>4, <1>7, <1>8, <1>9

\* FAILED is journaled and reported for a request that is not committed; if
\* the write fails, recovery reaches the same verdict.
LEMMA NoteFailedReply ==
  ASSUME Agreed, noteFailed
  PROVE  VerdictInv' /\ ToldInv' /\ QuietInv' /\ StageInv'
<1>1. /\ pc = "fail" /\ queue' = queue /\ pc' = home /\ home \in {"boot", "idle"}
      /\ mem \in Snapshot /\ cur \in Ops /\ rid \in Rids /\ ~CommittedIn(mem, rid)
      /\ told \in [Rids -> SUBSET {"COMMITTED", "FAILED"}]
      /\ told' \in {told, [told EXCEPT ![rid] = @ \cup {"FAILED"}]}
  BY DEF noteFailed, Return, Tell, Agreed, IndInv, TypeOK, EntryInv, StageInv, rid
<1>2. Rewrites(rid, "FAILED")
  BY <1>1, PhaseRewrites DEF noteFailed, saveJournal
<1>3. /\ VerdictInv'
      /\ \A x \in Rids : CommittedIn(disk', x) <=> CommittedIn(disk, x)
  BY <1>1, <1>2, VerdictsKept
<1>4. ~CommittedIn(disk, rid)
  BY <1>1 DEF Agreed, VerdictInv
<1>5. \A x \in Rids : /\ x # rid => told'[x] = told[x]
                      /\ told'[rid] \in {told[rid], told[rid] \cup {"FAILED"}}
  BY <1>1
<1>6. ToldInv'
  BY <1>1, <1>3, <1>4, <1>5 DEF Agreed, ToldInv
<1>7. QuietInv'
  <2> SUFFICES ASSUME NEW x \in Rids, told'[x] # {}, mem'.journal[x].phase \notin TerminalPhase
               PROVE  x \in queue
    BY <1>1 DEF QuietInv
  <2>1. x # rid
    BY <1>2 DEF Rewrites, TerminalPhase
  <2> QED
    BY <1>1, <1>2, <1>5, <2>1 DEF Agreed, QuietInv, Rewrites
<1>8. StageInv'
  BY <1>1 DEF StageInv
<1> QED
  BY <1>3, <1>6, <1>7, <1>8

\* Recovery confirms the verdict it finds: a request somebody has an answer for
\* is only reconciled at startup, before any other request can commit.
LEMMA RecoverReply ==
  ASSUME Agreed, NEW r \in Rids, recover_entry(r), pc \in {"boot", "idle"},
         mem.journal[r].phase \notin TerminalPhase,
         queue' = queue \ {r}, pc = "boot" => home' = "boot"
  PROVE  VerdictInv' /\ ToldInv' /\ QuietInv' /\ StageInv'
<1> DEFINE o == mem.journal[r].op
           g == mem.journal[r].gen
<1>1. mem \in Snapshot /\ o \in Ops /\ RidOf[o] = r
  <2>1. SoundSnapshot(mem) /\ mem \in Snapshot
    BY DEF Agreed, IndInv, SoundSnapshot
  <2>2. o # None
    BY <2>1 DEF SoundSnapshot, JournalKeyedIn, TerminalPhase
  <2> QED
    BY <2>1, <2>2 DEF SoundSnapshot, JournalKeyedIn, Snapshot, Entry
<1>2. told' = told /\ cur' = o /\ rid' = r
  BY <1>1 DEF recover_entry, rid
<1>3. \A x \in Rids : told[x] # {} /\ mem.journal[x].phase \notin TerminalPhase => x \in queue
  BY DEF Agreed, QuietInv
<1>4. ASSUME bothActive(mem, g), NEW out \in SaveOutcomes,
             save_state(setPhase(mem, r, "SUCCEEDED"), out), pc' = "ledger"
      PROVE  VerdictInv' /\ ToldInv' /\ QuietInv' /\ StageInv'
  <2>1. CommittedIn(mem, r)
    BY <1>4 DEF CommittedIn
  <2>2. Rewrites(r, "SUCCEEDED")
    BY <1>1, <1>4, PhaseRewrites
  <2>3. /\ VerdictInv'
        /\ \A x \in Rids : CommittedIn(disk', x) <=> CommittedIn(disk, x)
    BY <2>1, <2>2, VerdictsKept
  <2>4. ToldInv'
    BY <1>2, <2>3 DEF Agreed, ToldInv
  <2>5. QuietInv'
    BY <1>2, <1>3, <2>2 DEF QuietInv, Rewrites, TerminalPhase
  <2>6. StageInv'
    BY <1>2, <1>4, <2>2 DEF StageInv, Rewrites, entry
  <2> QED
    BY <2>3, <2>4, <2>5, <2>6
<1>5. ASSUME ~bothActive(mem, g), rollbackStaging(g), pc' = "fail"
      PROVE  VerdictInv' /\ ToldInv' /\ QuietInv' /\ StageInv'
  <2>1. ~CommittedIn(mem, r)
    BY <1>5 DEF CommittedIn, TerminalPhase
  <2>2. mem' \in {mem, clearStaging(mem)} /\ disk' \in {mem', disk}
    BY <1>5 DEF rollbackStaging, store, save_state
  <2>3. Rewrites(r, mem.journal[r].phase) /\ mem'.journal = mem.journal
    BY <1>1, <2>2, StagingRewrites
  <2>4. /\ VerdictInv'
        /\ \A x \in Rids : /\ CommittedIn(disk', x) <=> CommittedIn(disk, x)
                           /\ CommittedIn(mem', x) <=> CommittedIn(mem, x)
    BY <2>3, VerdictsKept
  <2>5. ToldInv'
    BY <1>2, <2>4 DEF Agreed, ToldInv
  <2>6. queue # {} => pc = "boot"
    BY DEF Agreed, IndInv, QueueInv
  <2>7. QuietInv'
    BY <1>2, <1>3, <1>5, <2>3, <2>6 DEF QuietInv
  <2>8. StageInv'
    BY <1>2, <1>5, <2>1, <2>3, <2>4 DEF StageInv, entry
  <2> QED
    BY <2>4, <2>5, <2>7, <2>8
<1> QED
  BY <1>4, <1>5 DEF recover_entry

\* A new attempt at a request id that has no entry: nobody has an answer yet.
LEMMA StartReply ==
  ASSUME Agreed, NEW o \in Ops, pc = "idle", startPipeline(o),
         mem.journal[RidOf[o]].op = None
  PROVE  VerdictInv' /\ ToldInv' /\ QuietInv' /\ StageInv'
<1> DEFINE r == RidOf[o]
           e == [op |-> o, phase |-> "PROCESSING", gen |-> mem.gen + 1, proof |-> FALSE]
<1>1. /\ SoundSnapshot(mem) /\ mem \in Snapshot /\ r \in Rids /\ mem.gen \in Nat
      /\ told \in [Rids -> SUBSET {"COMMITTED", "FAILED"}]
      /\ mem.journal[r].phase = "ABSENT"
  BY DEF Agreed, IndInv, TypeOK, SoundSnapshot, JournalKeyedIn, Snapshot
<1>2. mem' = putJournal(mem, r, e) /\ disk' \in {mem', disk}
  BY <1>1, NextGeneration DEF startPipeline, save_state
<1>3. pc' = "unwrap" /\ told' = [told EXCEPT ![r] = {}]
  BY DEF startPipeline
<1>4. /\ mem'.active = mem.active /\ mem'.journal[r] = e
      /\ \A x \in Rids \ {r} : mem'.journal[x] = mem.journal[x]
  BY <1>1, <1>2 DEF putJournal, Snapshot
<1>5. \A x \in Rids : CommittedIn(mem', x) <=> CommittedIn(mem, x)
  <2>1. ~CommittedIn(mem, r)
    BY <1>1 DEF CommittedIn, TerminalPhase
  <2>2. mem.active[Uplink].gen = mem.gen
    BY <1>1 DEF SoundSnapshot, MarkedIn
  <2>3. ~bothActive(mem', mem.gen + 1)
    BY <1>1, <1>4, <2>2 DEF bothActive
  <2>4. ~CommittedIn(mem', r)
    BY <1>4, <2>3 DEF CommittedIn
  <2>5. \A x \in Rids \ {r} : CommittedIn(mem', x) <=> CommittedIn(mem, x)
    BY <1>4 DEF CommittedIn, bothActive
  <2> QED
    BY <2>1, <2>4, <2>5
<1>6. \A x \in Rids : CommittedIn(mem, x) <=> CommittedIn(disk, x)
  BY DEF Agreed, VerdictInv
<1>7. \A x \in Rids : CommittedIn(disk', x) <=> CommittedIn(disk, x)
  BY <1>2, <1>5, <1>6
<1>8. VerdictInv'
  <2>1. \A x \in Rids : CommittedIn(mem', x) <=> CommittedIn(disk', x)
    BY <1>5, <1>6, <1>7
  <2> QED
    BY <2>1 DEF VerdictInv
<1>9. \A x \in Rids : told'[x] # {} => x # r /\ told'[x] = told[x]
  BY <1>1, <1>3
<1>10. ToldInv'
  BY <1>7, <1>9 DEF Agreed, ToldInv
<1>11. \A x \in Rids : told[x] # {} => mem.journal[x].phase \in TerminalPhase
  BY Settled
<1>12. QuietInv'
  BY <1>4, <1>9, <1>11 DEF QuietInv
<1>13. StageInv'
  BY <1>3 DEF StageInv
<1> QED
  BY <1>8, <1>10, <1>12, <1>13

\* A finished request is reported as its entry says.
LEMMA ReportReply ==
  ASSUME Agreed, NEW r \in Rids, report(r)
  PROVE  VerdictInv' /\ ToldInv' /\ QuietInv' /\ StageInv'
<1>1. /\ pc = "idle" /\ pc' = pc /\ mem' = mem /\ disk' = disk /\ queue' = queue
      /\ told \in [Rids -> SUBSET {"COMMITTED", "FAILED"}]
  BY DEF report, Serving, store, control, Agreed, IndInv, TypeOK
<1>2. \/ mem.journal[r].phase = "SUCCEEDED"
         /\ told' \in {told, [told EXCEPT ![r] = @ \cup {"COMMITTED"}]}
      \/ mem.journal[r].phase = "FAILED"
         /\ told' \in {told, [told EXCEPT ![r] = @ \cup {"FAILED"}]}
  BY DEF report, Tell
<1>3. \A x \in Rids : x # r => told'[x] = told[x]
  BY <1>1, <1>2
<1>4. \/ CommittedIn(disk, r) /\ told'[r] \in {told[r], told[r] \cup {"COMMITTED"}}
      \/ ~CommittedIn(disk, r) /\ told'[r] \in {told[r], told[r] \cup {"FAILED"}}
  BY <1>1, <1>2 DEF Agreed, VerdictInv, CommittedIn, TerminalPhase
<1>5. ToldInv'
  BY <1>1, <1>3, <1>4 DEF Agreed, ToldInv
<1>6. VerdictInv'
  BY <1>1 DEF Agreed, VerdictInv
<1>7. mem.journal[r].phase \in TerminalPhase
  BY <1>2 DEF TerminalPhase
<1>8. \A x \in Rids : told[x] # {} => mem.journal[x].phase \in TerminalPhase
  BY <1>1, Settled
<1>9. QuietInv'
  BY <1>1, <1>3, <1>7, <1>8 DEF QuietInv
<1>10. StageInv'
  BY <1>1 DEF StageInv
<1> QED
  BY <1>5, <1>6, <1>9, <1>10

\* Start, end of start, shutdown, crash and stuttering.
LEMMA DaemonReply ==
  ASSUME Agreed,
         initialize \/ finishInitialize \/ beginShutdown \/ crash \/ UNCHANGED vars
  PROVE  VerdictInv' /\ ToldInv' /\ QuietInv' /\ StageInv'
<1>1. disk' = disk /\ told' = told
  BY DEF initialize, finishInitialize, beginShutdown, crash, vars, store
<1>2. ToldInv'
  BY <1>1 DEF Agreed, ToldInv
<1>3. CASE initialize
  <2>1. /\ mem' = disk /\ pc' = "boot"
        /\ queue' = {r \in Rids : disk.journal[r].phase \notin TerminalPhase}
    BY <1>3, LoadKeepsSound DEF initialize, openEntries, Agreed, IndInv
  <2> QED
    BY <1>1, <1>2, <2>1 DEF VerdictInv, QuietInv, StageInv
<1>4. CASE crash
  BY <1>2, <1>4 DEF crash, VerdictInv, QuietInv, StageInv
<1>5. CASE finishInitialize
  <2>1. pc = "boot" /\ pc' = "idle" /\ mem' = mem /\ queue' = queue
    BY <1>5 DEF finishInitialize, store
  <2> QED
    BY <1>1, <1>2, <2>1 DEF Agreed, VerdictInv, QuietInv, StageInv
<1>6. CASE beginShutdown \/ UNCHANGED vars
  <2>1. /\ pc' = pc /\ mem' = mem /\ queue' = queue /\ home' = home /\ cur' = cur
    BY <1>6 DEF beginShutdown, vars, store, control
  <2> QED
    BY <1>1, <1>2, <2>1 DEF Agreed, VerdictInv, QuietInv, StageInv, entry, rid
<1> QED
  BY <1>3, <1>4, <1>5, <1>6

\* Every step keeps the agreement, unless it is a commit that reached the Store
\* and reported a failure.
LEMMA NextAgreed ==
  ASSUME ~LookupMayFail, Agreed, [Next]_vars, ~blurred'
  PROVE  Agreed'
<1> DEFINE Goal == VerdictInv' /\ ToldInv' /\ QuietInv' /\ StageInv'
<1>0. IndInv /\ IndInv'
  BY NextIndInv DEF Agreed
<1>1. ASSUME NEW p \in Purposes, unwrapToStaging(p) \/ putLedger(p) PROVE Goal
  BY <1>1, UnwrapReply, PutLedgerReply
<1>2. ASSUME noteStaged \/ noteBothStaged \/ verifyStaging \/ noteUnknown PROVE Goal
  BY <1>2, NotesReply
<1>3. ASSUME commitBatch \/ attest \/ rollback \/ noteFailed PROVE Goal
  BY <1>3, CommitReply, AttestReply, RollbackReply, NoteFailedReply
<1>4. ASSUME NEW r \in Rids, recover_on_startup(r) PROVE Goal
  <2>1. /\ pc = "boot" /\ queue' = queue \ {r} /\ home' = "boot" /\ recover_entry(r)
        /\ r \in queue
    BY <1>4 DEF recover_on_startup
  <2>2. mem.journal[r].phase \notin TerminalPhase
    BY <1>0, <2>1 DEF IndInv, QueueInv
  <2> QED
    BY <2>1, <2>2, RecoverReply
<1>5. ASSUME NEW o \in Ops, import(o) \/ importKl1(o) PROVE Goal
  <2>1. mem.journal[RidOf[o]].op = None /\ pc = "idle" /\ startPipeline(o)
    BY <1>5 DEF import, importKl1, Serving
  <2> QED
    BY <2>1, StartReply
<1>6. ASSUME NEW o \in Ops, resume(o) PROVE Goal
  <2>1. /\ pc = "idle" /\ queue' = queue /\ RidOf[o] \in Rids /\ recover_entry(RidOf[o])
        /\ mem.journal[RidOf[o]].phase \notin TerminalPhase
    BY <1>6 DEF resume, Serving
  <2>2. queue = {}
    BY <1>0, <2>1 DEF IndInv, QueueInv
  <2> QED
    BY <2>1, <2>2, RecoverReply
<1>7. ASSUME NEW r \in Rids, report(r) PROVE Goal
  BY <1>7, ReportReply
<1>8. ASSUME initialize \/ finishInitialize \/ beginShutdown \/ crash \/ UNCHANGED vars
      PROVE  Goal
  BY <1>8, DaemonReply
<1>9. Goal
  <2> HIDE DEF Goal
  <2> QED
    BY <1>1, <1>2, <1>3, <1>4, <1>5, <1>6, <1>7, <1>8 DEF Next, ServiceStep
<1> QED
  BY <1>0, <1>9 DEF Agreed

\* blurred is a truth value that is never taken back.
LEMMA BlurredStays ==
  ASSUME IndInv, [Next]_vars, blurred
  PROVE  blurred'
<1>1. CASE commitBatch
  BY <1>1 DEF commitBatch
<1>2. CASE ~commitBatch
  <2>1. blurred' = blurred
    BY <1>2 DEF Next, ServiceStep, unwrapToStaging, putLedger, noteStaged, noteBothStaged,
         verifyStaging, attest, noteUnknown, rollback, noteFailed, recover_on_startup,
         recover_entry, finishInitialize, import, importKl1, startPipeline, resume, report,
         initialize, beginShutdown, crash, vars
  <2> QED
    BY <2>1
<1> QED
  BY <1>1, <1>2

\* A client that has a final answer may rely on it: memory, disk and what was
\* told agree on the verdict of every request, across crashes, failing writes,
\* retries and recoveries.
THEOREM ReplyInvHolds ==
  ASSUME ~LookupMayFail
  PROVE  Spec => []ReplyInv
<1>1. Init => ReplyInv
  BY InitIndInv DEF Init, ReplyInv, VerdictInv, ToldInv, QuietInv, StageInv
<1>2. ReplyInv /\ [Next]_vars => ReplyInv'
  <2> SUFFICES ASSUME ReplyInv, [Next]_vars, ~blurred' PROVE Agreed'
    BY NextIndInv DEF ReplyInv, Agreed
  <2>1. ~blurred
    BY BlurredStays DEF ReplyInv
  <2>2. Agreed
    BY <2>1 DEF ReplyInv, Agreed
  <2> QED
    BY <2>2, NextAgreed
<1> QED
  BY <1>1, <1>2, PTL DEF Spec

\* A COMMITTED answer stays SUCCEEDED and a FAILED one is never turned into a
\* success, whenever the service can be asked again (getImportResult, a
\* repeated import), for every number of requests, crashes and failing writes.
THEOREM RepliesAreStable ==
  ASSUME ~LookupMayFail
  PROVE  Spec => []RepliesStable
<1>1. ASSUME ReplyInv PROVE RepliesStable
  <2> SUFFICES ASSUME pc = "idle", ~blurred, NEW r \in Rids
               PROVE  /\ "COMMITTED" \in told[r] => mem.journal[r].phase = "SUCCEEDED"
                      /\ "FAILED" \in told[r] => mem.journal[r].phase \in {"FAILED", "ABSENT"}
    BY DEF RepliesStable
  <2>0. Agreed
    BY <1>1 DEF ReplyInv, Agreed
  <2>1. told[r] # {} => mem.journal[r].phase \in TerminalPhase
    BY <2>0, Settled
  <2>2. CommittedIn(mem, r) <=> CommittedIn(disk, r)
    BY <2>0 DEF Agreed, VerdictInv
  <2>3. /\ "COMMITTED" \in told[r] => CommittedIn(disk, r)
        /\ "FAILED" \in told[r] => ~CommittedIn(disk, r)
    BY <2>0 DEF Agreed, ToldInv
  <2>4. mem.journal[r].phase \in TerminalPhase =>
          (CommittedIn(mem, r) <=> mem.journal[r].phase = "SUCCEEDED")
    BY DEF CommittedIn
  <2>5. "COMMITTED" \in told[r] \/ "FAILED" \in told[r] => told[r] # {}
    OBVIOUS
  <2> HIDE DEF CommittedIn
  <2> QED
    BY <2>1, <2>2, <2>3, <2>4, <2>5 DEF TerminalPhase
<1> QED
  BY <1>1, ReplyInvHolds, PTL

=============================================================================
