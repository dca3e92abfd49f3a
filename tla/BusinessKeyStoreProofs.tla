------------------------- MODULE BusinessKeyStoreProofs -------------------------
(***************************************************************************)
(* What the provider's state transformers preserve: each lemma says under  *)
(* which conditions one of them turns a sound snapshot into a sound one.   *)
(***************************************************************************)
EXTENDS BusinessKeyStore, TLAPS

\* The empty state initialize() starts from when nothing is stored is sound.
LEMMA EmptySound == SoundSnapshot(EmptySnapshot)
<1> USE StoreAssumption
<1>1. EmptySnapshot \in Snapshot
  BY DEF EmptySnapshot, Snapshot, NoSlots, NoSlot, Slot, Marker, NoMarker, Entry,
         NoEntry, Phase
<1>2. PairedIn(EmptySnapshot) /\ MarkedIn(EmptySnapshot)
  BY DEF EmptySnapshot, PairedIn, MarkedIn, NoSlots, NoSlot
<1>3. ActiveJournaledIn(EmptySnapshot) /\ StagingOwnedIn(EmptySnapshot)
  BY DEF EmptySnapshot, ActiveJournaledIn, StagingOwnedIn, NoSlots, NoSlot
<1>4. JournalKeyedIn(EmptySnapshot)
  BY DEF EmptySnapshot, JournalKeyedIn, NoEntry
<1> QED
  BY <1>1, <1>2, <1>3, <1>4 DEF SoundSnapshot

\* A sound state survives a restart as it is: its marker verifies, so
\* initialize() drops no slot.
LEMMA LoadKeepsSound ==
  ASSUME NEW s, SoundSnapshot(s)
  PROVE  loadState(s) = s
BY DEF SoundSnapshot, MarkedIn, loadState

\* In a sound state next_generation is one past the committed generation.
LEMMA NextGeneration ==
  ASSUME NEW s, SoundSnapshot(s)
  PROVE  next_generation(s) = s.gen + 1
<1> USE StoreAssumption
<1> DEFINE G == {s.active[p].gen : p \in Purposes}
<1>1. G = {s.gen} /\ s.gen \in Nat
  BY DEF SoundSnapshot, MarkedIn, Snapshot
<1> HIDE DEF G
<1>2. Max(G) = s.gen
  BY <1>1 DEF Max
<1> QED
  BY <1>1, <1>2 DEF next_generation, G

\* Opening a journal entry for a request id that has none.
LEMMA PutFreshSound ==
  ASSUME NEW s, SoundSnapshot(s), NEW o \in Ops, s.journal[RidOf[o]].op = None
  PROVE  SoundSnapshot(putJournal(s, RidOf[o],
           [op |-> o, phase |-> "PROCESSING", gen |-> s.gen + 1, proof |-> FALSE]))
<1> USE StoreAssumption
<1> DEFINE r == RidOf[o]
           e == [op |-> o, phase |-> "PROCESSING", gen |-> s.gen + 1, proof |-> FALSE]
           t == putJournal(s, r, e)
<1>0. r \in Rids /\ s \in Snapshot /\ e \in Entry
  BY DEF SoundSnapshot, Snapshot, Entry, Phase
<1>1. t \in Snapshot
  BY <1>0 DEF putJournal, Snapshot
<1>2. /\ t.active = s.active /\ t.staging = s.staging /\ t.gen = s.gen
      /\ t.sgen = s.sgen /\ t.marker = s.marker
      /\ t.journal[r] = e
      /\ \A x \in Rids \ {r} : t.journal[x] = s.journal[x]
  BY <1>0 DEF putJournal, Snapshot
<1> HIDE DEF t
<1>3. PairedIn(t) /\ MarkedIn(t)
  BY <1>2 DEF SoundSnapshot, PairedIn, MarkedIn
<1>4. \A p \in Purposes : s.active[p].op \in Ops \cup {None} /\ s.staging[p].op \in Ops \cup {None}
  BY <1>0 DEF Snapshot, Slot
<1>5. ActiveJournaledIn(t)
  <2>1. \A p \in Purposes : s.active[p].op # None =>
          RidOf[s.active[p].op] \in Rids \ {r}
    BY SMTT(30), <1>0, <1>4 DEF SoundSnapshot, ActiveJournaledIn
  <2> QED
    BY SMTT(30), <1>2, <2>1 DEF SoundSnapshot, ActiveJournaledIn
<1>6. StagingOwnedIn(t)
  BY <1>0, <1>2, <1>4 DEF SoundSnapshot, StagingOwnedIn
<1>7. JournalKeyedIn(t)
  BY <1>0, <1>2 DEF SoundSnapshot, JournalKeyedIn
<1> QED
  BY <1>1, <1>3, <1>5, <1>6, <1>7 DEF SoundSnapshot, t

\* Moving an entry to another phase.  A final phase is only sound for an
\* operation with nothing staged, FAILED only for one that is not ACTIVE.
LEMMA NewPhaseSound ==
  ASSUME NEW s, SoundSnapshot(s), NEW r \in Rids, s.journal[r].op # None,
         NEW e \in Entry, e.op = s.journal[r].op, e.gen = s.journal[r].gen,
         e.phase # "ABSENT",
         \/ e.phase \notin TerminalPhase
         \/ \A p \in Purposes : s.staging[p].op # e.op,
         \/ e.phase \in {"COMMITTING", "OUTCOME_UNKNOWN", "SUCCEEDED"}
         \/ \A p \in Purposes : s.active[p].op # e.op
  PROVE  SoundSnapshot(putJournal(s, r, e))
<1> USE StoreAssumption
<1> DEFINE t == putJournal(s, r, e)
<1>0. s \in Snapshot
  BY DEF SoundSnapshot
<1>1. t \in Snapshot
  BY <1>0 DEF putJournal, Snapshot
<1>2. /\ t.active = s.active /\ t.staging = s.staging /\ t.gen = s.gen
      /\ t.sgen = s.sgen /\ t.marker = s.marker
      /\ t.journal[r] = e
      /\ \A x \in Rids \ {r} : t.journal[x] = s.journal[x]
  BY <1>0 DEF putJournal, Snapshot
<1> HIDE DEF t
<1>3. PairedIn(t) /\ MarkedIn(t)
  BY <1>2 DEF SoundSnapshot, PairedIn, MarkedIn
<1>4. \A p \in Purposes : s.active[p].op \in Ops \cup {None} /\ s.staging[p].op \in Ops \cup {None}
  BY <1>0 DEF Snapshot, Slot
<1>5. ActiveJournaledIn(t)
  BY SMTT(30), <1>0, <1>2, <1>4 DEF SoundSnapshot, ActiveJournaledIn
<1>6. StagingOwnedIn(t)
  BY <1>0, <1>2, <1>4 DEF SoundSnapshot, StagingOwnedIn
<1>7. JournalKeyedIn(t)
  BY <1>0, <1>2 DEF SoundSnapshot, JournalKeyedIn
<1> QED
  BY <1>1, <1>3, <1>5, <1>6, <1>7 DEF SoundSnapshot, t

\* Staging one purpose for an operation whose entry is open and one
\* generation ahead.
LEMMA StageSound ==
  ASSUME NEW s, SoundSnapshot(s), NEW p \in Purposes, NEW o \in Ops,
         s.journal[RidOf[o]].op = o,
         s.journal[RidOf[o]].phase \notin TerminalPhase,
         s.journal[RidOf[o]].gen = s.gen + 1
  PROVE  SoundSnapshot(stageSlot(s, p, o, s.gen + 1))
<1> USE StoreAssumption
<1> DEFINE t == stageSlot(s, p, o, s.gen + 1)
           new == [op |-> o, gen |-> s.gen + 1]
<1>0. s \in Snapshot /\ new \in Slot
  BY DEF SoundSnapshot, Snapshot, Slot
<1>1. t \in Snapshot
  <2>1. [s.staging EXCEPT ![p] = new] \in [Purposes -> Slot] /\ s.gen + 1 \in Nat
    BY <1>0 DEF Snapshot
  <2>2. t = [s EXCEPT !.staging = [s.staging EXCEPT ![p] = new], !.sgen = s.gen + 1]
    BY DEF stageSlot
  <2> HIDE DEF t, new
  <2> QED
    BY <1>0, <2>1, <2>2 DEF Snapshot
<1>2. /\ t.active = s.active /\ t.gen = s.gen /\ t.sgen = s.gen + 1
      /\ t.marker = s.marker /\ t.journal = s.journal
      /\ t.staging[p] = new
      /\ \A q \in Purposes \ {p} : t.staging[q] = s.staging[q]
  BY SMTT(30), <1>0 DEF stageSlot, Snapshot
<1> HIDE DEF t
<1>3. PairedIn(t) /\ MarkedIn(t) /\ ActiveJournaledIn(t) /\ JournalKeyedIn(t)
  BY SMTT(30), <1>2 DEF SoundSnapshot, PairedIn, MarkedIn, ActiveJournaledIn, JournalKeyedIn
<1>4. StagingOwnedIn(t)
  BY <1>2 DEF SoundSnapshot, StagingOwnedIn
<1> QED
  BY <1>1, <1>3, <1>4 DEF SoundSnapshot, t

\* Clearing the staging area.
LEMMA ClearSound ==
  ASSUME NEW s, SoundSnapshot(s)
  PROVE  /\ SoundSnapshot(clearStaging(s))
         /\ \A p \in Purposes : clearStaging(s).staging[p].op = None
<1> USE StoreAssumption
<1> DEFINE t == clearStaging(s)
<1>0. s \in Snapshot /\ NoSlots \in [Purposes -> Slot]
  BY DEF SoundSnapshot, Snapshot, Slot, NoSlots, NoSlot
<1>1. t \in Snapshot
  BY <1>0 DEF clearStaging, Snapshot
<1>2. /\ t.active = s.active /\ t.gen = s.gen /\ t.sgen = 0
      /\ t.marker = s.marker /\ t.journal = s.journal
      /\ \A q \in Purposes : t.staging[q].op = None
  BY SMTT(30), <1>0 DEF clearStaging, Snapshot, NoSlots, NoSlot
<1> HIDE DEF t
<1>3. PairedIn(t) /\ MarkedIn(t) /\ ActiveJournaledIn(t) /\ JournalKeyedIn(t)
  BY SMTT(30), <1>2 DEF SoundSnapshot, PairedIn, MarkedIn, ActiveJournaledIn, JournalKeyedIn
<1>4. StagingOwnedIn(t)
  BY <1>2 DEF SoundSnapshot, StagingOwnedIn
<1> QED
  BY <1>1, <1>2, <1>3, <1>4 DEF SoundSnapshot, t

\* Committing a batch one operation staged completely.
LEMMA CommitSound ==
  ASSUME NEW s, SoundSnapshot(s), NEW o \in Ops, NEW g \in Nat,
         s.journal[RidOf[o]].op = o, s.journal[RidOf[o]].gen = g,
         s.journal[RidOf[o]].phase = "COMMITTING",
         \A p \in Purposes : s.staging[p] = [op |-> o, gen |-> g]
  PROVE  SoundSnapshot(committed(s, g))
<1> USE StoreAssumption
<1> DEFINE t == committed(s, g)
<1>0. s \in Snapshot /\ NoSlots \in [Purposes -> Slot]
  BY DEF SoundSnapshot, Snapshot, Slot, NoSlots, NoSlot
<1>1. t \in Snapshot
  BY <1>0 DEF committed, Snapshot, Marker, compute_commit_marker
<1>2. /\ t.active = s.staging /\ t.gen = g /\ t.sgen = 0
      /\ t.marker = compute_commit_marker(g, s.staging) /\ t.journal = s.journal
      /\ \A q \in Purposes : t.staging[q].op = None
  BY <1>0 DEF committed, Snapshot, NoSlots, NoSlot
<1> HIDE DEF t
<1>3. PairedIn(t) /\ MarkedIn(t)
  BY <1>2 DEF PairedIn, MarkedIn
<1>4. ActiveJournaledIn(t) /\ StagingOwnedIn(t)
  BY <1>2 DEF ActiveJournaledIn, StagingOwnedIn
<1>5. JournalKeyedIn(t)
  BY <1>2 DEF SoundSnapshot, JournalKeyedIn
<1> QED
  BY <1>1, <1>3, <1>4, <1>5 DEF SoundSnapshot, t

-----------------------------------------------------------------------------
\* t has the ACTIVE slots, the generation and the journaled operations of s.
SameCore(s, t) ==
  /\ t.active = s.active
  /\ t.gen = s.gen
  /\ \A r \in Rids : t.journal[r].op = s.journal[r].op /\ t.journal[r].gen = s.journal[r].gen

\* What rewriting an existing entry changes.
LEMMA RewriteFields ==
  ASSUME NEW s \in Snapshot, NEW r \in Rids, NEW e \in Entry,
         e.op = s.journal[r].op, e.gen = s.journal[r].gen
  PROVE  LET t == putJournal(s, r, e)
         IN  /\ SameCore(s, t)
             /\ t.staging = s.staging /\ t.sgen = s.sgen
             /\ t.journal[r] = e
             /\ \A x \in Rids \ {r} : t.journal[x] = s.journal[x]
BY DEF SameCore, putJournal, Snapshot

\* setPhase rewrites the entry with another phase and nothing else.
LEMMA SetPhaseRewrites ==
  ASSUME NEW s \in Snapshot, NEW r \in Rids, NEW ph \in Phase
  PROVE  LET e == [s.journal[r] EXCEPT !.phase = ph]
         IN  /\ setPhase(s, r, ph) = putJournal(s, r, e)
             /\ e \in Entry
             /\ e.op = s.journal[r].op /\ e.gen = s.journal[r].gen /\ e.phase = ph
<1>1. s.journal[r] \in Entry
  BY DEF Snapshot
<1>2. setPhase(s, r, ph) = putJournal(s, r, [s.journal[r] EXCEPT !.phase = ph])
  BY DEF setPhase, putJournal
<1> QED
  BY <1>1, <1>2 DEF Entry

\* What clearing and filling the staging area leave alone.
LEMMA StagingFields ==
  ASSUME NEW s \in Snapshot, NEW p \in Purposes, NEW o, NEW g
  PROVE  /\ SameCore(s, clearStaging(s)) /\ clearStaging(s).journal = s.journal
         /\ SameCore(s, stageSlot(s, p, o, g)) /\ stageSlot(s, p, o, g).journal = s.journal
         /\ stageSlot(s, p, o, g).staging[p] = [op |-> o, gen |-> g]
         /\ \A q \in Purposes \ {p} : stageSlot(s, p, o, g).staging[q] = s.staging[q]
BY DEF SameCore, clearStaging, stageSlot, Snapshot

=============================================================================
