------------------------- MODULE CertificateStoreProofs -------------------------
(***************************************************************************)
(* Proofs about CertificateStore, for any set of generation ids, any       *)
(* number of commits and of damaged files: CoreInv is inductive, a commit *)
(* survives every crash and power loss, recovery gives up only on damaged  *)
(* media, and the store implements CertificateCell.                        *)
(***************************************************************************)
EXTENDS CertificateStore, TLAPS

\* The types, one fact each.
LEMMA StoreTypes ==
  ASSUME TypeOK
  PROVE  /\ live \in [Gids -> SUBSET File] /\ low \in [Gids -> SUBSET File]
         /\ high \in [Gids -> SUBSET File] /\ bad \in [Gids -> SUBSET File]
         /\ meta \in [Gids -> [prev : Gids \cup {None}, version : 0..MaxVersion]]
         /\ \A g \in Gids : meta[g].prev \in Gids \cup {None} /\ meta[g].version \in Nat
         /\ \A g \in Gids \cup {None} : version(g) \in 0..MaxVersion
         /\ acked \in Nat /\ damage \in Nat /\ faults \in Nat /\ MaxVersion \in Nat
BY StoreConstants DEF TypeOK, version

\* Where a commit is while it writes its candidate.
LEMMA WritingFacts ==
  /\ File \subseteq Writing /\ "sync" \in Writing /\ "switch" \in Writing
  /\ \A p \in {"down", "walk", "clean", "serve", "error", "settle"} : p \notin Writing
  /\ Writing \subseteq Location
BY DEF Writing, File, Location

\* An empty store.
LEMMA InitCoreInv == Init => CoreInv
<1> SUFFICES ASSUME Init PROVE CoreInv
  OBVIOUS
<1>1. /\ live = [g \in Gids |-> {}] /\ low = live /\ high = live /\ bad = live
      /\ meta = [g \in Gids |-> NoMeta]
      /\ ptr = None /\ ptrs = {None} /\ mem = None /\ pc = "down" /\ at = None
      /\ doomed = {} /\ faults = 0 /\ damage = 0 /\ acked = 0 /\ offered = 0
  BY DEF Init
<1>2. ~recovered /\ recovered \in BOOLEAN
  BY Zenon DEF Init
<1>3. NoMeta \in [prev : Gids \cup {None}, version : 0..MaxVersion]
  BY StoreConstants DEF NoMeta
<1>4. TypeOK
  BY <1>1, <1>2, <1>3, StoreConstants DEF TypeOK, Location
<1>5. SyncInv /\ CommitInv /\ CleanInv
  BY <1>1, <1>2, WritingFacts DEF SyncInv, CommitInv, CleanInv
<1>6. version(None) = 0
  BY DEF version
<1>7. WholeInv /\ SpareInv /\ ServeInv
  BY <1>1, <1>2, <1>6 DEF WholeInv, CommitSurvivesPowerLoss, SpareInv, ServeInv
<1> QED
  BY <1>1, <1>4, <1>5, <1>7 DEF CoreInv

\* The version of a generation whose manifest is not touched.
LEMMA VersionFrame ==
  ASSUME NEW g, g = None \/ meta'[g] = meta[g]
  PROVE  version(g)' = version(g)
BY DEF version

-----------------------------------------------------------------------------
(***************************************************************************)
(* commit                                                                  *)
(***************************************************************************)

\* A new candidate: nothing refers to its directory.
LEMMA CommitStep ==
  ASSUME CoreInv, NEW g \in Gids, commit(g)
  PROVE  CoreInv'
<1>1. /\ pc = "serve" /\ recovered /\ version(mem) < MaxVersion
      /\ live[g] = {} /\ high[g] = {}
      /\ g \notin ptrs /\ g # ptr /\ g # mem /\ \A h \in Gids : meta[h].prev # g
  BY DEF commit, Fresh
<1>2. /\ meta' = [meta EXCEPT ![g] = [prev |-> mem, version |-> version(mem) + 1]]
      /\ bad' = [bad EXCEPT ![g] = {}] /\ at' = g /\ pc' = "chain"
      /\ UNCHANGED <<live, low, high, ptr, ptrs, mem, recovered, doomed, faults, damage, acked, offered>>
  BY DEF commit, pointer, budget
<1>3. TypeOK /\ mem \in Gids \cup {None} /\ ptr \in Gids \cup {None}
  BY DEF CoreInv, TypeOK
<1>4. /\ live \in [Gids -> SUBSET File] /\ bad \in [Gids -> SUBSET File]
      /\ meta \in [Gids -> [prev : Gids \cup {None}, version : 0..MaxVersion]]
      /\ version(mem) \in 0..MaxVersion /\ MaxVersion \in Nat
      /\ \A h \in Gids : meta[h].prev \in Gids \cup {None}
  BY <1>3, StoreTypes
<1> DEFINE m == [prev |-> mem, version |-> version(mem) + 1]
<1>5. m \in [prev : Gids \cup {None}, version : 0..MaxVersion] /\ m.prev = mem
  BY <1>1, <1>3, <1>4
<1>6. /\ meta'[g] = m /\ \A h \in Gids \ {g} : meta'[h] = meta[h] /\ bad'[h] = bad[h]
      /\ meta' \in [Gids -> [prev : Gids \cup {None}, version : 0..MaxVersion]]
      /\ bad' \in [Gids -> SUBSET File] /\ bad'[g] = {}
  BY <1>2, <1>4, <1>5
<1>7. TypeOK'
  BY <1>2, <1>3, <1>6, WritingFacts DEF TypeOK, Location
<1>8. /\ version(mem)' = version(mem) /\ version(ptr)' = version(ptr)
      /\ \A p \in Gids \cup {None} : p # g => version(p)' = version(p)
  BY <1>1, <1>2, <1>3, <1>6 DEF version
<1>9. "chain" \in Writing /\ "chain" \notin {"switch", "settle", "clean", "walk", "error"}
  BY DEF Writing, File
<1>10. \A h \in Gids : meta'[h].prev # g
  BY <1>1, <1>5, <1>6
<1> HIDE DEF m
<1>11. SyncInv' /\ CleanInv'
  BY <1>2, <1>9 DEF CoreInv, SyncInv, CleanInv
<1>12. CommitInv'
  BY <1>1, <1>2, <1>6, <1>8, <1>9, <1>10 DEF CommitInv, m
<1>13. WholeInv'
  <2> SUFFICES ASSUME damage = 0 PROVE WholeInv'
    BY <1>2 DEF WholeInv
  <2>1. WholeInv
    BY DEF CoreInv
  <2>2. \A h \in Gids : bad'[h] = {}
    BY <1>6, <2>1 DEF WholeInv
  <2>3. CommitSurvivesPowerLoss'
    BY <1>1, <1>2, <1>3, <1>8, <2>1 DEF WholeInv, CommitSurvivesPowerLoss, CoreInv, TypeOK
  <2>4. ptr # None => meta'[ptr] = meta[ptr] /\ meta[ptr].prev # g
    BY <1>1, <1>3, <1>6
  <2>5. ptr # None => version(meta[ptr].prev)' = version(meta[ptr].prev)
    BY <1>2, <1>3, <1>4, <1>8, <2>4
  <2> QED
    BY <1>1, <1>2, <1>3, <1>8, <1>9, <2>1, <2>2, <2>3, <2>4, <2>5 DEF WholeInv
<1>14. SpareInv'
  <2> SUFFICES ASSUME damage = 1 PROVE SpareInv'
    BY <1>2 DEF SpareInv
  <2>1. SpareInv
    BY DEF CoreInv
  <2>2. ptr # None => /\ meta'[ptr] = meta[ptr] /\ bad'[ptr] = bad[ptr]
                      /\ meta[ptr].prev # g
    BY <1>1, <1>3, <1>6
  <2>3. ASSUME ptr # None, Dead PROVE Dead'
    BY <1>2, <2>2, <2>3 DEF Dead, loadGeneration, previous
  <2>4. ASSUME ptr # None, NEW a \in Gids, Anchor(a) PROVE Anchor(a)'
    <3>1. a # g
      BY <1>1, <2>2, <2>4 DEF Anchor
    <3>2. version(a)' = version(a) /\ bad'[a] = bad[a]
      BY <1>6, <1>8, <3>1
    <3> QED
      BY <1>2, <1>9, <2>2, <2>4, <3>2 DEF Anchor
  <2> QED
    BY <1>2, <1>9, <2>1, <2>3, <2>4 DEF SpareInv
<1>15. ServeInv'
  BY <1>2, <1>8 DEF CoreInv, ServeInv
<1> QED
  BY <1>2, <1>7, <1>9, <1>11, <1>12, <1>13, <1>14, <1>15 DEF CoreInv

\* The candidate's files are written, synced or removed again.
LEMMA CandidateKeeps ==
  ASSUME CoreInv, pc \in Writing,
         live' \in [Gids -> SUBSET File], low' \in [Gids -> SUBSET File],
         high' \in [Gids -> SUBSET File],
         \A g \in Gids \ {at} : live'[g] = live[g] /\ low'[g] = low[g] /\ high'[g] = high[g],
         low'[at] \subseteq live'[at], live'[at] \subseteq high'[at],
         UNCHANGED bad, UNCHANGED meta, UNCHANGED ptr, UNCHANGED ptrs, UNCHANGED mem,
         UNCHANGED recovered, UNCHANGED at, UNCHANGED doomed, UNCHANGED damage,
         UNCHANGED <<acked, offered>>, faults' \in 0..FsyncFaults, faults' >= faults,
         pc' \in Writing \cup {"serve"}, pc' = "switch" => low'[at] = live'[at]
  PROVE  CoreInv'
<1>1. TypeOK /\ ptr \in Gids \cup {None} /\ mem \in Gids \cup {None}
      /\ ptrs \subseteq Gids \cup {None}
  BY DEF CoreInv, TypeOK
<1>2. /\ at \in Gids /\ at # mem /\ at # ptr /\ at \notin ptrs
      /\ \A h \in Gids : meta[h].prev # at
      /\ meta[at] = [prev |-> mem, version |-> version(mem) + 1] /\ recovered
  BY DEF CoreInv, CommitInv
<1>3. pc' \in Location /\ pc' \notin {"settle", "clean", "walk", "error", "down"}
      /\ pc # "settle"
  BY WritingFacts DEF Location
<1>4. TypeOK'
  BY <1>1, <1>3 DEF TypeOK
<1>5. \A g : version(g)' = version(g)
  BY DEF version
<1>6. SyncInv'
  BY <1>2 DEF CoreInv, SyncInv
<1>7. CommitInv'
  BY <1>2, <1>3, <1>5, WritingFacts DEF CommitInv
<1>8. CleanInv'
  BY <1>3 DEF CleanInv
<1>9. WholeInv'
  <2> SUFFICES ASSUME damage = 0 PROVE WholeInv'
    BY DEF WholeInv
  <2>1. WholeInv
    BY DEF CoreInv
  <2>2. CommitSurvivesPowerLoss'
    BY <1>1, <1>2, <1>5, <2>1 DEF WholeInv, CommitSurvivesPowerLoss
  <2>3. faults \in Nat /\ (faults' = 0 => faults = 0)
    BY <1>1, StoreTypes, StoreConstants
  <2>4. ptr # None => meta[ptr].prev \in Gids \cup {None} /\ meta[ptr].prev # at
    BY <1>1, <1>2, StoreTypes
  <2> QED
    BY <1>1, <1>2, <1>3, <1>5, <2>1, <2>2, <2>3, <2>4 DEF WholeInv
<1>10. SpareInv'
  <2> SUFFICES ASSUME damage = 1 PROVE SpareInv'
    BY DEF SpareInv
  <2>1. SpareInv
    BY DEF CoreInv
  <2>2. ASSUME ptr # None, Dead PROVE Dead'
    BY <1>1, <1>2, <2>2 DEF Dead, loadGeneration, previous
  <2>3. ASSUME ptr # None, NEW a \in Gids, Anchor(a) PROVE Anchor(a)'
    <3>1. a # at
      BY <1>1, <1>2, <2>3 DEF Anchor
    <3> QED
      BY <1>3, <1>5, <2>3, <3>1 DEF Anchor
  <2> QED
    BY <1>3, <2>1, <2>2, <2>3 DEF SpareInv
<1>11. ServeInv'
  BY <1>5 DEF CoreInv, ServeInv
<1> QED
  BY <1>3, <1>4, <1>6, <1>7, <1>8, <1>9, <1>10, <1>11 DEF CoreInv

\* The files of the candidate are removed after a failure.
LEMMA AbandonKeeps ==
  ASSUME CoreInv, pc \in Writing, abandon, UNCHANGED <<pointer, at, damage>>,
         faults' \in 0..FsyncFaults, faults' >= faults
  PROVE  CoreInv'
<1>1. /\ live' = [live EXCEPT ![at] = {}] /\ low' = [low EXCEPT ![at] = {}]
      /\ pc' = "serve" /\ UNCHANGED <<high, bad, meta, mem, recovered, doomed, acked, offered>>
      /\ UNCHANGED <<ptr, ptrs, at, damage>>
  BY DEF abandon, refuse, pointer
<1>2. TypeOK /\ at \in Gids
  BY DEF CoreInv, CommitInv
<1>3. /\ live \in [Gids -> SUBSET File] /\ low \in [Gids -> SUBSET File]
      /\ high \in [Gids -> SUBSET File]
  BY <1>2, StoreTypes
<1>4. /\ live' \in [Gids -> SUBSET File] /\ low' \in [Gids -> SUBSET File]
      /\ high' \in [Gids -> SUBSET File] /\ live'[at] = {} /\ low'[at] = {}
      /\ \A g \in Gids \ {at} : live'[g] = live[g] /\ low'[g] = low[g] /\ high'[g] = high[g]
  BY <1>1, <1>2, <1>3
<1> QED
  BY <1>1, <1>4, CandidateKeeps

\* One file of the candidate.
LEMMA WriteFileStep ==
  ASSUME CoreInv, writeFileAtomic
  PROVE  CoreInv'
<1>1. pc \in File /\ pc \in Writing /\ UNCHANGED <<pointer, at, damage>>
  BY WritingFacts DEF writeFileAtomic
<1>2. TypeOK /\ at \in Gids /\ faults \in 0..FsyncFaults /\ FsyncFaults \in Nat
  BY <1>1, StoreConstants DEF CoreInv, CommitInv, TypeOK
<1>3. /\ live \in [Gids -> SUBSET File] /\ low \in [Gids -> SUBSET File]
      /\ high \in [Gids -> SUBSET File]
      /\ low[at] \subseteq live[at] /\ live[at] \subseteq high[at]
  BY <1>2, StoreTypes DEF CoreInv, SyncInv
<1>4. CASE abandon /\ UNCHANGED faults
  BY <1>1, <1>2, <1>4, AbandonKeeps
<1>5. CASE /\ live' = [live EXCEPT ![at] = @ \cup {pc}]
           /\ high' = [high EXCEPT ![at] = @ \cup {pc}]
           /\ \/ low' = [low EXCEPT ![at] = live[at] \cup {pc}] /\ fsyncOk
              \/ UNCHANGED low /\ fsyncFails
           /\ pc' = CASE pc = "chain" -> "cert" [] pc = "cert" -> "manifest"
                      [] pc = "manifest" -> "sync"
           /\ UNCHANGED <<bad, meta, mem, recovered, doomed, acked, offered>>
  <2>1. pc' \in {"cert", "manifest", "sync"}
    BY <1>1, <1>5 DEF File
  <2>2. pc' \in Writing \cup {"serve"} /\ pc' # "switch"
    BY <2>1 DEF Writing, File
  <2>3. faults' \in 0..FsyncFaults /\ faults' >= faults
    BY <1>2, <1>5 DEF fsyncOk, fsyncFails
  <2>4. /\ live' \in [Gids -> SUBSET File] /\ low' \in [Gids -> SUBSET File]
        /\ high' \in [Gids -> SUBSET File]
        /\ \A g \in Gids \ {at} : live'[g] = live[g] /\ low'[g] = low[g] /\ high'[g] = high[g]
        /\ low'[at] \subseteq live'[at] /\ live'[at] \subseteq high'[at]
    BY <1>1, <1>2, <1>3, <1>5
  <2>5. UNCHANGED <<ptr, ptrs, at, damage>> /\ UNCHANGED <<bad, meta, mem, recovered, doomed, acked, offered>>
    BY <1>1, <1>5 DEF pointer
  <2> QED
    BY <1>1, <2>2, <2>3, <2>4, <2>5, CandidateKeeps
<1> QED
  BY <1>4, <1>5 DEF writeFileAtomic

\* The generation directory is synced.
LEMMA SyncStep ==
  ASSUME CoreInv, syncGeneration
  PROVE  CoreInv'
<1>1. pc = "sync" /\ pc \in Writing /\ UNCHANGED <<pointer, at, damage>>
  BY WritingFacts DEF syncGeneration
<1>2. TypeOK /\ at \in Gids /\ faults \in 0..FsyncFaults /\ FsyncFaults \in Nat
  BY <1>1, StoreConstants DEF CoreInv, CommitInv, TypeOK
<1>3. /\ live \in [Gids -> SUBSET File] /\ low \in [Gids -> SUBSET File]
      /\ high \in [Gids -> SUBSET File]
  BY <1>2, StoreTypes
<1>4. CASE abandon /\ fsyncFails
  <2>1. faults' \in 0..FsyncFaults /\ faults' >= faults
    BY <1>2, <1>4 DEF fsyncFails
  <2> QED
    BY <1>1, <1>4, <2>1, AbandonKeeps
<1>5. CASE /\ low' = [low EXCEPT ![at] = live[at]]
           /\ high' = [high EXCEPT ![at] = live[at]]
           /\ fsyncOk
           /\ pc' = "switch"
           /\ UNCHANGED <<live, bad, meta, mem, recovered, doomed, acked, offered>>
  <2>1. faults' \in 0..FsyncFaults /\ faults' >= faults
    BY <1>2, <1>5 DEF fsyncOk
  <2>2. /\ live' \in [Gids -> SUBSET File] /\ low' \in [Gids -> SUBSET File]
        /\ high' \in [Gids -> SUBSET File]
        /\ \A g \in Gids \ {at} : live'[g] = live[g] /\ low'[g] = low[g] /\ high'[g] = high[g]
        /\ low'[at] = live'[at] /\ live'[at] = high'[at]
    BY <1>2, <1>3, <1>5
  <2>3. UNCHANGED <<ptr, ptrs, at, damage>> /\ UNCHANGED <<bad, meta, mem, recovered, doomed, acked, offered>>
    BY <1>1, <1>5 DEF pointer
  <2>4. pc' \in Writing
    BY <1>5, WritingFacts
  <2> QED
    BY <1>1, <2>1, <2>2, <2>3, <2>4, CandidateKeeps
<1> QED
  BY <1>4, <1>5 DEF syncGeneration

\* A damaged file costs what it did, wherever the store is outside of recovery and
\* cleanup.
LEMMA SpareFrame ==
  ASSUME SpareInv, UNCHANGED <<live, bad, meta, ptr, damage, acked, offered>>,
         pc' # "walk", pc' # "clean"
  PROVE  SpareInv'
<1>1. \A a \in Gids : Anchor(a) => Anchor(a)'
  BY DEF Anchor, version
<1>2. Dead => Dead'
  BY DEF Dead, loadGeneration, previous
<1> QED
  BY <1>1, <1>2 DEF SpareInv

\* CURRENT names the candidate.
LEMMA SwitchStep ==
  ASSUME CoreInv, switchCurrent
  PROVE  CoreInv'
<1>1. /\ pc = "switch" /\ pc \in Writing
      /\ UNCHANGED <<live, low, high, bad, meta, at, damage>>
  BY WritingFacts DEF switchCurrent, media
<1>2. TypeOK /\ faults \in 0..FsyncFaults /\ FsyncFaults \in 0..1
      /\ mem \in Gids \cup {None} /\ ptrs \subseteq Gids \cup {None}
  BY StoreConstants DEF CoreInv, TypeOK
<1>3. /\ live \in [Gids -> SUBSET File] /\ low \in [Gids -> SUBSET File]
      /\ high \in [Gids -> SUBSET File]
      /\ version(mem) \in Nat /\ acked \in Nat /\ damage \in Nat
  BY <1>2, StoreTypes
<1>4. /\ at \in Gids /\ at # mem /\ low[at] = live[at] /\ recovered
      /\ meta[at] = [prev |-> mem, version |-> version(mem) + 1]
  BY <1>1 DEF CoreInv, CommitInv
<1>5. CASE UNCHANGED <<pointer, faults>> /\ refuse
  <2>1. /\ pc' = "serve" /\ UNCHANGED <<ptr, ptrs, faults>>
        /\ UNCHANGED <<mem, recovered, doomed, acked, offered>>
    BY <1>5 DEF pointer, refuse
  <2>2. low[at] \subseteq live[at] /\ live[at] \subseteq high[at]
    BY <1>4 DEF CoreInv, SyncInv
  <2>3. faults' \in 0..FsyncFaults /\ faults' >= faults
    BY <1>2, <2>1
  <2>4. \A g \in Gids \ {at} : live'[g] = live[g] /\ low'[g] = low[g] /\ high'[g] = high[g]
    BY <1>1
  <2>5. /\ live' \in [Gids -> SUBSET File] /\ low' \in [Gids -> SUBSET File]
        /\ high' \in [Gids -> SUBSET File]
        /\ low'[at] \subseteq live'[at] /\ live'[at] \subseteq high'[at]
    BY <1>1, <1>3, <2>2
  <2> QED
    BY <1>1, <2>1, <2>3, <2>4, <2>5, CandidateKeeps
<1>6. CASE /\ loadGeneration(at)
           /\ ptr' = at
           /\ \/ ptrs' = {at} /\ fsyncOk
              \/ ptrs' = ptrs \cup {at} /\ fsyncFails
           /\ offered' = IF version(at) > offered THEN version(at) ELSE offered
           /\ pc' = "settle"
           /\ UNCHANGED <<mem, recovered, doomed, acked>>
  <2>0. offered' \in 0..MaxVersion
    <3>1. version(at) \in 0..MaxVersion /\ offered \in 0..MaxVersion
      BY <1>2, <1>4, StoreTypes DEF TypeOK
    <3> QED
      BY <1>6, <3>1
  <2>1. live[at] = File /\ bad[at] = {} /\ low[at] = File
    BY <1>4, <1>6 DEF loadGeneration
  <2>2. /\ meta[at].prev = mem /\ version(at) = version(mem) + 1
        /\ \A g : version(g)' = version(g)
    BY <1>1, <1>4, StoreConstants DEF version
  <2>3. \/ ptrs' = {at} /\ faults' = faults
        \/ ptrs' = ptrs \cup {at} /\ faults = 0 /\ faults' = 1 /\ faults' \in 0..FsyncFaults
    BY <1>2, <1>6 DEF fsyncOk, fsyncFails
  <2>4. TypeOK'
    BY <1>1, <1>2, <1>4, <1>6, <2>0, <2>3 DEF TypeOK, Location
  <2>5. SyncInv' /\ CleanInv'
    BY <1>1, <1>6 DEF CoreInv, SyncInv, CleanInv
  <2>6. CommitInv'
    BY <1>1, <1>4, <1>6, <2>2, WritingFacts DEF CommitInv
  <2>7. WholeInv'
    <3> SUFFICES ASSUME damage = 0 PROVE WholeInv'
      BY <1>1 DEF WholeInv
    <3>1. WholeInv /\ version(mem) >= acked
      BY <1>3, <1>4 DEF CoreInv, ServeInv
    <3>2. CommitSurvivesPowerLoss'
      BY <1>1, <1>2, <1>3, <1>6, <2>1, <2>2, <2>3, <3>1 DEF WholeInv, CommitSurvivesPowerLoss
    <3>3. faults = 0 => ptrs = {ptr} /\ mem = ptr
      BY <1>1, <1>4, <3>1 DEF WholeInv
    <3>4. \A p \in ptrs' : p = at \/ p = mem
      BY <2>3, <3>3
    <3>5. at # None
      BY <1>4, StoreConstants
    <3> QED
      BY <1>1, <1>4, <1>6, <2>1, <2>2, <2>3, <3>1, <3>2, <3>4, <3>5 DEF WholeInv
  <2>8. SpareInv'
    <3> SUFFICES ASSUME damage = 1 PROVE SpareInv'
      BY <1>1 DEF SpareInv
    <3>1. version(at) + 1 >= acked
      BY <1>3, <1>4, <2>2 DEF CoreInv, ServeInv
    <3>2. Anchor(at)'
      BY <1>1, <1>4, <1>6, <2>1, <2>2, <3>1 DEF Anchor
    <3> QED
      BY <1>1, <1>4, <1>6, <3>2, StoreConstants DEF SpareInv
  <2>9. ServeInv'
    BY <1>1, <1>6, <2>2 DEF CoreInv, ServeInv
  <2> QED
    BY <1>6, <2>4, <2>5, <2>6, <2>7, <2>8, <2>9 DEF CoreInv
<1> QED
  BY <1>5, <1>6 DEF switchCurrent

\* What cleanupOrphans spares.
LEMMA OrphansSpare ==
  ASSUME NEW keep
  PROVE  orphans(keep) \subseteq Gids /\ \A g \in keep : g \notin orphans(keep)
BY DEF orphans

\* commit is decided.
LEMMA SettleStep ==
  ASSUME CoreInv, settle
  PROVE  CoreInv'
<1>1. pc = "settle" /\ UNCHANGED <<live, low, high, bad, meta, ptr, at, damage>>
  BY DEF settle, media
<1>2. TypeOK /\ mem \in Gids \cup {None} /\ ptr \in Gids \cup {None}
      /\ faults \in 0..FsyncFaults /\ FsyncFaults \in 0..1
  BY StoreConstants DEF CoreInv, TypeOK
<1>3. /\ at \in Gids /\ at # None /\ at # mem /\ at = ptr /\ recovered
      /\ meta[at] = [prev |-> mem, version |-> version(mem) + 1]
  BY <1>1, StoreConstants DEF CoreInv, CommitInv
<1>4. /\ version(mem) \in Nat /\ acked \in Nat /\ damage \in Nat
      /\ meta[at].version \in 0..MaxVersion
  BY <1>2, <1>3, StoreTypes DEF version
<1>5. /\ meta[at].prev = mem /\ version(at) = version(mem) + 1
      /\ version(at) = meta[at].version /\ \A g : version(g)' = version(g)
  BY <1>1, <1>3 DEF version
<1>6. CASE fsyncFails /\ UNCHANGED ptrs /\ refuse
  <2>1. pc' = "serve" /\ UNCHANGED <<ptrs, mem, recovered, doomed, acked, offered>>
    BY <1>6 DEF refuse
  <2>2. faults' \in 0..FsyncFaults /\ faults' # 0
    BY <1>2, <1>6 DEF fsyncFails
  <2>3. TypeOK'
    BY <1>1, <1>2, <2>1, <2>2 DEF TypeOK, Location
  <2>4. SyncInv' /\ CommitInv' /\ CleanInv'
    BY <1>1, <1>3, <2>1, WritingFacts DEF CoreInv, SyncInv, CommitInv, CleanInv
  <2>5. CommitSurvivesPowerLoss = CommitSurvivesPowerLoss'
    BY <1>1, <1>5, <2>1 DEF CommitSurvivesPowerLoss
  <2>6. WholeInv'
    BY <1>1, <2>1, <2>2, <2>5 DEF CoreInv, WholeInv
  <2>7. SpareInv'
    BY <1>1, <2>1, SpareFrame DEF CoreInv
  <2>8. ServeInv'
    BY <1>1, <1>5, <2>1 DEF CoreInv, ServeInv
  <2> QED
    BY <2>1, <2>3, <2>4, <2>6, <2>7, <2>8 DEF CoreInv
<1>7. CASE /\ fsyncOk
           /\ ptrs' = {at}
           /\ mem' = at
           /\ acked' = meta[at].version
           /\ doomed' = orphans({at, meta[at].prev})
           /\ pc' = "clean"
           /\ UNCHANGED <<recovered, offered>>
  <2>1. faults' = faults
    BY <1>7 DEF fsyncOk
  <2>2. doomed' \subseteq Gids /\ at \notin doomed' /\ mem \notin doomed'
    BY <1>5, <1>7, OrphansSpare
  <2>3. TypeOK'
    BY <1>1, <1>2, <1>3, <1>4, <1>7, <2>1, <2>2 DEF TypeOK, Location
  <2>4. SyncInv'
    BY <1>1 DEF CoreInv, SyncInv
  <2>5. CommitInv'
    BY <1>7, WritingFacts DEF CommitInv
  <2>6. CleanInv'
    BY <1>1, <1>5, <1>7, <2>2 DEF CleanInv
  <2>7. WholeInv'
    <3> SUFFICES ASSUME damage = 0 PROVE WholeInv'
      BY <1>1 DEF WholeInv
    <3>1. WholeInv /\ low[at] = File
      BY <1>3 DEF CoreInv, WholeInv, CommitSurvivesPowerLoss
    <3>2. CommitSurvivesPowerLoss'
      BY <1>1, <1>4, <1>5, <1>7, <3>1 DEF CommitSurvivesPowerLoss
    <3>3. faults = 0 /\ ptr # None =>
            /\ version(ptr)' = version(meta[ptr].prev)' + 1
            /\ meta'[ptr].prev # None => low'[meta'[ptr].prev] = File
      BY <1>1, <1>3, <1>5, <3>1 DEF WholeInv
    <3> QED
      BY <1>1, <1>3, <1>7, <2>1, <3>1, <3>2, <3>3 DEF WholeInv
  <2>8. SpareInv'
    <3> SUFFICES ASSUME damage = 1 PROVE SpareInv'
      BY <1>1 DEF SpareInv
    <3>1. Dead => Dead'
      BY <1>1 DEF Dead, loadGeneration, previous
    <3>2. ASSUME NEW a \in Gids, Anchor(a) PROVE Anchor(a)'
      <4>1. a = at \/ a = mem
        BY <1>3, <1>5, <3>2 DEF Anchor
      <4>2. version(a) + 1 >= acked' /\ a \notin doomed'
        BY <1>4, <1>5, <1>7, <2>2, <4>1
      <4> QED
        BY <1>1, <1>5, <3>2, <4>2 DEF Anchor
    <3> QED
      BY <1>1, <1>3, <1>7, <3>1, <3>2 DEF CoreInv, SpareInv
  <2>9. ServeInv'
    BY <1>1, <1>4, <1>5, <1>7 DEF ServeInv
  <2> QED
    BY <1>7, <2>3, <2>4, <2>5, <2>6, <2>7, <2>8, <2>9 DEF CoreInv
<1> QED
  BY <1>6, <1>7 DEF settle

\* One file of an orphan is removed.
LEMMA RemoveOrphanStep ==
  ASSUME CoreInv, NEW g \in Gids, removeOrphan(g)
  PROVE  CoreInv'
<1>1. /\ pc = "clean" /\ g \in doomed
      /\ UNCHANGED <<high, bad, meta, ptr, ptrs, mem, recovered, pc, at, faults, damage, acked, offered>>
  BY DEF removeOrphan, pointer, budget
<1>2. PICK f \in File : /\ live' = [live EXCEPT ![g] = live[g] \ {f}]
                        /\ low' = [low EXCEPT ![g] = @ \cap (live[g] \ {f})]
                        /\ doomed' \subseteq doomed
  BY DEF removeOrphan, File
<1>3. TypeOK /\ ptr \in Gids \cup {None} /\ mem \in Gids \cup {None}
      /\ ptrs \subseteq Gids \cup {None} /\ doomed \subseteq Gids /\ None \notin Gids
  BY StoreConstants DEF CoreInv, TypeOK
<1>4. live \in [Gids -> SUBSET File] /\ low \in [Gids -> SUBSET File]
  BY <1>3, StoreTypes
<1>5. /\ live' \in [Gids -> SUBSET File] /\ low' \in [Gids -> SUBSET File]
      /\ live'[g] = live[g] \ {f} /\ low'[g] = low[g] \cap live'[g]
      /\ \A h \in Gids \ {g} : live'[h] = live[h] /\ low'[h] = low[h]
  BY <1>2, <1>4
<1>6. g # mem /\ (mem # None => meta[mem].prev # g)
  BY <1>1 DEF CoreInv, CleanInv
<1>7. \A p : version(p)' = version(p)
  BY <1>1 DEF version
<1>8. TypeOK'
  BY <1>1, <1>2, <1>3, <1>5 DEF TypeOK
<1>9. SyncInv'
  BY <1>1, <1>5 DEF CoreInv, SyncInv
<1>10. CommitInv' /\ CleanInv'
  BY <1>1, <1>2, WritingFacts DEF CoreInv, CommitInv, CleanInv
<1>11. WholeInv'
  <2> SUFFICES ASSUME damage = 0 PROVE WholeInv'
    BY <1>1 DEF WholeInv
  <2>1. WholeInv /\ recovered /\ mem = ptr
    BY <1>1 DEF CoreInv, WholeInv
  <2>2. g \notin ptrs
    BY <1>1, <1>3, <1>6, <2>1 DEF WholeInv
  <2>3. \A p \in ptrs : p # None => low'[p] = low[p]
    BY <1>3, <1>5, <2>2
  <2>4. CommitSurvivesPowerLoss'
    BY <1>1, <1>7, <2>1, <2>3 DEF WholeInv, CommitSurvivesPowerLoss
  <2>5. mem # None => low'[mem] = low[mem]
    BY <1>3, <1>5, <1>6
  <2>6. mem # None /\ meta[mem].prev # None => low'[meta[mem].prev] = low[meta[mem].prev]
    BY <1>3, <1>5, <1>6, StoreTypes
  <2> QED
    BY <1>1, <1>7, <2>1, <2>4, <2>5, <2>6 DEF WholeInv
<1>12. SpareInv'
  <2> SUFFICES ASSUME damage = 1 PROVE SpareInv'
    BY <1>1 DEF SpareInv
  <2>1. ASSUME ptr # None, Dead PROVE Dead'
    <3>1. ptr \in Gids /\ live'[ptr] \subseteq live[ptr]
      BY <1>3, <1>5, <2>1
    <3>2. live'[ptr] = File => live[ptr] = File
      BY <1>4, <3>1
    <3> QED
      BY <1>1, <2>1, <3>1, <3>2 DEF Dead, loadGeneration, previous
  <2>2. ASSUME NEW a \in Gids, Anchor(a) PROVE Anchor(a)'
    <3>1. a # g /\ a \notin doomed'
      BY <1>1, <1>2, <2>2 DEF Anchor
    <3> QED
      BY <1>1, <1>5, <1>7, <2>2, <3>1 DEF Anchor
  <2> QED
    BY <1>1, <2>1, <2>2 DEF CoreInv, SpareInv
<1>13. ServeInv'
  BY <1>1, <1>7 DEF CoreInv, ServeInv
<1> QED
  BY <1>1, <1>8, <1>9, <1>10, <1>11, <1>12, <1>13 DEF CoreInv

\* Cleanup ends.
LEMMA CleanedStep ==
  ASSUME CoreInv, cleaned
  PROVE  CoreInv'
<1>1. /\ pc = "clean" /\ at' = None
      /\ UNCHANGED <<live, low, high, bad, meta, ptr, ptrs, mem, recovered, doomed,
                     faults, damage, acked, offered>>
  BY DEF cleaned, media, pointer, budget
<1>2. (recovered /\ pc' = "serve") \/ (~recovered /\ pc' = "error")
  BY DEF cleaned
<1>3. \A p : version(p)' = version(p)
  BY <1>1 DEF version
<1>4. TypeOK'
  BY <1>1, <1>2 DEF CoreInv, TypeOK, Location
<1>5. SyncInv' /\ CommitInv' /\ CleanInv'
  BY <1>1, <1>2, WritingFacts DEF CoreInv, SyncInv, CommitInv, CleanInv
<1>6. CommitSurvivesPowerLoss' = CommitSurvivesPowerLoss
  BY <1>1, <1>3 DEF CommitSurvivesPowerLoss
<1>7. WholeInv'
  BY <1>1, <1>2, <1>3, <1>6 DEF CoreInv, WholeInv
<1>8. SpareInv'
  BY <1>1, <1>2, SpareFrame DEF CoreInv
<1>9. ServeInv'
  BY <1>1, <1>3 DEF CoreInv, ServeInv
<1> QED
  BY <1>2, <1>4, <1>5, <1>7, <1>8, <1>9 DEF CoreInv

-----------------------------------------------------------------------------
(***************************************************************************)
(* openAndRecover, crashes, media faults                                   *)
(***************************************************************************)

\* Without damage, what CURRENT names can be loaded.
LEMMA CurrentLoads ==
  ASSUME CoreInv, damage = 0, ptr # None
  PROVE  loadGeneration(ptr) /\ low[ptr] = File /\ version(ptr) >= acked
<1>1. TypeOK /\ ptr \in Gids
  BY DEF CoreInv, TypeOK
<1>2. low[ptr] = File /\ version(ptr) >= acked /\ bad[ptr] = {}
  BY <1>1 DEF CoreInv, WholeInv, CommitSurvivesPowerLoss
<1>3. live[ptr] = File
  BY <1>1, <1>2, StoreTypes DEF CoreInv, SyncInv
<1> QED
  BY <1>2, <1>3 DEF loadGeneration

\* CURRENT is read.
LEMMA OpenStep ==
  ASSUME CoreInv, openAndRecover
  PROVE  CoreInv'
<1>1. pc = "down" /\ UNCHANGED <<live, low, high, bad, meta, ptr, ptrs, faults, damage, acked, offered>>
  BY DEF openAndRecover, media, pointer, budget
<1>2. TypeOK /\ ptr \in Gids \cup {None} /\ None \notin Gids
  BY StoreConstants DEF CoreInv, TypeOK
<1>3. acked \in Nat /\ damage \in Nat /\ version(None) = 0
  BY <1>2, StoreTypes DEF version
<1>4. \A p : version(p)' = version(p)
  BY <1>1 DEF version
<1>5. SyncInv'
  BY <1>1 DEF CoreInv, SyncInv
<1>6. CommitSurvivesPowerLoss' = CommitSurvivesPowerLoss
  BY <1>1, <1>4 DEF CommitSurvivesPowerLoss
<1>7. CASE ptr = None /\ settleOn(None, TRUE)
  <2>1. mem' = None /\ doomed' = orphans({}) /\ pc' = "clean" /\ at' = at
    BY <1>7 DEF settleOn
  <2>2. recovered' /\ recovered' \in BOOLEAN
    BY <1>7 DEF settleOn
  <2>3. doomed' \subseteq Gids /\ None \notin doomed'
    BY <1>2, <2>1, OrphansSpare
  <2>4. TypeOK'
    BY <1>1, <1>2, <2>1, <2>2, <2>3 DEF TypeOK, Location
  <2>5. CommitInv' /\ CleanInv'
    BY <2>1, <2>3, WritingFacts DEF CommitInv, CleanInv
  <2>6. WholeInv'
    BY <1>1, <1>6, <1>7, <2>1, <2>2 DEF CoreInv, WholeInv
  <2>7. SpareInv'
    BY <1>1, <1>7, <2>1 DEF CoreInv, SpareInv
  <2>8. damage = 0 => acked = 0
    BY <1>3, <1>7 DEF CoreInv, WholeInv, CommitSurvivesPowerLoss
  <2>9. damage = 1 => acked <= 1
    BY <1>7 DEF CoreInv, SpareInv
  <2>10. ServeInv'
    BY <1>1, <1>3, <1>4, <2>1, <2>8, <2>9 DEF ServeInv
  <2> QED
    BY <1>5, <2>1, <2>4, <2>5, <2>6, <2>7, <2>10 DEF CoreInv
<1>8. CASE ptr # None /\ at' = ptr /\ pc' = "walk" /\ UNCHANGED <<mem, recovered, doomed>>
  <2>1. ~recovered
    BY <1>1 DEF CoreInv, CommitInv
  <2>2. TypeOK'
    BY <1>1, <1>2, <1>8 DEF TypeOK, Location
  <2>3. CommitInv' /\ CleanInv'
    BY <1>8, <2>1, WritingFacts DEF CommitInv, CleanInv
  <2>4. WholeInv'
    BY <1>1, <1>4, <1>6, <1>8, <2>1 DEF CoreInv, WholeInv
  <2>5. SpareInv'
    <3>1. \A a \in Gids : Anchor(a) => Anchor(a)'
      BY <1>1, <1>4, <1>8 DEF Anchor
    <3>2. Dead => Dead'
      BY <1>1 DEF Dead, loadGeneration, previous
    <3> QED
      BY <1>1, <1>8, <3>1, <3>2 DEF CoreInv, SpareInv
  <2>6. ServeInv'
    BY <1>8, <2>1 DEF ServeInv
  <2> QED
    BY <1>5, <1>8, <2>2, <2>3, <2>4, <2>5, <2>6 DEF CoreInv
<1> QED
  BY <1>7, <1>8 DEF openAndRecover

\* One generation of the chain is examined.
LEMMA WalkStep ==
  ASSUME CoreInv, walkBack
  PROVE  CoreInv'
<1>1. pc = "walk" /\ UNCHANGED <<live, low, high, bad, meta, ptr, ptrs, faults, damage, acked, offered>>
  BY DEF walkBack, media, pointer, budget
<1>2. TypeOK /\ at \in Gids /\ ptr \in Gids \cup {None} /\ None \notin Gids
  BY <1>1, StoreConstants DEF CoreInv, TypeOK
<1>3. acked \in Nat /\ damage \in Nat /\ meta[at].prev \in Gids \cup {None}
      /\ version(at) \in Nat
  BY <1>2, StoreTypes
<1>4. \A p : version(p)' = version(p)
  BY <1>1 DEF version
<1>5. SyncInv'
  BY <1>1 DEF CoreInv, SyncInv
<1>6. CommitSurvivesPowerLoss' = CommitSurvivesPowerLoss
  BY <1>1, <1>4 DEF CommitSurvivesPowerLoss
<1>7. damage = 0 => at = ptr /\ loadGeneration(at) /\ low[at] = File /\ version(at) >= acked
  BY <1>1, <1>2, CurrentLoads DEF CoreInv, WholeInv
<1>8. damage = 1 => /\ ptr # None /\ (at = ptr \/ Anchor(at))
                    /\ Dead \/ \E a \in Gids : Anchor(a)
  BY <1>1 DEF CoreInv, SpareInv
<1>9. Dead => Dead'
  BY <1>1 DEF Dead, loadGeneration, previous
<1>10. \A a \in Gids : Anchor(a) => loadGeneration(a) /\ version(a) + 1 >= acked
  BY <1>2 DEF Anchor, loadGeneration
<1>11. CASE loadGeneration(at) /\ settleOn(at, TRUE)
  <2>1. /\ mem' = at /\ doomed' = orphans({at, meta[at].prev}) /\ pc' = "clean"
        /\ at' = at
    BY <1>2, <1>11 DEF settleOn
  <2>2. recovered' /\ recovered' \in BOOLEAN
    BY <1>11 DEF settleOn
  <2>3. doomed' \subseteq Gids /\ at \notin doomed' /\ meta[at].prev \notin doomed'
    BY <2>1, OrphansSpare
  <2>4. TypeOK'
    BY <1>1, <1>2, <2>1, <2>2, <2>3 DEF TypeOK, Location
  <2>5. CommitInv' /\ CleanInv'
    BY <1>1, <2>1, <2>3, WritingFacts DEF CommitInv, CleanInv
  <2>6. WholeInv'
    BY <1>1, <1>4, <1>6, <1>7, <2>1, <2>2 DEF CoreInv, WholeInv
  <2>7. damage = 1 => Anchor(at)
    <3> SUFFICES ASSUME damage = 1, at = ptr PROVE Anchor(at)
      BY <1>8
    <3>1. ~Dead
      BY <1>11 DEF Dead
    <3>2. PICK a \in Gids : Anchor(a)
      BY <1>8, <3>1
    <3>3. a = ptr
      BY <1>11, <3>2 DEF Anchor, loadGeneration
    <3> QED
      BY <3>2, <3>3
  <2>8. damage = 1 => Anchor(at)'
    BY <1>1, <1>4, <2>1, <2>3, <2>7 DEF Anchor
  <2>9. SpareInv'
    BY <1>1, <1>2, <1>8, <2>1, <2>8 DEF SpareInv
  <2>10. damage = 1 => version(at) + 1 >= acked
    BY <1>2, <1>10, <2>7
  <2>11. ServeInv'
    BY <1>1, <1>3, <1>4, <1>7, <2>1, <2>10 DEF ServeInv
  <2> QED
    BY <1>5, <2>1, <2>4, <2>5, <2>6, <2>9, <2>11 DEF CoreInv
<1>12. CASE /\ ~loadGeneration(at) /\ previous(at) # None
            /\ at' = previous(at)
            /\ UNCHANGED <<mem, recovered, doomed, pc>>
  <2>1. damage # 0 /\ at' \in Gids /\ at' = meta[at].prev
    BY <1>3, <1>7, <1>12 DEF previous
  <2>2. TypeOK'
    BY <1>1, <1>2, <1>12, <2>1 DEF TypeOK
  <2>3. CommitInv' /\ CleanInv'
    BY <1>1, <1>12, WritingFacts DEF CoreInv, CommitInv, CleanInv
  <2>4. WholeInv'
    BY <1>1, <2>1 DEF WholeInv
  <2>5. SpareInv'
    <3> SUFFICES ASSUME damage = 1 PROVE SpareInv'
      BY <1>1 DEF SpareInv
    <3>1. at = ptr /\ ~Dead
      BY <1>2, <1>8, <1>10, <1>12 DEF Dead
    <3>2. PICK a \in Gids : Anchor(a)
      BY <1>8, <3>1
    <3>3. a # ptr
      BY <1>10, <1>12, <3>1, <3>2
    <3>4. a = at'
      BY <2>1, <3>1, <3>2, <3>3 DEF Anchor
    <3>5. Anchor(a)'
      BY <1>1, <1>4, <1>12, <3>2 DEF Anchor
    <3>6. Anchor(at)'
      BY <3>4, <3>5 DEF Anchor
    <3> QED
      BY <1>1, <1>2, <1>8, <1>12, <3>5, <3>6 DEF SpareInv
  <2>6. ServeInv'
    BY <1>1, <1>12 DEF CoreInv, CommitInv, ServeInv
  <2> QED
    BY <1>2, <1>5, <2>1, <2>2, <2>3, <2>4, <2>5, <2>6 DEF CoreInv
<1>13. CASE /\ ~loadGeneration(at) /\ previous(at) = None
            /\ settleOn(None, FALSE)
  <2>1. mem' = None /\ doomed' = orphans({}) /\ pc' = "clean" /\ at' = at /\ damage # 0
    BY <1>7, <1>13 DEF settleOn
  <2>2. ~recovered' /\ recovered' \in BOOLEAN
    BY <1>13 DEF settleOn
  <2>3. doomed' \subseteq Gids /\ None \notin doomed'
    BY <1>2, <2>1, OrphansSpare
  <2>4. TypeOK'
    BY <1>1, <1>2, <2>1, <2>2, <2>3 DEF TypeOK, Location
  <2>5. CommitInv' /\ CleanInv'
    BY <2>1, <2>3, WritingFacts DEF CommitInv, CleanInv
  <2>6. WholeInv'
    BY <1>1, <2>1 DEF WholeInv
  <2>7. damage = 1 => Dead
    BY <1>2, <1>8, <1>10, <1>13 DEF Dead
  <2>8. SpareInv'
    BY <1>1, <1>8, <1>9, <2>1, <2>7 DEF SpareInv
  <2>9. ServeInv'
    BY <2>2 DEF ServeInv
  <2> QED
    BY <1>5, <2>1, <2>4, <2>5, <2>6, <2>8, <2>9 DEF CoreInv
<1> QED
  BY <1>11, <1>12, <1>13 DEF walkBack

\* The process ends.
LEMMA CrashStep ==
  ASSUME CoreInv, crash
  PROVE  CoreInv'
<1>1. /\ pc' = "down" /\ mem' = None /\ at' = None /\ doomed' = {}
      /\ UNCHANGED <<live, low, high, bad, meta, ptr, ptrs, faults, damage, acked, offered>>
  BY DEF crash, ProcessGone, media, pointer, budget
<1>2. ~recovered' /\ recovered' \in BOOLEAN
  BY DEF crash, ProcessGone
<1>3. \A p : version(p)' = version(p)
  BY <1>1 DEF version
<1>4. TypeOK'
  BY <1>1, <1>2 DEF CoreInv, TypeOK, Location
<1>5. SyncInv' /\ CommitInv' /\ CleanInv'
  BY <1>1, <1>2, WritingFacts DEF CoreInv, SyncInv, CommitInv, CleanInv
<1>6. CommitSurvivesPowerLoss' = CommitSurvivesPowerLoss
  BY <1>1, <1>3 DEF CommitSurvivesPowerLoss
<1>7. WholeInv'
  BY <1>1, <1>2, <1>3, <1>6 DEF CoreInv, WholeInv
<1>8. SpareInv'
  BY <1>1, SpareFrame DEF CoreInv
<1>9. ServeInv'
  BY <1>2 DEF ServeInv
<1> QED
  BY <1>1, <1>4, <1>5, <1>7, <1>8, <1>9 DEF CoreInv

\* The power fails.
LEMMA PowerLossStep ==
  ASSUME CoreInv, powerLoss
  PROVE  CoreInv'
<1>1. /\ pc' = "down" /\ mem' = None /\ at' = None /\ doomed' = {} /\ damage = 0
      /\ UNCHANGED <<bad, faults, damage, acked, offered>>
  BY DEF powerLoss, ProcessGone, budget
<1>2. ~recovered' /\ recovered' \in BOOLEAN
  BY DEF powerLoss, ProcessGone
<1>3. PICK left \in [Gids -> SUBSET File] :
        /\ \A g \in Gids : low[g] \subseteq left[g] /\ left[g] \subseteq high[g]
        /\ live' = left /\ low' = left /\ high' = left
        /\ meta' = [g \in Gids |-> IF left[g] = {} THEN NoMeta ELSE meta[g]]
  BY DEF powerLoss
<1>4. PICK p \in ptrs : ptr' = p /\ ptrs' = {p}
  BY DEF powerLoss
<1>5. /\ TypeOK /\ ptr \in Gids \cup {None} /\ None \notin Gids /\ WholeInv
      /\ ptrs \subseteq Gids \cup {None} /\ p \in Gids \cup {None}
  BY StoreConstants DEF CoreInv, TypeOK
<1>6. /\ meta \in [Gids -> [prev : Gids \cup {None}, version : 0..MaxVersion]]
      /\ low \in [Gids -> SUBSET File] /\ acked \in Nat
      /\ \A g \in Gids : meta[g].prev \in Gids \cup {None}
  BY <1>5, StoreTypes
<1>7. NoMeta \in [prev : Gids \cup {None}, version : 0..MaxVersion]
  BY StoreConstants DEF NoMeta
<1>8. meta' \in [Gids -> [prev : Gids \cup {None}, version : 0..MaxVersion]]
  BY <1>3, <1>6, <1>7
<1>9. \A g \in Gids : low[g] = File => left[g] = File /\ meta'[g] = meta[g]
  <2> SUFFICES ASSUME NEW g \in Gids, low[g] = File
               PROVE  left[g] = File /\ meta'[g] = meta[g]
    OBVIOUS
  <2>1. left[g] = File
    BY <1>3
  <2>2. File # {}
    BY DEF File
  <2> QED
    BY <1>3, <2>1, <2>2
<1>10. TypeOK'
  BY <1>1, <1>2, <1>3, <1>4, <1>5, <1>8 DEF TypeOK, Location
<1>11. SyncInv' /\ CommitInv' /\ CleanInv'
  BY <1>1, <1>2, <1>3, WritingFacts DEF SyncInv, CommitInv, CleanInv
<1>12. WholeInv'
  <2>1. p # None => low[p] = File /\ low'[p] = File /\ meta'[p] = meta[p]
    BY <1>1, <1>3, <1>5, <1>9 DEF WholeInv, CommitSurvivesPowerLoss
  <2>2. version(p)' = version(p) /\ version(p) >= acked
    BY <1>1, <1>5, <2>1, VersionFrame DEF WholeInv, CommitSurvivesPowerLoss
  <2>3. CommitSurvivesPowerLoss'
    BY <1>1, <1>4, <2>1, <2>2 DEF CommitSurvivesPowerLoss
  <2>4. ASSUME faults = 0, p # None
        PROVE  /\ version(p)' = version(meta[p].prev)' + 1
               /\ meta'[p].prev # None => low'[meta'[p].prev] = File
    <3>1. /\ p = ptr /\ version(p) = version(meta[p].prev) + 1
          /\ meta[p].prev # None => low[meta[p].prev] = File
      BY <1>1, <1>4, <1>5, <2>4 DEF WholeInv
    <3>2. meta[p].prev \in Gids \cup {None}
      BY <1>5, <1>6, <2>4
    <3>3. /\ meta[p].prev = None \/ meta'[meta[p].prev] = meta[meta[p].prev]
          /\ meta[p].prev # None => left[meta[p].prev] = File
      BY <1>9, <3>1, <3>2
    <3> DEFINE q == meta[p].prev
    <3>4. version(q)' = (IF meta'[p].prev = None THEN 0 ELSE meta'[meta'[p].prev].version)
      BY DEF version
    <3>5. version(q)' = version(q)
      BY <2>1, <2>4, <3>3, <3>4 DEF version
    <3> QED
      BY <1>3, <2>1, <2>2, <2>4, <3>1, <3>3, <3>5
  <2> QED
    BY <1>1, <1>2, <1>4, <1>5, <2>3, <2>4 DEF WholeInv
<1>13. SpareInv' /\ ServeInv'
  BY <1>1, <1>2 DEF SpareInv, ServeInv
<1> QED
  BY <1>1, <1>10, <1>11, <1>12, <1>13 DEF CoreInv

\* A file is damaged.
LEMMA MediaFaultStep ==
  ASSUME CoreInv, NEW g \in Gids, NEW f \in File, mediaFault(g, f)
  PROVE  CoreInv'
<1>1. /\ damage < Damage /\ faults = 0 /\ f \in live[g] /\ f \notin bad[g]
      /\ bad' = [bad EXCEPT ![g] = @ \cup {f}] /\ damage' = damage + 1
      /\ UNCHANGED <<live, low, high, meta, ptr, ptrs, mem, recovered, pc, at, doomed,
                     faults, acked, offered>>
  BY DEF mediaFault, pointer
<1>2. /\ TypeOK /\ ptr \in Gids \cup {None} /\ None \notin Gids
      /\ damage \in 0..Damage /\ Damage \in Nat
  BY StoreConstants DEF CoreInv, TypeOK
<1>3. /\ bad \in [Gids -> SUBSET File] /\ acked \in Nat
      /\ mem \in Gids \cup {None} => version(mem) \in Nat
  BY <1>2, StoreTypes
<1>4. /\ bad' \in [Gids -> SUBSET File] /\ bad'[g] = bad[g] \cup {f}
      /\ \A h \in Gids \ {g} : bad'[h] = bad[h]
  BY <1>1, <1>3
<1>5. damage' \in 0..Damage /\ damage' # 0 /\ damage' > 0
  BY <1>1, <1>2
<1>6. \A p : version(p)' = version(p)
  BY <1>1 DEF version
<1>7. TypeOK'
  BY <1>1, <1>2, <1>4, <1>5 DEF TypeOK
<1>8. SyncInv' /\ CommitInv' /\ CleanInv'
  BY <1>1, <1>6 DEF CoreInv, SyncInv, CommitInv, CleanInv
<1>9. WholeInv'
  BY <1>5 DEF WholeInv
<1>10. SpareInv'
  <2> SUFFICES ASSUME damage = 0 PROVE SpareInv'
    BY <1>1, <1>2 DEF SpareInv
  <2>1. WholeInv /\ CleanInv /\ SyncInv
    BY DEF CoreInv
  <2>2. /\ \A h \in Gids : bad[h] = {}
        /\ ptrs = {ptr} /\ version(ptr) >= acked /\ (pc = "clean" => mem = ptr)
        /\ pc = "walk" => at = ptr /\ ptr # None
    BY <1>1, <2>1 DEF WholeInv, CommitSurvivesPowerLoss, CoreInv
  <2>3. ptr = None => acked <= 1
    BY <1>3, <2>2 DEF version
  <2>4. ASSUME ptr # None, g # ptr PROVE Anchor(ptr)'
    <3>1. ptr \in Gids /\ live[ptr] = File /\ bad'[ptr] = {}
      BY <1>2, <1>4, <2>2, <2>4, CurrentLoads DEF loadGeneration
    <3>2. version(ptr) + 1 >= acked
      BY <1>2, <1>3, <2>2, StoreTypes
    <3>3. pc = "clean" => ptr \notin doomed
      BY <2>1, <2>2 DEF CleanInv
    <3> QED
      BY <1>1, <1>6, <3>1, <3>2, <3>3 DEF Anchor
  <2>5. ASSUME g = ptr, f = "manifest" \/ meta[ptr].prev = None PROVE Dead'
    BY <1>1, <1>4, <2>5 DEF Dead, loadGeneration, previous
  <2>6. ASSUME g = ptr, meta[ptr].prev # None PROVE Anchor(meta[ptr].prev)'
    <3> DEFINE a == meta[ptr].prev
    <3>1. /\ a \in Gids /\ version(ptr) = version(a) + 1 /\ low[a] = File
          /\ version(a) \in Nat
      BY <1>1, <1>2, <2>1, <2>6, StoreTypes DEF WholeInv
    <3>2. a # ptr /\ bad'[a] = {} /\ bad'[ptr] # {}
      BY <1>4, <2>2, <2>6, <3>1
    <3>3. live[a] = File
      BY <1>2, <2>1, <3>1, StoreTypes DEF SyncInv
    <3>4. version(a) + 1 >= acked
      BY <2>2, <3>1
    <3>5. pc = "clean" => a \notin doomed
      BY <1>2, <2>1, <2>2, <2>6 DEF CleanInv
    <3>6. version(a)' = version(a) /\ a' = a
      BY <1>1, <1>6 DEF version
    <3> QED
      BY <1>1, <3>1, <3>2, <3>3, <3>4, <3>5, <3>6 DEF Anchor
  <2>7. ptr # None => Dead' \/ \E a \in Gids : Anchor(a)'
    <3>1. g = ptr /\ meta[ptr].prev # None => meta'[ptr'].prev \in Gids /\ meta'[ptr'].prev = meta[ptr].prev
      BY <1>1, <1>2, StoreTypes
    <3>2. ASSUME g = ptr, meta[ptr].prev # None PROVE \E a \in Gids : Anchor(a)'
      BY <2>6, <3>1, <3>2 DEF Anchor, version
    <3> QED
      BY <1>1, <1>2, <2>4, <2>5, <3>2 DEF Anchor, version
  <2> QED
    BY <1>1, <2>2, <2>3, <2>7 DEF SpareInv
<1>11. ServeInv'
  <2>1. mem \in Gids \cup {None}
    BY DEF CoreInv, TypeOK
  <2>2. recovered /\ damage = 0 => version(mem) >= acked
    BY <1>3, <2>1 DEF CoreInv, ServeInv
  <2>3. damage' <= 1 => damage = 0 /\ damage' = 1
    BY <1>1, <1>2
  <2> QED
    BY <1>1, <1>3, <1>6, <2>1, <2>2, <2>3 DEF ServeInv
<1> QED
  BY <1>1, <1>7, <1>8, <1>9, <1>10, <1>11 DEF CoreInv

-----------------------------------------------------------------------------
(***************************************************************************)
(* All steps                                                               *)
(***************************************************************************)

\* A step that changes nothing.
LEMMA StoreStutter ==
  ASSUME CoreInv, UNCHANGED vars
  PROVE  CoreInv'
<1>1. /\ UNCHANGED <<live, low, high, bad, meta, ptr, ptrs>>
      /\ UNCHANGED <<mem, recovered, pc, at, doomed, faults, damage, acked, offered>>
  BY DEF vars
<1>2. \A p : version(p)' = version(p)
  BY <1>1 DEF version
<1>3. TypeOK' /\ SyncInv' /\ CommitInv' /\ CleanInv'
  BY <1>1, <1>2 DEF CoreInv, TypeOK, SyncInv, CommitInv, CleanInv
<1>4. CommitSurvivesPowerLoss' = CommitSurvivesPowerLoss
  BY <1>1, <1>2 DEF CommitSurvivesPowerLoss
<1>5. WholeInv'
  BY <1>1, <1>2, <1>4 DEF CoreInv, WholeInv
<1>6. \A a \in Gids : Anchor(a)' = Anchor(a)
  BY <1>1, <1>2 DEF Anchor
<1>7. Dead' = Dead
  BY <1>1 DEF Dead, loadGeneration, previous
<1>8. pc = "walk" => (at \in Gids /\ at' = at /\ Anchor(at)' = Anchor(at))
  BY <1>1, <1>2 DEF CoreInv, TypeOK, Anchor
<1>9. SpareInv'
  BY <1>1, <1>6, <1>7, <1>8 DEF CoreInv, SpareInv
<1>10. ServeInv'
  BY <1>1, <1>2 DEF CoreInv, ServeInv
<1> QED
  BY <1>1, <1>3, <1>5, <1>9, <1>10 DEF CoreInv

\* Every step preserves the invariant of the generations and CURRENT.
LEMMA NextCoreInv == CoreInv /\ [Next]_vars => CoreInv'
<1> SUFFICES ASSUME CoreInv, [Next]_vars PROVE CoreInv'
  OBVIOUS
<1>1. ASSUME NEW g \in Gids, commit(g) PROVE CoreInv'
  BY <1>1, CommitStep
<1>2. ASSUME NEW g \in Gids, removeOrphan(g) PROVE CoreInv'
  BY <1>2, RemoveOrphanStep
<1>3. ASSUME NEW g \in Gids, NEW f \in File, mediaFault(g, f) PROVE CoreInv'
  BY <1>3, MediaFaultStep
<1>4. CASE writeFileAtomic
  BY <1>4, WriteFileStep
<1>5. CASE syncGeneration
  BY <1>5, SyncStep
<1>6. CASE switchCurrent
  BY <1>6, SwitchStep
<1>7. CASE settle
  BY <1>7, SettleStep
<1>8. CASE cleaned
  BY <1>8, CleanedStep
<1>9. CASE openAndRecover
  BY <1>9, OpenStep
<1>10. CASE walkBack
  BY <1>10, WalkStep
<1>11. CASE crash
  BY <1>11, CrashStep
<1>12. CASE powerLoss
  BY <1>12, PowerLossStep
<1>13. CASE UNCHANGED vars
  BY <1>13, StoreStutter
<1> QED
  BY <1>1, <1>2, <1>3, <1>4, <1>5, <1>6, <1>7, <1>8, <1>9, <1>10, <1>11, <1>12, <1>13
     DEF Next, StoreStep

-----------------------------------------------------------------------------
(***************************************************************************)
(* What a restart adopts was offered by a commit                           *)
(***************************************************************************)

\* No manifest is touched, CURRENT and memory name nothing new, and what was offered
\* stays so.
LEMMA OfferKept ==
  ASSUME CoreInv, OfferInv, UNCHANGED meta,
         {ptr', mem'} \cup ptrs' \subseteq {ptr, mem, None} \cup ptrs,
         offered' \in Nat, offered' >= offered,
         pc' = "walk" => at' = at /\ pc = "walk"
  PROVE  OfferInv'
<1>1. \A g : version(g)' = version(g)
  BY DEF version
<1>2. /\ version(None) = 0 /\ offered \in Nat
      /\ \A g \in Gids \cup {None} : version(g) \in Nat
      /\ \A h \in Gids : meta[h].prev \in Gids \cup {None}
      /\ {ptr, mem, at} \cup ptrs \subseteq Gids \cup {None}
  BY StoreTypes, StoreConstants DEF CoreInv, TypeOK, version
<1>3. \A g \in {ptr, mem, None} \cup ptrs : version(g) <= offered'
  BY <1>2 DEF OfferInv
<1>4. \A h \in Gids : version(meta[h].prev) <= offered'
  BY <1>2 DEF OfferInv
<1>5. \A g \in {ptr', mem'} \cup ptrs' : version(g) <= offered'
  BY <1>3
<1>6. pc' = "walk" => version(at) <= offered'
  BY <1>2 DEF OfferInv
<1>7. \A h \in Gids : version(meta[h].prev)' = version(meta[h].prev)
  BY <1>1
<1> QED
  BY <1>1, <1>4, <1>5, <1>6, <1>7 DEF OfferInv

\* A candidate is begun: it follows the generation in memory, and nothing names it.
LEMMA OfferCommit ==
  ASSUME CoreInv, OfferInv, NEW g \in Gids, commit(g)
  PROVE  OfferInv'
<1>1. /\ g \notin ptrs /\ g # ptr /\ g # mem /\ \A h \in Gids : meta[h].prev # g
      /\ meta' = [meta EXCEPT ![g] = [prev |-> mem, version |-> version(mem) + 1]]
      /\ pc' = "chain" /\ UNCHANGED <<ptr, ptrs, mem, offered>>
  BY DEF commit, Fresh, pointer
<1>2. meta \in [Gids -> [prev : Gids \cup {None}, version : 0..MaxVersion]]
  BY StoreTypes DEF CoreInv
<1>3. \A h \in Gids : h # g => meta'[h] = meta[h]
  BY <1>1, <1>2
<1>4. meta'[g].prev = mem
  BY <1>1, <1>2
<1>5. {ptr, mem} \cup ptrs \subseteq Gids \cup {None}
      /\ \A h \in Gids : meta[h].prev \in Gids \cup {None}
  BY StoreTypes DEF CoreInv, TypeOK
<1>6. \A x \in Gids \cup {None} : x # g => version(x)' = version(x)
  BY <1>3 DEF version
<1>7. \A x \in {ptr, mem} \cup ptrs : version(x)' <= offered
  BY <1>1, <1>5, <1>6 DEF OfferInv
<1>8. \A h \in Gids : version(meta[h].prev)' <= offered
  <2> SUFFICES ASSUME NEW h \in Gids PROVE version(meta[h].prev)' <= offered
    OBVIOUS
  <2>1. CASE h = g
    <3>1. version(mem)' <= offered /\ meta'[h].prev = mem'
      BY <1>1, <1>4, <1>7, <2>1 DEF version
    <3> QED
      BY <3>1 DEF version
  <2>2. CASE h # g
    <3>1. meta'[h].prev = meta[h].prev /\ meta[h].prev # g
      BY <1>1, <1>3, <2>2
    <3>2. version(meta[h].prev) <= offered /\ meta[h].prev \in Gids \cup {None}
      BY <1>5 DEF OfferInv
    <3>3. meta[h].prev = None \/ meta'[meta[h].prev] = meta[meta[h].prev]
      BY <1>3, <3>1, <3>2
    <3>4. version(meta[h].prev)' = version(meta[h].prev)
      BY <3>1, <3>3 DEF version
    <3> QED
      BY <3>2, <3>4
  <2> QED
    BY <2>1, <2>2
<1>9. \A x \in {ptr', mem'} \cup ptrs' : version(x)' <= offered'
  BY <1>1, <1>7 DEF version
<1> QED
  BY <1>1, <1>8, <1>9 DEF OfferInv

\* CURRENT is switched, or the candidate is given up.
LEMMA OfferSwitch ==
  ASSUME CoreInv, OfferInv, switchCurrent
  PROVE  OfferInv'
<1>1. /\ UNCHANGED <<meta, mem, at>> /\ pc' \in {"settle", "serve"}
      /\ offered \in Nat /\ version(at) \in Nat
      /\ {ptr, mem, at} \cup ptrs \subseteq Gids \cup {None}
  BY StoreTypes, StoreConstants DEF switchCurrent, media, refuse, CoreInv, TypeOK
<1>2. CASE UNCHANGED pointer /\ refuse
  BY <1>1, <1>2, OfferKept DEF pointer, refuse
<1>3. CASE /\ ptr' = at /\ ptrs' \subseteq ptrs \cup {at}
           /\ offered' = IF version(at) > offered THEN version(at) ELSE offered
  <2>1. \A g : version(g)' = version(g)
    BY <1>1 DEF version
  <2>2. offered' >= offered /\ offered' >= version(at) /\ offered' \in Nat
    BY <1>1, <1>3
  <2>3. /\ \A g \in Gids \cup {None} : version(g) \in Nat
        /\ \A h \in Gids : meta[h].prev \in Gids \cup {None}
    BY StoreTypes DEF CoreInv
  <2>4. \A g \in {mem} \cup ptrs : version(g) <= offered'
    BY <1>1, <2>2, <2>3 DEF OfferInv
  <2>5. \A h \in Gids : version(meta[h].prev) <= offered'
    BY <1>1, <2>2, <2>3 DEF OfferInv
  <2>6. \A g \in {ptr', mem'} \cup ptrs' : version(g) <= offered'
    BY <1>1, <1>3, <2>2, <2>4
  <2>7. \A h \in Gids : version(meta[h].prev)' = version(meta[h].prev)
    BY <1>1 DEF version
  <2> QED
    BY <1>1, <2>1, <2>5, <2>6, <2>7 DEF OfferInv
<1> QED
  BY <1>2, <1>3 DEF switchCurrent

\* Recovery examines the generation CURRENT names, then the previous one of each.
LEMMA OfferWalk ==
  ASSUME CoreInv, OfferInv, UNCHANGED <<meta, ptr, ptrs, mem, offered>>,
         at' = ptr \/ (at \in Gids /\ at' = previous(at))
  PROVE  OfferInv'
<1>1. \A g : version(g)' = version(g)
  BY DEF version
<1>2. \A h \in Gids : version(meta[h].prev)' = version(meta[h].prev)
  BY DEF version
<1>3. version(None) = 0 /\ offered \in Nat
  BY StoreConstants DEF CoreInv, TypeOK, version
<1>4. at' = ptr \/ at' = None \/ (at \in Gids /\ at' = meta[at].prev)
  BY DEF previous
<1>5. version(at') <= offered
  BY <1>3, <1>4 DEF OfferInv
<1>6. version(at)' <= offered
  BY <1>1, <1>5 DEF version
<1> QED
  BY <1>1, <1>2, <1>6 DEF OfferInv

\* Recovery ends on a generation it examined, or on none.
LEMMA OfferSettleOn ==
  ASSUME CoreInv, OfferInv, UNCHANGED <<meta, ptr, ptrs, offered>>, NEW ok,
         settleOn(None, ok) \/ (pc = "walk" /\ settleOn(at, ok))
  PROVE  OfferInv'
<1>1. \A g : version(g)' = version(g)
  BY DEF version
<1>2. \A h \in Gids : version(meta[h].prev)' = version(meta[h].prev)
  BY DEF version
<1>3. version(None) = 0 /\ offered \in Nat
  BY StoreConstants DEF CoreInv, TypeOK, version
<1>4. pc' = "clean" /\ (mem' = None \/ (pc = "walk" /\ mem' = at))
  BY DEF settleOn
<1>5. version(mem') <= offered
  BY <1>3, <1>4 DEF OfferInv
<1>6. version(mem)' <= offered
  BY <1>5 DEF version
<1> QED
  BY <1>1, <1>2, <1>4, <1>6 DEF OfferInv

\* A power loss leaves a CURRENT it could leave, and no manifest that was not there.
LEMMA OfferPowerLoss ==
  ASSUME CoreInv, OfferInv, powerLoss
  PROVE  OfferInv'
<1>1. /\ pc' = "down" /\ mem' = None /\ offered' = offered
      /\ ptr' \in ptrs /\ ptrs' = {ptr'}
  BY DEF powerLoss, ProcessGone
<1>2. /\ meta' \in [Gids -> {NoMeta} \cup [prev : Gids \cup {None}, version : 0..MaxVersion]]
      /\ \A g \in Gids : meta'[g] \in {NoMeta, meta[g]}
  <2>1. PICK left \in [Gids -> SUBSET File] :
          meta' = [g \in Gids |-> IF left[g] = {} THEN NoMeta ELSE meta[g]]
    BY DEF powerLoss
  <2>2. \A g \in Gids : meta[g] \in [prev : Gids \cup {None}, version : 0..MaxVersion]
    BY StoreTypes DEF CoreInv
  <2> QED
    BY <2>1, <2>2
<1>3. /\ offered \in Nat
      /\ \A h \in Gids : meta[h].prev \in Gids \cup {None}
      /\ ptrs \subseteq Gids \cup {None}
      /\ \A g \in Gids : meta[g].version \in Nat
  BY StoreTypes, StoreConstants DEF CoreInv, TypeOK
<1>4. ASSUME NEW g \in Gids \cup {None}, version(g) <= offered
      PROVE  version(g)' <= offered
  BY <1>2, <1>3, <1>4 DEF version, NoMeta
<1>5. \A h \in Gids : meta'[h].prev \in {None, meta[h].prev}
  BY <1>2 DEF NoMeta
<1>6. version(None) = 0 /\ version(None) <= offered
  BY <1>3 DEF version
<1>7. \A h \in Gids : version(meta'[h].prev) <= offered /\ meta'[h].prev \in Gids \cup {None}
  BY <1>3, <1>5, <1>6 DEF OfferInv
<1>8. \A h \in Gids : version(meta[h].prev)' <= offered
  BY <1>4, <1>7 DEF version
<1>9. version(ptr') <= offered /\ ptr' \in Gids \cup {None}
  BY <1>1, <1>3 DEF OfferInv
<1>10. version(ptr)' <= offered
  BY <1>4, <1>9 DEF version
<1>11. version(mem)' <= offered
  BY <1>1, <1>3 DEF version
<1>12. \A g \in {ptr', mem'} \cup ptrs' : version(g)' <= offered
  BY <1>1, <1>10, <1>11 DEF version
<1> QED
  BY <1>1, <1>8, <1>12 DEF OfferInv

\* Every step keeps what a restart may adopt among what was offered.
LEMMA NextOfferInv ==
  ASSUME CoreInv, OfferInv, [Next]_vars
  PROVE  OfferInv'
<1>0. offered \in Nat
  BY StoreConstants DEF CoreInv, TypeOK
<1>1. ASSUME NEW g \in Gids, commit(g) PROVE OfferInv'
  BY <1>1, OfferCommit
<1>2. ASSUME NEW g \in Gids, removeOrphan(g) PROVE OfferInv'
  <2>1. UNCHANGED <<meta, ptr, ptrs, mem, pc, at, offered>>
    BY <1>2 DEF removeOrphan, pointer
  <2> QED
    BY <1>0, <2>1, OfferKept
<1>3. ASSUME NEW g \in Gids, NEW f \in File, mediaFault(g, f) PROVE OfferInv'
  <2>1. UNCHANGED <<meta, ptr, ptrs, mem, pc, at, offered>>
    BY <1>3 DEF mediaFault, pointer
  <2> QED
    BY <1>0, <2>1, OfferKept
<1>4. CASE writeFileAtomic \/ syncGeneration
  <2>1. UNCHANGED <<meta, ptr, ptrs, mem, at, offered>> /\ pc' # "walk"
    BY <1>4 DEF writeFileAtomic, syncGeneration, abandon, refuse, pointer, File
  <2> QED
    BY <1>0, <2>1, OfferKept
<1>5. CASE switchCurrent
  BY <1>5, OfferSwitch
<1>6. CASE settle
  <2>1. /\ UNCHANGED <<meta, ptr, offered>> /\ pc' # "walk" /\ at = ptr
        /\ mem' \in {mem, at} /\ ptrs' \in {ptrs, {at}}
    BY <1>6 DEF settle, refuse, media, CoreInv, CommitInv
  <2> QED
    BY <1>0, <2>1, OfferKept
<1>7. CASE cleaned
  <2>1. UNCHANGED <<meta, ptr, ptrs, mem, offered>> /\ pc' # "walk"
    BY <1>7 DEF cleaned, media, pointer
  <2> QED
    BY <1>0, <2>1, OfferKept
<1>8. CASE openAndRecover
  <2>1. UNCHANGED <<meta, ptr, ptrs, offered>>
    BY <1>8 DEF openAndRecover, media, pointer
  <2>2. CASE settleOn(None, TRUE)
    BY <2>1, <2>2, OfferSettleOn
  <2>3. CASE at' = ptr /\ UNCHANGED mem
    BY <2>1, <2>3, OfferWalk
  <2> QED
    BY <1>8, <2>2, <2>3 DEF openAndRecover
<1>9. CASE walkBack
  <2>1. UNCHANGED <<meta, ptr, ptrs, offered>> /\ pc = "walk" /\ at \in Gids
    BY <1>9 DEF walkBack, media, pointer, CoreInv, TypeOK
  <2>2. CASE settleOn(at, TRUE) \/ settleOn(None, FALSE)
    BY <2>1, <2>2, OfferSettleOn
  <2>3. CASE at' = previous(at) /\ UNCHANGED mem
    BY <2>1, <2>3, OfferWalk
  <2> QED
    BY <1>9, <2>2, <2>3 DEF walkBack
<1>10. CASE crash
  <2>1. UNCHANGED <<meta, ptr, ptrs, offered>> /\ pc' = "down" /\ mem' = None
    BY <1>10 DEF crash, ProcessGone, media, pointer
  <2> QED
    BY <1>0, <2>1, OfferKept
<1>11. CASE powerLoss
  BY <1>11, OfferPowerLoss
<1>12. CASE UNCHANGED vars
  <2>1. UNCHANGED <<meta, ptr, ptrs, mem, pc, at, offered>>
    BY <1>12 DEF vars
  <2> QED
    BY <1>0, <2>1, OfferKept
<1> QED
  BY <1>1, <1>2, <1>3, <1>4, <1>5, <1>6, <1>7, <1>8, <1>9, <1>10, <1>11, <1>12
     DEF Next, StoreStep

-----------------------------------------------------------------------------
(***************************************************************************)
(* The theorems                                                            *)
(***************************************************************************)

\* An empty store satisfies the invariant.
LEMMA InitStoreInv == Init => StoreInv
<1> SUFFICES ASSUME Init PROVE OfferInv
  BY InitCoreInv DEF StoreInv
<1>1. /\ ptr = None /\ ptrs = {None} /\ mem = None /\ pc = "down" /\ offered = 0
      /\ meta = [g \in Gids |-> NoMeta]
  BY DEF Init
<1>2. \A h \in Gids : meta[h].prev = None
  BY <1>1 DEF NoMeta
<1>3. version(None) = 0
  BY DEF version
<1> QED
  BY <1>1, <1>2, <1>3 DEF OfferInv

\* Every step preserves the invariant.
LEMMA NextStoreInv == StoreInv /\ [Next]_vars => StoreInv'
BY NextCoreInv, NextOfferInv DEF StoreInv

\* The invariant of commit, openAndRecover, cleanupOrphans and the file system: what
\* CURRENT names is whole, and one damaged file costs one generation at most.
THEOREM StoreInvHolds == Spec => []StoreInv
BY InitStoreInv, NextStoreInv, PTL DEF Spec

\* Every field of CertificateStore and of the file system below it has its type.
THEOREM StoreTypeCorrect == Spec => []TypeOK
<1>1. StoreInv => TypeOK
  BY DEF StoreInv, CoreInv
<1> QED
  BY <1>1, StoreInvHolds, PTL

\* A commit that was reported as successful survives a power loss at any moment: the
\* order of writes, fsyncs and renames in commit and the cleanup that follows never
\* leave CURRENT on an incomplete or an older generation.
THEOREM CommitsSurvivePowerLoss == Spec => []CommitSurvivesPowerLoss
<1>1. StoreInv => CommitSurvivesPowerLoss
  BY DEF StoreInv, CoreInv, WholeInv, CommitSurvivesPowerLoss
<1> QED
  BY <1>1, StoreInvHolds, PTL

\* openAndRecover ends in an error only after a media fault.
THEOREM RecoveryFailsOnlyOnDamage == Spec => []NoErrorWithoutDamage
<1>1. StoreInv => NoErrorWithoutDamage
  <2> SUFFICES ASSUME StoreInv PROVE NoErrorWithoutDamage
    OBVIOUS
  <2>1. damage \in Nat
    BY StoreTypes DEF StoreInv, CoreInv
  <2> QED
    BY <2>1 DEF StoreInv, CoreInv, WholeInv, NoErrorWithoutDamage
<1> QED
  BY <1>1, StoreInvHolds, PTL

-----------------------------------------------------------------------------
(***************************************************************************)
(* The store implements the cell                                           *)
(***************************************************************************)

\* The cell's actions over the store's state.
LEMMA CellActions ==
  /\ Cell!cellVars = <<Served, acked, offered, damage>>
  /\ Cell!CellInit <=> Served = -1 /\ acked = 0 /\ offered = 0 /\ damage = 0
  /\ Cell!open <=> /\ Served = -1 /\ Served' \in 0..offered
                   /\ damage <= 1 => Served' + damage >= acked
                   /\ UNCHANGED <<acked, offered, damage>>
  /\ Cell!offer <=> /\ Served # -1
                    /\ offered' = IF Served + 1 > offered THEN Served + 1 ELSE offered
                    /\ UNCHANGED <<Served, acked, damage>>
  /\ Cell!publish <=> /\ Served # -1 /\ Served < offered
                      /\ Served' = Served + 1 /\ acked' = Served + 1
                      /\ UNCHANGED <<offered, damage>>
  /\ Cell!stop <=> Served' = -1 /\ UNCHANGED <<acked, offered, damage>>
  /\ Cell!wear <=> damage' = damage + 1 /\ UNCHANGED <<Served, acked, offered>>
BY DEF Cell!cellVars, Cell!CellInit, Cell!open, Cell!offer, Cell!publish, Cell!stop, Cell!wear,
       Cell!Stopped

\* Nothing a reader sees has changed.
LEMMA CellStutters ==
  ASSUME UNCHANGED <<mem, recovered, damage, acked, offered>>, version(mem)' = version(mem),
         pc \in {"down", "walk"} \/ pc' \in {"down", "walk"} => ~recovered
  PROVE  UNCHANGED Cell!cellVars
BY DEF Served, Cell!cellVars

\* Recovery has found a generation, or an empty store.
LEMMA CellOpens ==
  ASSUME StoreInv, StoreInv', pc \in {"down", "walk"}, recovered', pc' = "clean",
         UNCHANGED <<damage, acked, offered>>
  PROVE  Cell!open
<1>1. Served = -1
  BY DEF StoreInv, CoreInv, CommitInv, Served
<1>2. Served' = version(mem)'
  BY DEF Served
<1>3. version(mem)' \in Nat /\ offered \in Nat
  BY StoreConstants DEF StoreInv, CoreInv, TypeOK, version
<1>5. version(mem)' <= offered
  BY DEF StoreInv, OfferInv
<1>4. damage <= 1 => version(mem)' + damage >= acked
  BY DEF StoreInv, CoreInv, ServeInv
<1> QED
  BY <1>1, <1>2, <1>3, <1>4, <1>5, CellActions

\* The process is gone.
LEMMA CellStops ==
  ASSUME ProcessGone, UNCHANGED <<damage, acked, offered>>
  PROVE  Cell!stop
BY CellActions DEF ProcessGone, Served

\* Every step of the store is a step of the cell, or changes nothing a reader sees.
LEMMA StepImplementsCell ==
  ASSUME StoreInv, [Next]_vars
  PROVE  [Cell!CellNext]_(Cell!cellVars)
<1>1. StoreInv'
  BY NextStoreInv
<1>2. TypeOK /\ None \notin Gids /\ mem \in Gids \cup {None} /\ version(mem) \in Nat
  BY StoreTypes, StoreConstants DEF StoreInv, CoreInv, TypeOK
<1>3. ASSUME NEW g \in Gids, commit(g) PROVE UNCHANGED Cell!cellVars
  <2>1. /\ pc = "serve" /\ pc' = "chain" /\ g # mem
        /\ meta' = [meta EXCEPT ![g] = [prev |-> mem, version |-> version(mem) + 1]]
        /\ UNCHANGED <<mem, recovered, damage, acked, offered>>
    BY <1>3 DEF commit, Fresh, budget
  <2>2. meta \in [Gids -> [prev : Gids \cup {None}, version : 0..MaxVersion]]
    BY <1>2, StoreTypes
  <2>3. version(mem)' = version(mem)
    BY <1>2, <2>1, <2>2 DEF version
  <2> QED
    BY <2>1, <2>3, CellStutters
<1>4. ASSUME NEW g \in Gids, removeOrphan(g) PROVE UNCHANGED Cell!cellVars
  <2>1. pc = "clean" /\ pc' = "clean" /\ UNCHANGED <<meta, mem, recovered, damage, acked, offered>>
    BY <1>4 DEF removeOrphan, budget
  <2> QED
    BY <2>1, CellStutters DEF version
<1>5. CASE writeFileAtomic
  <2>1. /\ pc \in File /\ pc' \in {"cert", "manifest", "sync", "serve"}
        /\ UNCHANGED <<meta, mem, recovered, damage, acked, offered>>
    BY <1>5 DEF writeFileAtomic, abandon, refuse, File
  <2> QED
    BY <2>1, CellStutters DEF version, File
<1>6. CASE syncGeneration
  <2>1. /\ pc = "sync" /\ pc' \in {"switch", "serve"}
        /\ UNCHANGED <<meta, mem, recovered, damage, acked, offered>>
    BY <1>6 DEF syncGeneration, abandon, refuse
  <2> QED
    BY <2>1, CellStutters DEF version
<1>7. CASE switchCurrent
  <2>1. /\ pc = "switch" /\ pc' \in {"settle", "serve"} /\ recovered
        /\ UNCHANGED <<meta, mem, recovered, damage, acked>>
        /\ at \in Gids /\ meta[at] = [prev |-> mem, version |-> version(mem) + 1]
    BY <1>7, WritingFacts DEF switchCurrent, refuse, media, StoreInv, CoreInv, CommitInv
  <2>2. CASE UNCHANGED offered
    BY <2>1, <2>2, CellStutters DEF version
  <2>3. CASE offered' = IF version(at) > offered THEN version(at) ELSE offered
    <3>1. Served = version(mem) /\ Served' = Served /\ version(at) = Served + 1
      BY <1>2, <2>1 DEF Served, version
    <3>2. Cell!offer
      BY <1>2, <2>1, <2>3, <3>1, CellActions
    <3> QED
      BY <3>2 DEF Cell!CellNext
  <2> QED
    BY <1>7, <2>2, <2>3 DEF switchCurrent, refuse
<1>8. CASE settle
  <2>1. /\ pc = "settle" /\ UNCHANGED <<meta, recovered, at, damage, offered>>
        /\ recovered /\ at \in Gids /\ at = ptr
        /\ meta[at] = [prev |-> mem, version |-> version(mem) + 1]
    BY <1>8 DEF settle, refuse, media, StoreInv, CoreInv, CommitInv
  <2>2. CASE pc' = "serve" /\ UNCHANGED <<mem, acked>>
    BY <2>1, <2>2, CellStutters DEF version
  <2>3. CASE pc' = "clean" /\ mem' = at /\ acked' = meta[at].version
    <3>1. Served = version(mem) /\ Served' = version(at)' /\ version(at)' = version(mem) + 1
      BY <1>2, <2>1, <2>3 DEF Served, version
    <3>2. version(at) <= offered /\ offered \in Nat /\ version(at) = version(mem) + 1
      BY <1>2, <2>1, StoreConstants DEF StoreInv, CoreInv, TypeOK, OfferInv, version
    <3>3. Cell!publish
      BY <1>2, <2>1, <2>3, <3>1, <3>2, CellActions
    <3> QED
      BY <3>3 DEF Cell!CellNext
  <2> QED
    BY <1>8, <2>2, <2>3 DEF settle, refuse
<1>9. CASE cleaned
  <2>1. /\ pc = "clean" /\ pc' \in {"serve", "error"}
        /\ UNCHANGED <<meta, mem, recovered, damage, acked, offered>>
    BY <1>9 DEF cleaned, media, budget
  <2> QED
    BY <2>1, CellStutters DEF version
<1>10. CASE openAndRecover
  <2>1. pc = "down" /\ UNCHANGED <<meta, damage, acked, offered>> /\ ~recovered
    BY <1>10 DEF openAndRecover, media, budget, StoreInv, CoreInv, CommitInv
  <2>2. CASE settleOn(None, TRUE)
    <3>1. recovered' /\ pc' = "clean"
      BY <2>2 DEF settleOn
    <3> QED
      BY <1>1, <2>1, <3>1, CellOpens DEF Cell!CellNext
  <2>3. CASE UNCHANGED <<mem, recovered>>
    BY <2>1, <2>3, CellStutters DEF version
  <2> QED
    BY <1>10, <2>2, <2>3 DEF openAndRecover
<1>11. CASE walkBack
  <2>1. pc = "walk" /\ UNCHANGED <<meta, damage, acked, offered>> /\ ~recovered
    BY <1>11 DEF walkBack, media, budget, StoreInv, CoreInv, CommitInv
  <2>2. CASE settleOn(at, TRUE)
    <3>1. recovered' /\ pc' = "clean"
      BY <2>2 DEF settleOn
    <3> QED
      BY <1>1, <2>1, <3>1, CellOpens DEF Cell!CellNext
  <2>3. CASE UNCHANGED <<mem, recovered>>
    BY <2>1, <2>3, CellStutters DEF version
  <2>4. CASE settleOn(None, FALSE)
    <3>1. ~recovered'
      BY <2>4 DEF settleOn
    <3> QED
      BY <2>1, <3>1 DEF Served, Cell!cellVars
  <2> QED
    BY <1>11, <2>2, <2>3, <2>4 DEF walkBack
<1>12. CASE crash \/ powerLoss
  <2>1. ProcessGone /\ UNCHANGED <<damage, acked, offered>>
    BY <1>12 DEF crash, powerLoss, budget
  <2> QED
    BY <2>1, CellStops DEF Cell!CellNext
<1>13. ASSUME NEW g \in Gids, NEW f \in File, mediaFault(g, f)
       PROVE  Cell!CellNext
  <2>1. damage' = damage + 1 /\ UNCHANGED <<meta, mem, recovered, pc, acked, offered>>
    BY <1>13 DEF mediaFault
  <2>2. Served' = Served
    BY <2>1 DEF Served, version
  <2> QED
    BY <2>1, <2>2, CellActions DEF Cell!CellNext
<1>14. CASE UNCHANGED vars
  BY <1>14 DEF vars, Served, version, Cell!cellVars
<1> QED
  BY <1>3, <1>4, <1>5, <1>6, <1>7, <1>8, <1>9, <1>10, <1>11, <1>12, <1>13, <1>14
     DEF Next, StoreStep

\* CertificateStore implements the cell: a commit takes effect in one step, a reader
\* never sees an undecided one, and what a restart finds is no older than the last
\* successful commit, or one commit older after a damaged file, and no newer than a
\* commit that switched CURRENT.
THEOREM StoreImplementsCell == Spec => ImplementsCell
<1>1. Init => Cell!CellInit
  BY CellActions DEF Init, Served
<1> QED
  BY <1>1, StoreInvHolds, StepImplementsCell, PTL DEF Spec, ImplementsCell, Cell!CellSpec

=============================================================================
