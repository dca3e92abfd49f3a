---------------------------- MODULE CertificateStore ----------------------------
(***************************************************************************)
(* CertificateStore: immutable generation directories, a manifest in each, *)
(* and one CURRENT file that names the generation in force.                *)
(*                                                                         *)
(* The file system is modelled by what it promises: a written file is      *)
(* visible at once (live), and a power loss leaves any state between what  *)
(* a directory fsync made certain (low) and what was written since (high). *)
(* The same holds for the CURRENT pointer (ptr, and ptrs for what a power  *)
(* loss may leave).  Killing the process loses nothing that is visible.    *)
(* Every file is written as tmp, fsync, rename, so it is whole or absent.  *)
(* The fsync of a new directory is taken to keep its own entry as well.    *)
(*                                                                         *)
(* One directory fsync may fail, or be cut off by a crash.  With two of    *)
(* them CURRENT may fall back to a generation that startup has cleaned up, *)
(* because openAndRecover acts on the visible CURRENT without syncing it.  *)
(***************************************************************************)
EXTENDS Integers

CONSTANTS
  Gids,          \* generation ids
  None,          \* no generation
  MaxVersion,    \* bound: commits stop at this version
  FsyncFaults,   \* bound: how many directory fsyncs fail
  Damage,        \* bound: how many files media faults damage
  Fragile        \* the files media faults may damage

File == {"chain", "cert", "manifest"}

ASSUME StoreConstants ==
  /\ None \notin Gids
  /\ {MaxVersion, Damage} \subseteq Nat
  /\ FsyncFaults \in 0..1
  /\ Fragile \subseteq File

VARIABLES
  live,       \* files visible in each generation directory
  low,        \* files a power loss is certain to leave
  high,       \* files a power loss may leave
  bad,        \* files whose content no longer matches the manifest
  meta,       \* manifest content: previous_generation and version
  ptr,        \* the generation the visible CURRENT names
  ptrs,       \* the generations CURRENT may name after a power loss
  mem,        \* current_generation_
  recovered,  \* recovered_
  pc,         \* where openAndRecover or commit is
  at,         \* the generation being written or examined
  doomed,     \* directories cleanupOrphans has still to remove
  faults,     \* fsync faults so far
  damage,     \* damaged files so far
  acked,      \* history: version of the newest commit that succeeded
  offered     \* history: newest version CURRENT was ever switched to

media == <<live, low, high, bad, meta>>
pointer == <<ptr, ptrs>>
budget == <<faults, damage>>
vars == <<live, low, high, bad, meta, ptr, ptrs, mem, recovered, pc, at, doomed,
          faults, damage, acked, offered>>

Location == {"down", "walk", "clean", "serve", "error",
             "chain", "cert", "manifest", "sync", "switch", "settle"}

TypeOK ==
  /\ {live, low, high, bad} \subseteq [Gids -> SUBSET File]
  /\ meta \in [Gids -> [prev : Gids \cup {None}, version : 0..MaxVersion]]
  /\ ptr \in Gids \cup {None}
  /\ ptrs \in SUBSET (Gids \cup {None})
  /\ mem \in Gids \cup {None}
  /\ recovered \in BOOLEAN
  /\ pc \in Location
  /\ at \in Gids \cup {None}
  /\ doomed \in SUBSET Gids
  /\ faults \in 0..FsyncFaults
  /\ damage \in 0..Damage
  /\ acked \in 0..MaxVersion
  /\ offered \in 0..MaxVersion

NoMeta == [prev |-> None, version |-> 0]

Init ==
  /\ live = [g \in Gids |-> {}]
  /\ low = live
  /\ high = live
  /\ bad = live
  /\ meta = [g \in Gids |-> NoMeta]
  /\ ptr = None
  /\ ptrs = {None}
  /\ mem = None
  /\ recovered = FALSE
  /\ pc = "down"
  /\ at = None
  /\ doomed = {}
  /\ faults = 0
  /\ damage = 0
  /\ acked = 0
  /\ offered = 0

-----------------------------------------------------------------------------
(***************************************************************************)
(* Reading                                                                 *)
(***************************************************************************)

\* loadGeneration accepts a generation: every file of the manifest is there
\* and matches its length and digest.
loadGeneration(g) == g # None /\ live[g] = File /\ bad[g] = {}

\* The previous_generation a readable manifest names.
previous(g) == IF "manifest" \in live[g] \ bad[g] THEN meta[g].prev ELSE None

version(g) == IF g = None THEN 0 ELSE meta[g].version

\* What cleanupOrphans(keep_a, keep_b) removes.
orphans(keep) == {g \in Gids \ keep : live[g] # {}}

-----------------------------------------------------------------------------
(***************************************************************************)
(* commit                                                                  *)
(***************************************************************************)

\* A directory fsync that works, and one that fails within the fault budget.
fsyncOk == UNCHANGED faults
fsyncFails == faults < FsyncFaults /\ faults' = faults + 1

\* newGenerationId: a directory name nothing on disk or in memory refers to.
Fresh(g) ==
  /\ live[g] = {} /\ high[g] = {}
  /\ g \notin ptrs \cup {ptr, mem} \cup {meta[h].prev : h \in Gids}

commit(g) ==
  /\ pc = "serve" /\ recovered
  /\ version(mem) < MaxVersion
  /\ Fresh(g)
  /\ meta' = [meta EXCEPT ![g] = [prev |-> mem, version |-> version(mem) + 1]]
  /\ bad' = [bad EXCEPT ![g] = {}]
  /\ at' = g
  /\ pc' = "chain"
  /\ UNCHANGED <<live, low, high, pointer, mem, recovered, doomed, budget, acked, offered>>

\* The commit is reported as failed.
refuse ==
  /\ pc' = "serve"
  /\ UNCHANGED <<mem, recovered, doomed, acked, offered>>

\* writeGeneration failed: the candidate's files are removed again.
abandon ==
  /\ live' = [live EXCEPT ![at] = {}]
  /\ low' = [low EXCEPT ![at] = {}]
  /\ refuse
  /\ UNCHANGED <<high, bad, meta>>

\* writeFileAtomic of the next file of the candidate; the result of its own
\* directory fsync is ignored.
writeFileAtomic ==
  /\ pc \in File
  /\ \/ /\ live' = [live EXCEPT ![at] = @ \cup {pc}]
        /\ high' = [high EXCEPT ![at] = @ \cup {pc}]
        /\ \/ low' = [low EXCEPT ![at] = live[at] \cup {pc}] /\ fsyncOk
           \/ UNCHANGED low /\ fsyncFails
        /\ pc' = CASE pc = "chain" -> "cert" [] pc = "cert" -> "manifest"
                   [] pc = "manifest" -> "sync"
        /\ UNCHANGED <<bad, meta, mem, recovered, doomed, acked, offered>>
     \/ abandon /\ UNCHANGED faults
  /\ UNCHANGED <<pointer, at, damage>>

\* Mutant: the generation directory is not fsynced.
syncGenerationSkipped ==
  /\ pc = "sync"
  /\ pc' = "switch"
  /\ UNCHANGED <<media, pointer, mem, recovered, at, doomed, budget, acked, offered>>

\* The end of writeGeneration: the generation directory must reach the disk.
syncGeneration ==
  /\ pc = "sync"
  /\ \/ /\ low' = [low EXCEPT ![at] = live[at]]
        /\ high' = [high EXCEPT ![at] = live[at]]
        /\ fsyncOk
        /\ pc' = "switch"
        /\ UNCHANGED <<live, bad, meta, mem, recovered, doomed, acked, offered>>
     \/ abandon /\ fsyncFails
  /\ UNCHANGED <<pointer, at, damage>>

\* The self-check, then the rename of CURRENT.tmp to CURRENT.
switchCurrent ==
  /\ pc = "switch"
  /\ \/ /\ loadGeneration(at)
        /\ ptr' = at
        /\ \/ ptrs' = {at} /\ fsyncOk
           \/ ptrs' = ptrs \cup {at} /\ fsyncFails
        /\ offered' = IF version(at) > offered THEN version(at) ELSE offered
        /\ pc' = "settle"
        /\ UNCHANGED <<mem, recovered, doomed, acked>>
     \/ UNCHANGED <<pointer, faults>> /\ refuse
  /\ UNCHANGED <<media, at, damage>>

\* The fsync of the root directory decides whether commit succeeds.
settle ==
  /\ pc = "settle"
  /\ \/ /\ fsyncOk
        /\ ptrs' = {at}
        /\ mem' = at
        /\ acked' = meta[at].version
        /\ doomed' = orphans({at, meta[at].prev})
        /\ pc' = "clean"
        /\ UNCHANGED <<recovered, offered>>
     \/ fsyncFails /\ UNCHANGED ptrs /\ refuse
  /\ UNCHANGED <<media, ptr, at, damage>>

\* cleanupOrphans removes the files of one directory after the other, the
\* manifest first; no fsync follows.
removeOrphan(g) ==
  /\ pc = "clean" /\ g \in doomed
  /\ LET f == CASE "manifest" \in live[g] -> "manifest"
               [] live[g] = {"cert"} -> "cert"
               [] OTHER -> "chain"
         rest == live[g] \ {f}
     IN  /\ live' = [live EXCEPT ![g] = rest]
         /\ low' = [low EXCEPT ![g] = @ \cap rest]
         /\ doomed' = IF rest = {} THEN doomed \ {g} ELSE doomed
  /\ UNCHANGED <<high, bad, meta, pointer, mem, recovered, pc, at, budget, acked, offered>>

\* commit and openAndRecover return.
cleaned ==
  /\ pc = "clean" /\ doomed = {}
  /\ pc' = IF recovered THEN "serve" ELSE "error"
  /\ at' = None
  /\ UNCHANGED <<media, pointer, mem, recovered, doomed, budget, acked, offered>>

-----------------------------------------------------------------------------
(***************************************************************************)
(* openAndRecover, crashes, media faults                                   *)
(***************************************************************************)

\* Mutant: the previous generation is cleaned up and not kept.
settleOnAlone(g, ok) ==
  /\ mem' = g
  /\ recovered' = ok
  /\ doomed' = IF g = None THEN {} ELSE {meta[g].prev}
  /\ pc' = "clean"
  /\ UNCHANGED at

\* Mutant: startup adopts the generation kept as the previous one.
settleOnPrevious(g, ok) ==
  /\ mem' = IF g = None \/ meta[g].prev = None THEN g ELSE meta[g].prev
  /\ recovered' = ok
  /\ doomed' = orphans(IF g = None THEN {} ELSE {g, meta[g].prev})
  /\ pc' = "clean"
  /\ UNCHANGED at

\* Startup recovery ends: on generation g, or on none.
settleOn(g, ok) ==
  /\ mem' = g
  /\ recovered' = ok
  /\ doomed' = orphans(IF g = None THEN {} ELSE {g, meta[g].prev})
  /\ pc' = "clean"
  /\ UNCHANGED at

\* Mutant: a missing CURRENT is an error.
openAndRecoverStrict ==
  /\ pc = "down"
  /\ \/ /\ ptr = None
        /\ settleOn(None, FALSE)
     \/ /\ ptr # None
        /\ at' = ptr
        /\ pc' = "walk"
        /\ UNCHANGED <<mem, recovered, doomed>>
  /\ UNCHANGED <<media, pointer, budget, acked, offered>>

openAndRecover ==
  /\ pc = "down"
  /\ \/ /\ ptr = None
        /\ settleOn(None, TRUE)
     \/ /\ ptr # None
        /\ at' = ptr
        /\ pc' = "walk"
        /\ UNCHANGED <<mem, recovered, doomed>>
  /\ UNCHANGED <<media, pointer, budget, acked, offered>>

\* One generation of the previous_generation chain.
walkBack ==
  /\ pc = "walk"
  /\ \/ /\ loadGeneration(at)
        /\ settleOn(at, TRUE)
     \/ /\ ~loadGeneration(at) /\ previous(at) # None
        /\ at' = previous(at)
        /\ UNCHANGED <<mem, recovered, doomed, pc>>
     \/ /\ ~loadGeneration(at) /\ previous(at) = None
        /\ settleOn(None, FALSE)
  /\ UNCHANGED <<media, pointer, budget, acked, offered>>

ProcessGone ==
  /\ pc # "down"
  /\ pc' = "down"
  /\ mem' = None
  /\ recovered' = FALSE
  /\ at' = None
  /\ doomed' = {}

\* The process ends at any point; the file system stays as it is.
crash ==
  /\ ProcessGone
  /\ UNCHANGED <<media, pointer, budget, acked, offered>>

\* The power fails at any point; what was not made certain may be lost.
\* Power losses and fsync failures are not combined with damaged media.
powerLoss ==
  /\ damage = 0
  /\ ProcessGone
  /\ \E left \in [Gids -> SUBSET File] :
       /\ \A g \in Gids : low[g] \subseteq left[g] /\ left[g] \subseteq high[g]
       /\ live' = left /\ low' = left /\ high' = left
       /\ meta' = [g \in Gids |-> IF left[g] = {} THEN NoMeta ELSE meta[g]]
  /\ \E g \in ptrs : ptr' = g /\ ptrs' = {g}
  /\ UNCHANGED <<bad, budget, acked, offered>>

\* A media fault damages a file that is on disk.
mediaFault(g, f) ==
  /\ damage < Damage /\ faults = 0
  /\ f \in (Fragile \cap live[g]) \ bad[g]
  /\ bad' = [bad EXCEPT ![g] = @ \cup {f}]
  /\ damage' = damage + 1
  /\ UNCHANGED <<live, low, high, meta, pointer, mem, recovered, pc, at, doomed,
                 faults, acked, offered>>

-----------------------------------------------------------------------------
StoreStep ==
  \/ writeFileAtomic \/ syncGeneration \/ switchCurrent \/ settle
  \/ \E g \in Gids : removeOrphan(g)
  \/ cleaned \/ walkBack

Next ==
  \/ StoreStep
  \/ \E g \in Gids : commit(g)
  \/ openAndRecover
  \/ crash \/ powerLoss
  \/ \E g \in Gids, f \in File : mediaFault(g, f)

Spec == Init /\ [][Next]_vars

-----------------------------------------------------------------------------
(***************************************************************************)
(* Properties                                                              *)
(***************************************************************************)

\* Whatever CURRENT names after a power loss at this very moment is a
\* generation that is on disk as a whole, and never one older than a commit
\* that was reported as successful: the order of fsyncs and of the pointer
\* switch in commit, and what cleanupOrphans removes, never lose a
\* certificate.
CommitSurvivesPowerLoss ==
  damage = 0 => \A g \in ptrs :
    /\ g # None => low[g] = File
    /\ version(g) >= acked

\* Recovery never gives up without a media fault.
NoErrorWithoutDamage == pc = "error" => damage > 0

\* The version readers get, -1 while the store is not open.
Served == IF recovered /\ pc \notin {"down", "walk"} THEN version(mem) ELSE -1

\* commit, openAndRecover and the readers together behave as one cell whose
\* content changes in a single step: no reader sees a commit before it is
\* decided, a refused commit does not change what is served until the process
\* ends, and a restart serves nothing older than the last commit that succeeded
\* and nothing newer than a commit that switched CURRENT.
Cell == INSTANCE CertificateCell
          WITH served <- Served, acked <- acked, offered <- offered, lost <- damage
ImplementsCell == Cell!CellSpec

\* What commit's documentation says of a failure: the old generation stays in
\* force.  Whenever no commit is under way, CURRENT names the generation that is
\* served, so that a restart adopts no commit that was refused.
RefusedLeavesCurrent == pc = "serve" /\ damage = 0 => ptr = mem

-----------------------------------------------------------------------------
(***************************************************************************)
(* The inductive invariant                                                 *)
(***************************************************************************)
Writing == File \cup {"sync", "switch"}

\* What is certain is visible, and what is visible was written.
SyncInv == \A g \in Gids : low[g] \subseteq live[g] /\ live[g] \subseteq high[g]

\* The candidate of a commit follows the generation in memory; nothing refers to
\* it before CURRENT does.
CommitInv ==
  /\ pc \in Writing \cup {"settle"} =>
       /\ at \in Gids /\ at # mem
       /\ meta[at] = [prev |-> mem, version |-> version(mem) + 1]
  /\ pc \in Writing => at \notin ptrs \cup {ptr} \cup {meta[h].prev : h \in Gids}
  /\ pc = "switch" => low[at] = live[at]
  /\ pc = "settle" => at = ptr
  /\ pc \in Writing \cup {"settle", "serve"} => recovered
  /\ pc \in {"down", "walk", "error"} => ~recovered

\* Cleanup spares the generation in memory and its predecessor.
CleanInv ==
  pc = "clean" => mem \notin doomed /\ (mem # None => meta[mem].prev \notin doomed)

\* Without damage, what CURRENT names is whole and so is what memory holds.  A lost
\* fsync leaves CURRENT one generation back at most, and without one the previous
\* generation is whole, too.
WholeInv ==
  damage = 0 =>
    /\ \A g \in Gids : bad[g] = {}
    /\ CommitSurvivesPowerLoss
    /\ ptr \in ptrs
    /\ \A p \in ptrs : p = ptr \/ (ptr # None /\ p = meta[ptr].prev)
    /\ recovered /\ mem # None => low[mem] = File
    /\ pc = "clean" => recovered /\ mem = ptr
    /\ pc = "walk" => at = ptr
    /\ pc # "error"
    /\ faults = 0 =>
         /\ ptrs = {ptr}
         /\ ptr # None =>
              /\ version(ptr) = version(meta[ptr].prev) + 1
              /\ meta[ptr].prev # None => low[meta[ptr].prev] = File
         /\ recovered /\ pc # "settle" => mem = ptr

\* The generation that recovery will find after one damaged file.
Anchor(a) ==
  /\ a \in Gids /\ a \in {ptr, meta[ptr].prev}
  /\ live[a] = File /\ bad[a] = {}
  /\ a # ptr => bad[ptr] # {}
  /\ version(a) + 1 >= acked
  /\ pc = "clean" => a \notin doomed

\* Recovery will find none.
Dead == ~loadGeneration(ptr) /\ previous(ptr) = None

\* After one damaged file recovery falls back by one generation, or fails.
SpareInv ==
  damage = 1 =>
    /\ ptr = None => acked <= 1
    /\ ptr # None => Dead \/ \E a \in Gids : Anchor(a)
    /\ pc = "walk" => ptr # None /\ (at = ptr \/ Anchor(at))

\* What is served is bounded by the commits that succeeded.
ServeInv == recovered /\ damage <= 1 => version(mem) + damage >= acked

\* CURRENT, what it may fall back to and what recovery examines were all
\* switched to once; a candidate that was not is never adopted.
OfferInv ==
  /\ \A g \in {ptr, mem} \cup ptrs : version(g) <= offered
  /\ \A h \in Gids : version(meta[h].prev) <= offered
  /\ pc = "walk" => version(at) <= offered

\* The generations, CURRENT and the call under way.
CoreInv ==
  /\ TypeOK
  /\ SyncInv /\ CommitInv /\ CleanInv
  /\ WholeInv /\ SpareInv /\ ServeInv
  /\ pc = "walk" => at # None

\* What every step of the store, crash, power loss and media fault preserves.
StoreInv == CoreInv /\ OfferInv

=============================================================================
