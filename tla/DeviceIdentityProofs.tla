------------------------- MODULE DeviceIdentityProofs -------------------------
(***************************************************************************)
(* Proofs about DeviceIdentity, for every number of threads, keys, chains, *)
(* starts, failing writes and versions: IdentityInv is inductive, and the  *)
(* safety properties are among its conjuncts.                              *)
(***************************************************************************)
EXTENDS DeviceIdentity, FiniteSetTheorems, TLAPS

USE IdentityConstants

ThreadState == [at : Location, op : {"none", "apply"},
                cert : Chains \cup {NoChain}, key : 0..MaxKeys]

\* The places where a thread has claims on the key or on the chain.
Busy == {"hsm", "save", "meta", "publish", "commit", "rotate"}

\* NoChain is none of the chains, and an idle thread is a thread.
LEMMA Shapes ==
  /\ NoChain \notin Chains
  /\ Foreign \notin Chains /\ Foreign.key = MaxKeys + 1
  /\ \A c \in Chains : c.key \in 1..MaxKeys
  /\ Idle \in ThreadState /\ Idle.at = "idle"
  /\ \A w \in Location : [Idle EXCEPT !.at = w] \in ThreadState
                         /\ [Idle EXCEPT !.at = w].at = w
BY DEF NoChain, Chains, Keys, Foreign, Idle, ThreadState, Location

\* An empty device satisfies the invariant.
LEMMA InitIdentityInv == Init => IdentityInv
<1> SUFFICES ASSUME Init PROVE IdentityInv
  OBVIOUS
<1>1. /\ enc = 0 /\ meta = 0 /\ prov = "NONE" /\ chain = NoChain /\ hidden = NoChain
      /\ boot = 0 /\ ~up /\ cached = 0 /\ hsm = Nobody /\ csr = 0
      /\ {up, provUp, vinfo, root} \subseteq BOOLEAN
      /\ tls = NoTls /\ thread = [t \in Threads |-> Idle] /\ issued = {}
      /\ ref = NoRef /\ fresh = 0 /\ faults = 0
  BY Zenon DEF Init
<1>2. /\ tls.status = "NOT_READY" /\ tls.version = 0 /\ tls.chain = NoChain
      /\ ref.boot = 0 /\ ref.version = 0 /\ ref.chain = NoChain
  BY <1>1 DEF NoTls, NoRef
<1>3. thread \in [Threads -> ThreadState] /\ \A t \in Threads : thread[t] = Idle
  BY <1>1, Shapes
<1>4. IsFiniteSet(issued)
  BY <1>1, FS_EmptySet
<1>5. TypeOK
  <2>1. {enc, meta, cached, csr, fresh} \subseteq 0..MaxKeys
    BY <1>1
  <2>2. {chain, hidden, tls.chain, ref.chain} \subseteq Chains \cup {NoChain, Foreign}
    BY <1>1, <1>2
  <2>3. \A t \in Threads : hsm = t <=> thread[t].at \in {"save", "meta"}
    BY <1>1, <1>3, Shapes
  <2>4. prov \in State /\ boot \in 0..MaxBoots /\ hsm \in Threads \cup {Nobody}
    BY <1>1 DEF State
  <2>5. /\ tls.status \in {"NOT_READY", "READY", "REFUSED"}
        /\ tls.version \in 0..MaxVersion
        /\ issued \subseteq Chains
        /\ faults \in 0..MaxFaults
    BY <1>1, <1>2
  <2> QED
    BY <1>1, <1>3, <2>1, <2>2, <2>3, <2>4, <2>5 DEF TypeOK
<1>6. ShapeInv
  BY <1>1, <1>2, <1>3, <1>4 DEF ShapeInv, ThreadState
<1>7. KeyPairIntact /\ KeyInv /\ CertInv /\ ChainCertifiesKey
  BY <1>1, <1>3, Shapes DEF KeyPairIntact, KeyInv, CertInv, ChainCertifiesKey
<1>8. InstalledMeansCommitted /\ RefInv /\ ServedChainIsCurrent /\ OldReferencesExpire
  BY <1>1, <1>2
  DEF InstalledMeansCommitted, RefInv, ServedChainIsCurrent, OldReferencesExpire,
      signTls, decodeRef
<1> QED
  BY <1>5, <1>6, <1>7, <1>8 DEF IdentityInv

\* A step that loads the key, notes a state or moves threads between places
\* without claims on key or chain.
LEMMA QuietStep ==
  ASSUME IdentityInv, up,
         thread' \in [Threads -> ThreadState],
         \A t \in Threads : \/ thread'[t] = thread[t]
                            \/ /\ thread[t].at \notin {"save", "meta", "rotate"}
                               /\ thread'[t].at \notin Busy,
         UNCHANGED <<enc, meta, store, boot, up, hsm, tls, ref, fresh>>,
         cached' \in {cached, loaded}, csr' \in 0..MaxKeys,
         prov' \in State, prov' = "CERT_INSTALLED" => prov = "CERT_INSTALLED",
         provUp' \in BOOLEAN, vinfo' \in BOOLEAN, vinfo => vinfo',
         issued' \subseteq Chains, IsFiniteSet(issued'),
         faults' \in 0..MaxFaults
  PROVE  IdentityInv'
<1> USE DEF IdentityInv, store
<1>1. cached \in {0, meta} /\ cached' \in {0, meta} /\ (cached # 0 => cached' = cached)
  BY DEF KeyInv, loaded
<1>2. TypeOK'
  <2>1. \A t \in Threads : hsm' = t <=> thread'[t].at \in {"save", "meta"}
    BY DEF TypeOK, Busy
  <2> QED
    BY <1>1, <2>1 DEF TypeOK
<1>3. ShapeInv'
  BY DEF ShapeInv, ThreadState
<1>4. KeyPairIntact' /\ KeyInv'
  <2>1. ASSUME NEW t \in Threads
        PROVE  /\ thread'[t].at = "hsm" => meta = 0 \/ cached' # 0
               /\ thread'[t].at \in {"save", "meta"} => meta = 0 /\ thread'[t].key # 0
               /\ thread'[t].at = "meta" => enc = thread'[t].key
    BY <1>1 DEF KeyInv, Busy
  <2> QED
    BY <1>1, <2>1 DEF KeyPairIntact, KeyInv
<1>5. ChainCertifiesKey' /\ CertInv'
  BY <1>1 DEF ChainCertifiesKey, CertInv, Busy
<1>6. InstalledMeansCommitted' /\ RefInv'
  BY DEF InstalledMeansCommitted, RefInv, Busy
<1>7. ServedChainIsCurrent' /\ OldReferencesExpire'
  BY DEF ServedChainIsCurrent, OldReferencesExpire, signTls, decodeRef, Busy
<1> QED
  BY <1>2, <1>3, <1>4, <1>5, <1>6, <1>7

\* Where a thread goes; the others stay where they are.
LEMMA Moves ==
  ASSUME ShapeInv, NEW t \in Threads, NEW w \in Location,
         goto(t, w) \/ enter(t, w) \/ (done(t) /\ w = "idle") \/ applying(t, w)
  PROVE  /\ thread' \in [Threads -> ThreadState]
         /\ thread'[t].at = w
         /\ \A u \in Threads \ {t} : thread'[u] = thread[u]
         /\ goto(t, w) => /\ thread'[t].cert = thread[t].cert
                          /\ thread'[t].key = thread[t].key
<1>1. thread \in [Threads -> ThreadState]
  BY DEF ShapeInv, ThreadState
<1>2. CASE goto(t, w)
  <2>1. thread' = [thread EXCEPT ![t] = [thread[t] EXCEPT !.at = w]]
    BY <1>1, <1>2 DEF goto
  <2>2. [thread[t] EXCEPT !.at = w] \in ThreadState
    BY <1>1 DEF ThreadState
  <2> QED
    BY <1>1, <2>1, <2>2 DEF ThreadState
<1>3. CASE ~goto(t, w) /\ enter(t, w)
  BY <1>1, <1>3, Shapes DEF enter
<1>4. CASE ~goto(t, w) /\ done(t) /\ w = "idle"
  BY <1>1, <1>4, Shapes DEF done
<1>5. CASE ~goto(t, w) /\ applying(t, w)
  <2>1. /\ [Idle EXCEPT !.op = "apply", !.at = w] \in ThreadState
        /\ [Idle EXCEPT !.op = "apply", !.at = w].at = w
    BY Shapes DEF ThreadState
  <2> QED
    BY <1>1, <1>5, <2>1 DEF applying
<1> QED
  BY <1>2, <1>3, <1>4, <1>5

\* A thread that is somewhere, or makes a call, finds the process running.
LEMMA Running ==
  ASSUME IdentityInv, NEW t \in Threads, thread[t] # Idle
  PROVE  up
BY DEF IdentityInv, TypeOK

\* What a state that is saved or not means for the rest.
LEMMA StateSaved ==
  ASSUME IdentityInv, NEW s \in State, update_provision_state(s)
  PROVE  prov' \in {s, prov} /\ prov' \in State /\ faults' \in 0..MaxFaults
BY DEF IdentityInv, TypeOK, update_provision_state, works, fails

\* The PKI issues a chain for a key of this device.
LEMMA IssueKeeps ==
  ASSUME IdentityInv, NEW t \in Threads, issue(t)
  PROVE  issued' \subseteq Chains /\ IsFiniteSet(issued')
<1>1. /\ issued \subseteq Chains /\ IsFiniteSet(issued) /\ csr \in 0..MaxKeys
      /\ Cardinality(issued) \in Nat
  BY FS_CardinalityType DEF IdentityInv, TypeOK, ShapeInv
<1>2. CASE UNCHANGED issued
  BY <1>1, <1>2
<1>3. CASE /\ csr # 0 /\ Cardinality(issued) < MaxSerial
           /\ issued' = issued \cup {[serial |-> Cardinality(issued) + 1, key |-> csr]}
  <2>1. [serial |-> Cardinality(issued) + 1, key |-> csr] \in Chains
    BY <1>1, <1>3 DEF Chains, Keys
  <2> QED
    BY <1>1, <1>3, <2>1, FS_AddElement
<1> QED
  BY <1>2, <1>3 DEF issue

\* generate_key_pair, get_csr and submit_csr begin.
LEMMA BeginStep ==
  ASSUME IdentityInv, NEW t \in Threads,
         generate_key_pair(t) \/ get_csr(t) \/ submit_csr(t)
  PROVE  IdentityInv'
<1>1. /\ up /\ vinfo' = TRUE
      /\ UNCHANGED <<disk, store, process, cached, hsm, csr, tls, issued, ref, counts>>
  BY DEF generate_key_pair, get_csr, submit_csr, begins, ensure_vehicle_info
<1>2. /\ thread' \in [Threads -> ThreadState]
      /\ \A u \in Threads :  \/ thread'[u] = thread[u]
                             \/ /\ thread[u].at \notin {"save", "meta", "rotate"}
                                /\ thread'[u].at \notin Busy
  <2>1. CASE submit_csr(t)
    BY <2>1 DEF submit_csr, IdentityInv, ShapeInv, ThreadState
  <2>2. CASE generate_key_pair(t)
    <3>1. (enter(t, "engine") \/ goto(t, "engine")) /\ thread[t].at \in {"idle", "generate"}
      BY <2>2, Shapes DEF generate_key_pair
    <3> QED
      BY <3>1, Moves DEF IdentityInv, Location, Busy
  <2>3. CASE get_csr(t)
    <3>1. (enter(t, "build") \/ goto(t, "build")) /\ thread[t].at \in {"idle", "csr"}
      BY <2>3, Shapes DEF get_csr
    <3> QED
      BY <3>1, Moves DEF IdentityInv, Location, Busy
  <2> QED
    BY <2>1, <2>2, <2>3
<1> QED
  BY <1>1, <1>2, QuietStep
  DEF disk, process, counts, IdentityInv, TypeOK, ShapeInv

\* A call ends, or is turned down, without touching key or chain.
LEMMA EndStep ==
  ASSUME IdentityInv, NEW t \in Threads,
         return_csr(t) \/ return_nothing(t) \/ apply_refused(t)
  PROVE  IdentityInv'
<1>1. /\ UNCHANGED <<disk, store, process, cached, hsm, csr, tls, ref, counts>>
      /\ UNCHANGED issued \/ issue(t)
  BY DEF return_csr, return_nothing, apply_refused, memory
<1>2. /\ done(t) \/ goto(t, "csr")
      /\ thread[t].at \in {"idle", "csr", "generate"}
  BY Shapes DEF return_csr, return_nothing, apply_refused
<1>3. up
  BY Running, Shapes DEF return_csr, return_nothing, apply_refused
<1>4. /\ thread' \in [Threads -> ThreadState]
      /\ \A u \in Threads : thread'[u] = thread[u] \/ (u = t /\ thread'[u].at \notin Busy)
  BY <1>2, Moves DEF IdentityInv, Location, Busy
<1>5. issued' \subseteq Chains /\ IsFiniteSet(issued')
  BY <1>1, IssueKeeps DEF IdentityInv, TypeOK, ShapeInv
<1>6. vinfo' \in BOOLEAN /\ (vinfo => vinfo')
  <2>1. CASE return_csr(t)
    BY <2>1 DEF return_csr, ensure_vehicle_info
  <2>2. CASE return_nothing(t) \/ apply_refused(t)
    BY <2>2 DEF return_nothing, apply_refused, memory, IdentityInv, TypeOK
  <2> QED
    BY <2>1, <2>2
<1> QED
  BY <1>1, <1>2, <1>3, <1>4, <1>5, <1>6, QuietStep
  DEF disk, process, counts, IdentityInv, TypeOK

\* A state is noted: by noteKey, noteFailed, noteCsr, apply_certificate or
\* reset_provision_status.
LEMMA NoteStep ==
  ASSUME IdentityInv, NEW t \in Threads,
         \/ noteKey(t) \/ noteFailed(t) \/ noteCsr(t) \/ apply_certificate(t)
         \/ reset_provision_status(t)
  PROVE  IdentityInv'
<1>1. /\ UNCHANGED <<enc, meta, store, process, vinfo, cached, hsm, tls, ref, fresh>>
      /\ csr' \in {csr, 0}
      /\ UNCHANGED issued \/ issue(t)
  BY DEF noteKey, noteFailed, noteCsr, apply_certificate, reset_provision_status, memory
<1>2. up
  BY Running, Shapes
  DEF noteKey, noteFailed, noteCsr, apply_certificate, reset_provision_status
<1>3. /\ prov' \in State /\ faults' \in 0..MaxFaults
      /\ prov' = "CERT_INSTALLED" => prov = "CERT_INSTALLED"
  <2>1. \/ UNCHANGED <<prov, faults>>
        \/ \E s \in State \ {"CERT_INSTALLED"} : update_provision_state(s)
    BY DEF noteKey, noteFailed, noteCsr, apply_certificate, reset_provision_status, State
  <2> QED
    BY <2>1, StateSaved DEF IdentityInv, TypeOK
<1>4. /\ thread' \in [Threads -> ThreadState]
      /\ \A u \in Threads :  \/ thread'[u] = thread[u]
                             \/ /\ thread[u].at \notin {"save", "meta", "rotate"}
                                /\ thread'[u].at \notin Busy
  <2>1. CASE reset_provision_status(t)
    BY <2>1 DEF reset_provision_status, IdentityInv, ShapeInv, ThreadState
  <2>2. CASE ~reset_provision_status(t)
    <3>1. /\ done(t) \/ goto(t, "csr") \/ applying(t, "generate") \/ applying(t, "csr")
          /\ thread[t].at \in {"noteKey", "noteFailed", "noteCsr", "idle"}
      BY <2>2, Shapes DEF noteKey, noteFailed, noteCsr, apply_certificate
    <3> QED
      BY <3>1, Moves DEF IdentityInv, Location, Busy
  <2> QED
    BY <2>1, <2>2
<1>5. issued' \subseteq Chains /\ IsFiniteSet(issued')
  BY <1>1, IssueKeeps DEF IdentityInv, TypeOK, ShapeInv
<1> QED
  BY <1>1, <1>2, <1>3, <1>4, <1>5, QuietStep DEF process, IdentityInv, TypeOK

\* The CSR is built, from the key that is loaded for it or not at all.
LEMMA BuildStep ==
  ASSUME IdentityInv, NEW t \in Threads, build_and_store_csr(t)
  PROVE  IdentityInv'
<1>1. /\ UNCHANGED <<disk, store, process, vinfo, hsm, tls, issued, ref, counts>>
      /\ thread[t].at = "build"
  BY DEF build_and_store_csr
<1>2. cached' \in {cached, loaded} /\ csr' \in {loaded, 0} /\ loaded \in 0..MaxKeys
  BY DEF build_and_store_csr, build_csr, get_device_key, export_public_key, loaded,
         IdentityInv, TypeOK
<1>3. up
  BY <1>1, Running, Shapes
<1>4. /\ thread' \in [Threads -> ThreadState]
      /\ \A u \in Threads : thread'[u] = thread[u] \/ (u = t /\ thread'[u].at \notin Busy)
  <2>1. goto(t, "noteCsr") \/ enter(t, "noteFailed")
    BY DEF build_and_store_csr
  <2> QED
    BY <2>1, Moves DEF IdentityInv, Location, Busy
<1> QED
  BY <1>1, <1>2, <1>3, <1>4, QuietStep DEF disk, process, counts, IdentityInv, TypeOK, ShapeInv

\* KeyEngine takes the key there is or asks the HSM for one.
LEMMA EngineStep ==
  ASSUME IdentityInv, NEW t \in Threads, generate_device_key(t)
  PROVE  IdentityInv'
<1>1. /\ UNCHANGED <<disk, store, process, vinfo, hsm, csr, tls, issued, ref, counts>>
      /\ thread[t].at = "engine" /\ up
  BY Running, Shapes DEF generate_device_key
<1>2. CASE export_public_key /\ goto(t, "noteKey")
  <2>1. /\ thread' \in [Threads -> ThreadState]
        /\ \A u \in Threads : thread'[u] = thread[u] \/ (u = t /\ thread'[u].at \notin Busy)
    BY <1>2, Moves DEF IdentityInv, Location, Busy
  <2>2. cached' \in {cached, loaded}
    BY <1>2 DEF export_public_key
  <2> QED
    BY <1>1, <2>1, <2>2, QuietStep
    DEF disk, process, counts, IdentityInv, TypeOK, ShapeInv
<1>3. CASE ~key_exists /\ goto(t, "hsm") /\ UNCHANGED cached
  <2>1. /\ thread' \in [Threads -> ThreadState]
        /\ thread'[t].at = "hsm"
        /\ \A u \in Threads \ {t} : thread'[u] = thread[u]
    BY <1>3, Moves DEF IdentityInv, Location
  <2>2. meta = 0
    BY <1>3 DEF key_exists
  <2> USE <1>1, <1>3, <2>1 DEF IdentityInv, disk, store, process, counts
  <2>3. TypeOK'
    <3>1. \A u \in Threads : hsm' = u <=> thread'[u].at \in {"save", "meta"}
      BY DEF TypeOK
    <3> QED
      BY <3>1 DEF TypeOK
  <2>4. ShapeInv' /\ KeyPairIntact' /\ KeyInv'
    BY <2>2 DEF ShapeInv, ThreadState, KeyPairIntact, KeyInv
  <2>5. ChainCertifiesKey' /\ CertInv' /\ InstalledMeansCommitted' /\ RefInv'
    BY DEF ChainCertifiesKey, CertInv, InstalledMeansCommitted, RefInv
  <2>6. ServedChainIsCurrent' /\ OldReferencesExpire'
    BY DEF ServedChainIsCurrent, OldReferencesExpire, signTls, decodeRef
  <2> QED
    BY <2>3, <2>4, <2>5, <2>6
<1> QED
  BY <1>2, <1>3 DEF generate_device_key

\* A thread takes the key it has generated with it.
LEMMA KeyTaken ==
  ASSUME thread \in [Threads -> ThreadState], NEW t \in Threads, NEW k \in 0..MaxKeys,
         NEW w \in Location,
         thread' = [thread EXCEPT ![t].at = w, ![t].key = k]
  PROVE  /\ thread' \in [Threads -> ThreadState]
         /\ thread'[t].at = w /\ thread'[t].key = k
         /\ \A u \in Threads \ {t} : thread'[u] = thread[u]
<1> DEFINE r == [thread[t] EXCEPT !.at = w, !.key = k]
<1>1. r \in ThreadState /\ r.at = w /\ r.key = k
  <2>1. thread[t] \in ThreadState
    OBVIOUS
  <2> QED
    BY <2>1 DEF ThreadState
<1>2. [thread EXCEPT ![t].at = w, ![t].key = k] = [thread EXCEPT ![t] = r]
  BY DEF ThreadState
<1> HIDE DEF r
<1> QED
  BY <1>1, <1>2

\* A thread that has stored its key goes on without it.
LEMMA KeyLeft ==
  ASSUME thread \in [Threads -> ThreadState], NEW t \in Threads, leave(t, "noteKey")
  PROVE  /\ thread' \in [Threads -> ThreadState]
         /\ thread'[t].at = "noteKey"
         /\ \A u \in Threads \ {t} : thread'[u] = thread[u]
<1>1. "noteKey" \in Location /\ 0 \in 0..MaxKeys
  BY DEF Location
<1> QED
  BY <1>1, KeyTaken DEF leave

\* The HSM generates a key, unless it has one in memory by now.
LEMMA HsmStep ==
  ASSUME IdentityInv, NEW t \in Threads, hsm_generate(t)
  PROVE  IdentityInv'
<1>1. /\ UNCHANGED <<disk, store, process, vinfo, cached, csr, tls, issued, ref, faults>>
      /\ thread[t].at = "hsm" /\ hsm = Nobody /\ up
  BY Running, Shapes DEF hsm_generate
<1>2. CASE enter(t, "noteFailed") /\ UNCHANGED <<hsm, fresh>>
  <2>1. /\ thread' \in [Threads -> ThreadState]
        /\ \A u \in Threads : thread'[u] = thread[u] \/ (u = t /\ thread'[u].at \notin Busy)
    BY <1>2, Moves DEF IdentityInv, Location, Busy
  <2> QED
    BY <1>1, <1>2, <2>1, QuietStep DEF disk, process, IdentityInv, TypeOK, ShapeInv
<1>3. CASE /\ cached = 0 /\ fresh < MaxKeys
           /\ hsm' = t /\ fresh' = fresh + 1
           /\ thread' = [thread EXCEPT ![t].at = "save", ![t].key = fresh + 1]
  <2> USE <1>1, <1>3 DEF IdentityInv, disk, store, process
  <2>1. thread \in [Threads -> ThreadState] /\ fresh + 1 \in 1..MaxKeys
    BY DEF ShapeInv, ThreadState, TypeOK
  <2>2. /\ thread' \in [Threads -> ThreadState]
        /\ thread'[t].at = "save" /\ thread'[t].key = fresh + 1
        /\ \A u \in Threads \ {t} : thread'[u] = thread[u]
    <3>1. "save" \in Location /\ fresh + 1 \in 0..MaxKeys
      BY <2>1 DEF Location
    <3> QED
      BY <2>1, <3>1, KeyTaken
  <2>3. meta = 0
    BY DEF KeyInv
  <2>4. \A u \in Threads \ {t} : thread[u].at \notin {"save", "meta"}
    BY DEF TypeOK
  <2>5. TypeOK'
    <3>1. \A u \in Threads : hsm' = u <=> thread'[u].at \in {"save", "meta"}
      BY <2>2, <2>4
    <3> QED
      BY <2>1, <3>1 DEF TypeOK
  <2>6. ShapeInv' /\ KeyPairIntact' /\ KeyInv'
    BY <2>1, <2>2, <2>3 DEF ShapeInv, ThreadState, KeyPairIntact, KeyInv
  <2>7. ChainCertifiesKey' /\ CertInv' /\ InstalledMeansCommitted' /\ RefInv'
    BY <2>2 DEF ChainCertifiesKey, CertInv, InstalledMeansCommitted, RefInv
  <2>8. ServedChainIsCurrent' /\ OldReferencesExpire'
    BY <2>2 DEF ServedChainIsCurrent, OldReferencesExpire, signTls, decodeRef
  <2> QED
    BY <2>5, <2>6, <2>7, <2>8
<1> QED
  BY <1>2, <1>3 DEF hsm_generate

\* The writes of a new key pair: there is no stored key to be replaced, and so
\* there is no chain that certifies one.
LEMMA SaveStep ==
  ASSUME IdentityInv, NEW t \in Threads, save(t)
  PROVE  IdentityInv'
<1> USE DEF IdentityInv, store, process
<1>1. /\ UNCHANGED <<prov, store, process, vinfo, csr, tls, issued, ref, fresh>>
      /\ thread[t].at \in {"save", "meta"}
      /\ up
  BY Running, Shapes DEF save, save_key_to_store
<1>2. /\ hsm = t /\ meta = 0 /\ cached = 0 /\ thread[t].key \in 1..MaxKeys
      /\ thread[t].at = "meta" => enc = thread[t].key
      /\ \A u \in Threads \ {t} : thread[u].at \notin {"save", "meta"}
  BY <1>1 DEF TypeOK, KeyInv, ShapeInv
<1>3. /\ chain = NoChain /\ hidden = NoChain
      /\ \A u \in Threads : thread[u].at \notin {"publish", "commit", "rotate"}
  BY <1>1, <1>2, Shapes DEF ChainCertifiesKey, ShapeInv, CertInv
<1>4. CASE /\ thread[t].at = "save" /\ works
           /\ enc' = thread[t].key /\ goto(t, "meta")
           /\ UNCHANGED <<meta, cached, hsm>>
  <2>1. /\ thread' \in [Threads -> ThreadState]
        /\ thread'[t].at = "meta" /\ thread'[t].key = thread[t].key
        /\ \A u \in Threads \ {t} : thread'[u] = thread[u]
    BY <1>4, Moves DEF Location
  <2> USE <1>1, <1>4, <2>1
  <2>2. TypeOK'
    <3>1. \A u \in Threads : hsm' = u <=> thread'[u].at \in {"save", "meta"}
      BY <1>2
    <3> QED
      BY <1>2, <3>1 DEF TypeOK, works
  <2>3. ShapeInv' /\ KeyPairIntact' /\ KeyInv'
    BY <1>2 DEF ShapeInv, ThreadState, KeyPairIntact, KeyInv
  <2>4. ChainCertifiesKey' /\ CertInv' /\ InstalledMeansCommitted' /\ RefInv'
    BY <1>3 DEF ChainCertifiesKey, CertInv, InstalledMeansCommitted, RefInv
  <2>5. ServedChainIsCurrent' /\ OldReferencesExpire'
    BY <1>3 DEF ServedChainIsCurrent, OldReferencesExpire, signTls, decodeRef
  <2> QED
    BY <2>2, <2>3, <2>4, <2>5
<1>5. CASE /\ thread[t].at = "meta" /\ works
           /\ meta' = thread[t].key /\ cached' = thread[t].key
           /\ hsm' = Nobody /\ leave(t, "noteKey")
           /\ UNCHANGED enc
  <2>1. /\ thread' \in [Threads -> ThreadState]
        /\ thread'[t].at = "noteKey"
        /\ \A u \in Threads \ {t} : thread'[u] = thread[u]
    BY <1>5, KeyLeft DEF ShapeInv, ThreadState
  <2> USE <1>1, <1>5, <2>1
  <2>2. TypeOK'
    <3>1. \A u \in Threads : hsm' = u <=> thread'[u].at \in {"save", "meta"}
      BY <1>2
    <3> QED
      BY <1>2, <3>1 DEF TypeOK, works
  <2>3. ShapeInv' /\ KeyPairIntact' /\ KeyInv'
    BY <1>2 DEF ShapeInv, ThreadState, KeyPairIntact, KeyInv
  <2>4. ChainCertifiesKey' /\ CertInv' /\ InstalledMeansCommitted' /\ RefInv'
    BY <1>3 DEF ChainCertifiesKey, CertInv, InstalledMeansCommitted, RefInv
  <2>5. ServedChainIsCurrent' /\ OldReferencesExpire'
    BY <1>3 DEF ServedChainIsCurrent, OldReferencesExpire, signTls, decodeRef
  <2> QED
    BY <2>2, <2>3, <2>4, <2>5
<1>6. CASE /\ fails
           /\ hsm' = Nobody /\ enter(t, "noteFailed")
           /\ UNCHANGED <<enc, meta, cached>>
  <2>1. /\ thread' \in [Threads -> ThreadState]
        /\ thread'[t].at = "noteFailed"
        /\ \A u \in Threads \ {t} : thread'[u] = thread[u]
    BY <1>6, Moves DEF Location
  <2> USE <1>1, <1>6, <2>1
  <2>2. TypeOK'
    <3>1. \A u \in Threads : hsm' = u <=> thread'[u].at \in {"save", "meta"}
      BY <1>2
    <3> QED
      BY <1>2, <3>1 DEF TypeOK, fails
  <2>3. ShapeInv' /\ KeyPairIntact' /\ KeyInv'
    BY <1>2 DEF ShapeInv, ThreadState, KeyPairIntact, KeyInv
  <2>4. ChainCertifiesKey' /\ CertInv' /\ InstalledMeansCommitted' /\ RefInv'
    BY <1>3 DEF ChainCertifiesKey, CertInv, InstalledMeansCommitted, RefInv
  <2>5. ServedChainIsCurrent' /\ OldReferencesExpire'
    BY <1>3 DEF ServedChainIsCurrent, OldReferencesExpire, signTls, decodeRef
  <2> QED
    BY <2>2, <2>3, <2>4, <2>5
<1> QED
  BY <1>4, <1>5, <1>6 DEF save, save_key_to_store

\* inject_certificate lets a chain pass only if it certifies the stored key.
LEMMA InjectStep ==
  ASSUME IdentityInv, NEW t \in Threads, NEW c \in issued \cup {Foreign},
         inject_certificate(t, c)
  PROVE  IdentityInv'
<1> USE DEF IdentityInv, disk, store, process, counts
<1>1. /\ UNCHANGED <<disk, store, process, hsm, csr, tls, issued, ref, counts>>
      /\ up /\ thread[t].at = "idle" /\ vinfo' = TRUE
  BY Shapes DEF inject_certificate, ensure_vehicle_info
<1>2. loaded = meta /\ meta \in 0..MaxKeys
  BY DEF KeyInv, loaded, TypeOK
<1>3. CASE enter(t, "noteFailed") /\ cached' \in {cached, loaded}
  <2>1. /\ thread' \in [Threads -> ThreadState]
        /\ \A u \in Threads : thread'[u] = thread[u] \/ (u = t /\ thread'[u].at \notin Busy)
    BY <1>3, Moves DEF Location, Busy
  <2> QED
    BY <1>1, <1>3, <2>1, QuietStep DEF TypeOK, ShapeInv
<1>4. CASE /\ validate_certificate(c)
           /\ thread' = [thread EXCEPT ![t] = [Idle EXCEPT !.at = "publish", !.cert = c]]
  <2>1. c.key = meta /\ cached' = meta
    BY <1>2, <1>4
    DEF validate_certificate, match_certificate_key, get_device_key, export_public_key
  <2>2. c \in Chains
    BY <1>2, <2>1, Shapes DEF TypeOK
  <2>3. /\ [Idle EXCEPT !.at = "publish", !.cert = c] \in ThreadState
        /\ [Idle EXCEPT !.at = "publish", !.cert = c].at = "publish"
        /\ [Idle EXCEPT !.at = "publish", !.cert = c].cert = c
    BY <2>2, Shapes DEF ThreadState, Location
  <2>4. /\ thread' \in [Threads -> ThreadState]
        /\ thread'[t].at = "publish" /\ thread'[t].cert = c
        /\ \A u \in Threads \ {t} : thread'[u] = thread[u]
    BY <1>4, <2>3 DEF ShapeInv, ThreadState
  <2> USE <1>1, <2>1, <2>4
  <2>5. TypeOK'
    <3>1. \A u \in Threads : hsm' = u <=> thread'[u].at \in {"save", "meta"}
      BY DEF TypeOK
    <3> QED
      BY <3>1 DEF TypeOK
  <2>6. ShapeInv' /\ KeyPairIntact' /\ KeyInv'
    BY DEF ShapeInv, ThreadState, KeyPairIntact, KeyInv
  <2>7. ChainCertifiesKey' /\ CertInv' /\ InstalledMeansCommitted' /\ RefInv'
    BY <2>2 DEF ChainCertifiesKey, CertInv, InstalledMeansCommitted, RefInv
  <2>8. ServedChainIsCurrent' /\ OldReferencesExpire'
    BY DEF ServedChainIsCurrent, OldReferencesExpire, signTls, decodeRef
  <2> QED
    BY <2>5, <2>6, <2>7, <2>8
<1> QED
  BY <1>3, <1>4 DEF inject_certificate, validate_and_store_certificate

\* What a load makes of the chain c and the key k.
LEMMA Judged ==
  ASSUME NEW version, NEW c, NEW k, NEW p \in credential(version, c, k)
  PROVE  /\ p.version = version
         /\ p.status \in {"NOT_READY", "READY", "REFUSED"}
         /\ p.chain \in {c, NoChain}
         /\ p.status = "READY" => c # NoChain /\ k # 0 /\ p.chain = c
<1>1. PICK s \in verdicts(c, k) :
        p = [version |-> version, status |-> s, chain |-> IF s = "READY" THEN c ELSE NoChain]
  BY DEF credential
<1>2. /\ s \in {"NOT_READY", "READY", "REFUSED"}
      /\ s = "READY" => c # NoChain /\ k # 0
  BY <1>1 DEF verdicts
<1> QED
  BY <1>1, <1>2

\* A profile that is loaded anew serves the committed chain or none.
LEMMA MaterialsLoaded ==
  ASSUME IdentityInv, NEW version \in 1..MaxVersion, validateAndStoreMaterials(version)
  PROVE  /\ cached' \in {cached, meta}
         /\ tls'.version = version
         /\ tls'.status \in {"NOT_READY", "READY", "REFUSED"}
         /\ tls'.chain \in Chains \cup {NoChain}
         /\ tls'.status = "READY" => root /\ vinfo /\ chain # NoChain /\ tls'.chain = chain
<1> DEFINE c == IF root THEN chain ELSE NoChain
           k == IF vinfo THEN meta ELSE 0
<1>1. loaded = meta /\ chain \in Chains \cup {NoChain}
  BY DEF IdentityInv, KeyInv, loaded, ShapeInv
<1>2. tls' \in credential(version, c, k) /\ cached' \in keyLoaded(c, k, tls'.status)
  BY <1>1 DEF validateAndStoreMaterials
<1>3. /\ c \in {chain, NoChain} /\ (c # NoChain => root /\ c = chain)
      /\ k \in {0, meta} /\ (k # 0 => vinfo /\ k = meta)
  OBVIOUS
<1> HIDE DEF c, k
<1>4. /\ tls'.version = version
      /\ tls'.status \in {"NOT_READY", "READY", "REFUSED"}
      /\ tls'.chain \in {c, NoChain}
      /\ tls'.status = "READY" => c # NoChain /\ k # 0 /\ tls'.chain = c
  BY <1>2, Judged
<1>5. cached' \in {cached, meta}
  BY <1>2, <1>3, <1>4 DEF keyLoaded
<1> QED
  BY <1>1, <1>3, <1>4, <1>5

\* The chain is committed, the credential rotated, the state saved.
LEMMA PublishStep ==
  ASSUME IdentityInv, NEW t \in Threads, publishDeviceCertChain(t)
  PROVE  IdentityInv'
<1> USE DEF IdentityInv, store, process
<1>1. /\ UNCHANGED <<enc, meta, process, vinfo, hsm, csr, issued, ref, fresh>>
      /\ thread[t].at \in {"publish", "commit", "rotate"} /\ up
  BY Running, Shapes DEF publishDeviceCertChain, commit_then_rotate
<1>2. thread[t].at \in {"publish", "commit"} =>
        thread[t].cert \in Chains /\ thread[t].cert.key = meta
  BY DEF CertInv
<1>3. CASE /\ thread[t].at = "publish" /\ sameDigest(thread[t].cert) /\ installed(t)
           /\ UNCHANGED <<store, tls, cached>>
  <2>1. /\ thread' \in [Threads -> ThreadState] /\ thread'[t].at = "idle"
        /\ \A u \in Threads \ {t} : thread'[u] = thread[u]
    BY <1>3, Moves DEF installed, Location
  <2>2. prov' \in State /\ faults' \in 0..MaxFaults
    BY <1>3, StateSaved DEF installed, State
  <2>3. chain # NoChain
    BY <1>2, <1>3, Shapes DEF sameDigest
  <2> USE <1>1, <1>3, <2>1, <2>2
  <2>4. TypeOK'
    <3>1. \A u \in Threads : hsm' = u <=> thread'[u].at \in {"save", "meta"}
      BY DEF TypeOK
    <3> QED
      BY <3>1 DEF TypeOK
  <2>5. ShapeInv' /\ KeyPairIntact' /\ KeyInv'
    BY DEF ShapeInv, ThreadState, KeyPairIntact, KeyInv
  <2>6. ChainCertifiesKey' /\ CertInv' /\ InstalledMeansCommitted' /\ RefInv'
    BY <2>3 DEF ChainCertifiesKey, CertInv, InstalledMeansCommitted, RefInv
  <2>7. ServedChainIsCurrent' /\ OldReferencesExpire'
    BY DEF ServedChainIsCurrent, OldReferencesExpire, signTls, decodeRef
  <2> QED
    BY <2>4, <2>5, <2>6, <2>7
<1>4. CASE /\ thread[t].at = "publish" /\ goto(t, "commit")
           /\ UNCHANGED <<prov, store, tls, cached, faults>>
  <2>1. /\ thread' \in [Threads -> ThreadState]
        /\ thread'[t].at = "commit" /\ thread'[t].cert = thread[t].cert
        /\ \A u \in Threads \ {t} : thread'[u] = thread[u]
    BY <1>4, Moves DEF Location
  <2> USE <1>1, <1>4, <2>1
  <2>2. TypeOK'
    <3>1. \A u \in Threads : hsm' = u <=> thread'[u].at \in {"save", "meta"}
      BY DEF TypeOK
    <3> QED
      BY <3>1 DEF TypeOK
  <2>3. ShapeInv' /\ KeyPairIntact' /\ KeyInv'
    BY DEF ShapeInv, ThreadState, KeyPairIntact, KeyInv
  <2>4. ChainCertifiesKey' /\ CertInv' /\ InstalledMeansCommitted' /\ RefInv'
    BY <1>2 DEF ChainCertifiesKey, CertInv, InstalledMeansCommitted, RefInv
  <2>5. ServedChainIsCurrent' /\ OldReferencesExpire'
    BY DEF ServedChainIsCurrent, OldReferencesExpire, signTls, decodeRef
  <2> QED
    BY <2>2, <2>3, <2>4, <2>5
<1>5. CASE /\ thread[t].at = "commit" /\ commit_chain(thread[t].cert)
           /\ enter(t, IF faults' = faults THEN "rotate" ELSE "noteFailed")
           /\ UNCHANGED <<tls, cached, prov>>
  <2>1. /\ root' = root /\ faults' \in 0..MaxFaults
        /\ \/ chain' = thread[t].cert /\ hidden' = NoChain /\ faults' = faults
           \/ chain' = chain /\ hidden' \in {hidden, thread[t].cert} /\ faults' # faults
    BY <1>5 DEF commit_chain, works, fails, TypeOK
  <2>2. /\ thread' \in [Threads -> ThreadState]
        /\ thread'[t].at = IF faults' = faults THEN "rotate" ELSE "noteFailed"
        /\ \A u \in Threads \ {t} : thread'[u] = thread[u]
    BY <1>5, Moves DEF Location
  <2> USE <1>1, <1>5, <2>1, <2>2
  <2>3. chain # NoChain => chain' # NoChain
    BY <1>2, Shapes
  <2>4. TypeOK'
    <3>1. \A u \in Threads : hsm' = u <=> thread'[u].at \in {"save", "meta"}
      BY DEF TypeOK
    <3> QED
      BY <1>2, <3>1 DEF TypeOK
  <2>5. ShapeInv' /\ KeyPairIntact' /\ KeyInv'
    BY <1>2 DEF ShapeInv, ThreadState, KeyPairIntact, KeyInv
  <2>6. ChainCertifiesKey' /\ CertInv'
    BY <1>2, <2>3, Shapes DEF ChainCertifiesKey, CertInv, KeyInv
  <2>7. InstalledMeansCommitted' /\ RefInv'
    BY <2>3 DEF InstalledMeansCommitted, RefInv
  <2>8. ServedChainIsCurrent' /\ OldReferencesExpire'
    BY DEF ServedChainIsCurrent, OldReferencesExpire, signTls, decodeRef
  <2> QED
    BY <2>4, <2>5, <2>6, <2>7, <2>8
<1>6. CASE /\ thread[t].at = "rotate" /\ rotate /\ installed(t)
           /\ UNCHANGED store
  <2>1. tls.version \in 0..MaxVersion /\ tls.version + 1 \in 1..MaxVersion
    BY <1>6 DEF rotate, TypeOK
  <2>2. validateAndStoreMaterials(tls.version + 1) /\ hsm = Nobody
    BY <1>6 DEF rotate, validateAndStoreMaterials
  <2>3. /\ cached' \in {cached, meta}
        /\ tls'.version = tls.version + 1
        /\ tls'.status \in {"NOT_READY", "READY", "REFUSED"}
        /\ tls'.chain \in Chains \cup {NoChain}
        /\ tls'.status = "READY" => root /\ vinfo /\ chain # NoChain /\ tls'.chain = chain
    BY <2>1, <2>2, MaterialsLoaded
  <2>4. /\ thread' \in [Threads -> ThreadState] /\ thread'[t].at = "idle"
        /\ \A u \in Threads \ {t} : thread'[u] = thread[u]
    BY <1>6, Moves DEF installed, Location
  <2>5. prov' \in State /\ faults' \in 0..MaxFaults
    BY <1>6, StateSaved DEF installed, State
  <2>6. chain # NoChain
    BY <1>6 DEF CertInv
  <2> USE <1>1, <1>6, <2>1, <2>3, <2>4, <2>5
  <2>7. TypeOK'
    <3>1. \A u \in Threads : hsm' = u <=> thread'[u].at \in {"save", "meta"}
      BY DEF TypeOK
    <3> QED
      BY <3>1 DEF TypeOK
  <2>8. ShapeInv' /\ KeyPairIntact' /\ KeyInv'
    BY <2>2 DEF ShapeInv, ThreadState, KeyPairIntact, KeyInv, TypeOK
  <2>9. ChainCertifiesKey' /\ CertInv' /\ InstalledMeansCommitted' /\ RefInv'
    BY <2>6 DEF ChainCertifiesKey, CertInv, InstalledMeansCommitted, RefInv, KeyInv,
                ShapeInv
  <2>10. ServedChainIsCurrent' /\ OldReferencesExpire'
    BY DEF ServedChainIsCurrent, OldReferencesExpire, signTls, decodeRef, RefInv, ShapeInv
  <2> QED
    BY <2>7, <2>8, <2>9, <2>10
<1> QED
  BY <1>3, <1>4, <1>5, <1>6 DEF publishDeviceCertChain, commit_then_rotate

\* The TLS client is given a reference, after the profile was loaded if need be.
LEMMA TlsStep ==
  ASSUME IdentityInv, NEW t \in Threads, getTlsCredential(t)
  PROVE  IdentityInv'
<1> USE DEF IdentityInv, disk, store, process, counts
<1>1. UNCHANGED <<disk, store, process, hsm, csr, issued, counts>>
  BY DEF getTlsCredential
<1>2. CASE /\ up /\ tls.status = "READY" /\ bundle(tls)
           /\ UNCHANGED <<vinfo, tls, cached, thread>>
  <2>1. \/ ref' = ref
        \/ ref'.boot = boot /\ ref'.version = tls.version /\ ref'.chain = tls.chain
    BY <1>2 DEF bundle
  <2> USE <1>1, <1>2, <2>1
  <2>2. TypeOK' /\ ShapeInv'
    BY DEF TypeOK, ShapeInv
  <2>3. KeyPairIntact' /\ KeyInv' /\ ChainCertifiesKey' /\ CertInv'
    BY DEF KeyPairIntact, KeyInv, ChainCertifiesKey, CertInv
  <2>4. InstalledMeansCommitted' /\ RefInv'
    BY DEF InstalledMeansCommitted, RefInv, TypeOK, ServedChainIsCurrent
  <2>5. ServedChainIsCurrent' /\ OldReferencesExpire'
    BY DEF ServedChainIsCurrent, OldReferencesExpire, signTls, decodeRef
  <2> QED
    BY <2>2, <2>3, <2>4, <2>5
<1>3. CASE /\ up /\ thread[t] = Idle /\ ensure_tls_material_ready(t)
           /\ UNCHANGED <<tls, cached, ref>>
  <2>1. vinfo' = TRUE /\ enter(t, "load") /\ thread[t].at = "idle"
    BY <1>3, Shapes DEF ensure_tls_material_ready, ensure_vehicle_info
  <2>2. /\ thread' \in [Threads -> ThreadState]
        /\ \A u \in Threads : thread'[u] = thread[u] \/ (u = t /\ thread'[u].at \notin Busy)
    BY <2>1, Moves DEF Location, Busy
  <2> QED
    BY <1>1, <1>3, <2>1, <2>2, QuietStep DEF TypeOK, ShapeInv
<1>4. CASE loadMaterials(t) /\ bundle(tls') /\ done(t) /\ UNCHANGED vinfo
  <2> DEFINE v == IF tls.version = 0 THEN 1 ELSE tls.version
  <2>1. /\ v \in 1..MaxVersion /\ tls.version \in Nat
        /\ v = tls.version \/ (tls.version = 0 /\ v = 1)
    BY DEF TypeOK
  <2>2. /\ thread[t].at = "load" /\ up /\ hsm = Nobody
        /\ validateAndStoreMaterials(v)
    BY <1>4, Running, Shapes DEF loadMaterials, validateAndStoreMaterials
  <2> HIDE DEF v
  <2>3. /\ cached' \in {cached, meta}
        /\ tls'.version = v
        /\ tls'.status \in {"NOT_READY", "READY", "REFUSED"}
        /\ tls'.chain \in Chains \cup {NoChain}
        /\ tls'.status = "READY" => root /\ vinfo /\ chain # NoChain /\ tls'.chain = chain
    BY <2>1, <2>2, MaterialsLoaded
  <2>4. /\ thread' \in [Threads -> ThreadState] /\ thread'[t].at = "idle"
        /\ \A u \in Threads \ {t} : thread'[u] = thread[u]
    BY <1>4, Moves DEF Location
  <2>5. \/ /\ tls'.status = "READY"
           /\ ref'.boot = boot /\ ref'.version = v /\ ref'.chain = chain
        \/ ref' = ref
    BY <1>4, <2>3 DEF bundle
  <2> USE <1>1, <1>4, <2>1, <2>2, <2>3, <2>4, <2>5
  <2>6. TypeOK'
    <3>1. \A u \in Threads : hsm' = u <=> thread'[u].at \in {"save", "meta"}
      BY DEF TypeOK
    <3> QED
      BY <3>1 DEF TypeOK
  <2>7. ShapeInv' /\ KeyPairIntact' /\ KeyInv'
    BY DEF ShapeInv, ThreadState, KeyPairIntact, KeyInv, TypeOK
  <2>8. ChainCertifiesKey' /\ CertInv' /\ InstalledMeansCommitted' /\ RefInv'
    <3>1. ChainCertifiesKey' /\ CertInv' /\ InstalledMeansCommitted'
      BY DEF ChainCertifiesKey, CertInv, InstalledMeansCommitted, KeyInv
    <3>2. RefInv'
      BY DEF RefInv, ShapeInv, TypeOK
    <3> QED
      BY <3>1, <3>2
  <2>9. ServedChainIsCurrent' /\ OldReferencesExpire'
    BY <2>8 DEF ServedChainIsCurrent, OldReferencesExpire, RefInv, signTls, decodeRef
  <2> QED
    BY <2>6, <2>7, <2>8, <2>9
<1> QED
  BY <1>2, <1>3, <1>4 DEF getTlsCredential

\* A failing seed computation, or PROV that comes up.
LEMMA OutsideStep ==
  ASSUME IdentityInv, seed_error \/ prov_answers
  PROVE  IdentityInv'
<1> USE DEF IdentityInv, store, process, memory, counts
<1>1. /\ UNCHANGED <<enc, meta, store, boot, up, memory, tls, thread, issued, ref, counts>>
      /\ prov' \in State /\ provUp' \in BOOLEAN
      /\ prov' = "CERT_INSTALLED" => prov = "CERT_INSTALLED"
  BY DEF seed_error, prov_answers, disk, TypeOK, State
<1>2. TypeOK' /\ ShapeInv'
  BY <1>1 DEF TypeOK, ShapeInv
<1>3. KeyPairIntact' /\ KeyInv' /\ ChainCertifiesKey' /\ CertInv'
  BY <1>1 DEF KeyPairIntact, KeyInv, ChainCertifiesKey, CertInv
<1>4. InstalledMeansCommitted' /\ RefInv'
  BY <1>1 DEF InstalledMeansCommitted, RefInv
<1>5. ServedChainIsCurrent' /\ OldReferencesExpire'
  BY <1>1 DEF ServedChainIsCurrent, OldReferencesExpire, signTls, decodeRef
<1> QED
  BY <1>2, <1>3, <1>4, <1>5

\* A start finds the threads idle; the chain it comes up with certifies the key,
\* and references of earlier starts are of another boot.
LEMMA InitializeStep == ASSUME IdentityInv, initialize PROVE IdentityInv'
<1> USE DEF IdentityInv, disk, store, process, memory, counts
<1>1. /\ UNCHANGED <<disk, provUp, hsm, csr, thread, issued, ref, counts>>
      /\ ~up /\ boot' = boot + 1 /\ boot' \in 0..MaxBoots
      /\ hidden' = NoChain
      /\ chain' = chain \/ (chain' = hidden /\ hidden # NoChain)
  BY DEF initialize, TypeOK
<1>2. \A t \in Threads : thread[t].at = "idle"
  BY <1>1, Shapes DEF TypeOK
<1>3. /\ chain' \in Chains \cup {NoChain}
      /\ chain' # NoChain => chain'.key = meta /\ meta # 0
      /\ chain # NoChain => chain' # NoChain
  BY <1>1, Shapes DEF ShapeInv, ChainCertifiesKey
<1> DEFINE c == IF root' THEN chain' ELSE NoChain
           k == IF provUp THEN meta ELSE 0
<1>4. /\ vinfo' = provUp
      /\ tls' \in credential(1, c, k)
      /\ cached' \in keyLoaded(c, k, tls'.status)
  BY DEF initialize, initializeTlsCredentialProvider
<1>41. /\ c \in {chain', NoChain} /\ (c # NoChain => root' /\ c = chain')
       /\ k \in {0, meta} /\ (k # 0 => provUp)
  OBVIOUS
<1> HIDE DEF c, k
<1>42. /\ tls'.version = 1
       /\ tls'.status \in {"NOT_READY", "READY", "REFUSED"}
       /\ tls'.chain \in {c, NoChain}
       /\ tls'.status = "READY" => c # NoChain /\ k # 0 /\ tls'.chain = c
  BY <1>4, Judged
<1>43. cached' \in {0, meta}
  BY <1>1, <1>4, <1>41, <1>42 DEF keyLoaded, TypeOK
<1>5. /\ tls'.version = 1
      /\ tls'.status \in {"NOT_READY", "READY", "REFUSED"}
      /\ tls'.chain \in Chains \cup {NoChain}
      /\ tls'.status = "READY" => root' /\ vinfo' /\ chain' # NoChain /\ tls'.chain = chain'
  BY <1>3, <1>4, <1>41, <1>42
<1>6. up' /\ {up', root'} \subseteq BOOLEAN
  BY DEF initialize, initializeCaMaterialLoader, TypeOK
<1> USE <1>1, <1>2, <1>3, <1>4, <1>43, <1>5, <1>6
<1>7. TypeOK'
  <2>1. \A u \in Threads : hsm' = u <=> thread'[u].at \in {"save", "meta"}
    BY DEF TypeOK
  <2> QED
    BY <2>1 DEF TypeOK
<1>8. ShapeInv' /\ KeyPairIntact' /\ KeyInv'
  BY DEF ShapeInv, KeyPairIntact, KeyInv
<1>9. ChainCertifiesKey' /\ CertInv' /\ InstalledMeansCommitted'
  BY DEF ChainCertifiesKey, CertInv, InstalledMeansCommitted
<1>10. RefInv' /\ ServedChainIsCurrent' /\ OldReferencesExpire'
  BY DEF RefInv, ServedChainIsCurrent, OldReferencesExpire, signTls, decodeRef, ShapeInv,
         TypeOK
<1> QED
  BY <1>7, <1>8, <1>9, <1>10

\* The process dies with everything it had in memory.
LEMMA CrashStep == ASSUME IdentityInv, crash PROVE IdentityInv'
<1> USE DEF IdentityInv, disk, store, process, memory, counts
<1>1. /\ UNCHANGED <<disk, store, boot, issued, ref, counts>>
      /\ ~up' /\ {up', provUp', vinfo'} \subseteq BOOLEAN
      /\ cached' = 0 /\ hsm' = Nobody /\ csr' = 0 /\ tls' = NoTls
      /\ thread' = [t \in Threads |-> Idle]
  BY DEF crash, TypeOK
<1>2. /\ thread' \in [Threads -> ThreadState]
      /\ \A t \in Threads : thread'[t] = Idle /\ thread'[t].at = "idle"
  BY <1>1, Shapes
<1>3. tls'.status = "NOT_READY" /\ tls'.version = 0 /\ tls'.chain = NoChain
  BY <1>1 DEF NoTls
<1> USE <1>1, <1>2, <1>3
<1>4. TypeOK'
  <2>1. \A u \in Threads : hsm' = u <=> thread'[u].at \in {"save", "meta"}
    OBVIOUS
  <2> QED
    BY <2>1 DEF TypeOK
<1>5. ShapeInv' /\ KeyPairIntact' /\ KeyInv'
  BY DEF ShapeInv, ThreadState, KeyPairIntact, KeyInv
<1>6. ChainCertifiesKey' /\ CertInv' /\ InstalledMeansCommitted'
  BY DEF ChainCertifiesKey, CertInv, InstalledMeansCommitted
<1>7. RefInv' /\ ServedChainIsCurrent' /\ OldReferencesExpire'
  BY DEF RefInv, ServedChainIsCurrent, OldReferencesExpire, signTls, decodeRef
<1> QED
  BY <1>4, <1>5, <1>6, <1>7

\* Nothing happens.
LEMMA StutterStep == ASSUME IdentityInv, UNCHANGED vars PROVE IdentityInv'
<1> USE DEF IdentityInv, vars, disk, store, process, memory, counts
<1>1. TypeOK' /\ ShapeInv'
  BY DEF TypeOK, ShapeInv
<1>2. KeyPairIntact' /\ KeyInv' /\ ChainCertifiesKey' /\ CertInv'
  BY DEF KeyPairIntact, KeyInv, ChainCertifiesKey, CertInv
<1>3. InstalledMeansCommitted' /\ RefInv'
  BY DEF InstalledMeansCommitted, RefInv
<1>4. ServedChainIsCurrent' /\ OldReferencesExpire'
  BY DEF ServedChainIsCurrent, OldReferencesExpire, signTls, decodeRef
<1> QED
  BY <1>1, <1>2, <1>3, <1>4

\* Every step of every thread, every start and every crash keeps the invariant.
LEMMA NextIdentityInv == ASSUME IdentityInv, [Next]_vars PROVE IdentityInv'
<1>1. ASSUME NEW t \in Threads, provisioning(t)
      PROVE  IdentityInv'
  BY <1>1, BeginStep, EndStep, NoteStep, InjectStep DEF provisioning
<1>2. ASSUME NEW t \in Threads, proceed(t)
      PROVE  IdentityInv'
  BY <1>2, EngineStep, HsmStep, SaveStep, NoteStep, BuildStep, EndStep, PublishStep
  DEF proceed
<1> QED
  BY <1>1, <1>2, TlsStep, OutsideStep, InitializeStep, CrashStep, StutterStep DEF Next

\* The inductive invariant holds in every reachable state.
THEOREM IdentityInvHolds == Spec => []IdentityInv
BY InitIdentityInv, NextIdentityInv, PTL DEF Spec

\* All variables keep their types, and the HSM's mutex is held by the thread that
\* writes a key and by no other.
THEOREM TypeCorrect == Spec => []TypeOK
<1>1. IdentityInv => TypeOK
  BY DEF IdentityInv
<1> QED
  BY <1>1, IdentityInvHolds, PTL

\* The metadata never stands for a private key that is missing or another one
\* (save_key_to_store).
THEOREM KeyPairStaysIntact == Spec => []KeyPairIntact
<1>1. IdentityInv => KeyPairIntact
  BY DEF IdentityInv
<1> QED
  BY <1>1, IdentityInvHolds, PTL

\* The chain that is committed, or may come up after a restart, certifies the
\* stored key (inject_certificate, generate_key_pair).
THEOREM CommittedChainCertifiesKey == Spec => []ChainCertifiesKey
<1>1. IdentityInv => ChainCertifiesKey
  BY DEF IdentityInv
<1> QED
  BY <1>1, IdentityInvHolds, PTL

\* A stored CERT_INSTALLED means a committed chain (inject_certificate).
THEOREM InstalledIsCommitted == Spec => []InstalledMeansCommitted
<1>1. IdentityInv => InstalledMeansCommitted
  BY DEF IdentityInv
<1> QED
  BY <1>1, IdentityInvHolds, PTL

\* A READY credential serves the committed chain (rotateCredential).
THEOREM ServesCommittedChain == Spec => []ServedChainIsCurrent
<1>1. IdentityInv => ServedChainIsCurrent
  BY DEF IdentityInv
<1> QED
  BY <1>1, IdentityInvHolds, PTL

\* signTls accepts no reference to an older chain (rotateCredential, decodeRef).
THEOREM ReferencesExpire == Spec => []OldReferencesExpire
<1>1. IdentityInv => OldReferencesExpire
  BY DEF IdentityInv
<1> QED
  BY <1>1, IdentityInvHolds, PTL

\* Only save writes the metadata, and no thread is in it once a key is stored
\* (generate_device_key, SoftFileHsm::generate_key_pair).
THEOREM StoredKeyIsNeverReplaced == Spec => StoredKeyStays
<1>1. ASSUME IdentityInv, [Next]_vars
      PROVE  meta # 0 => meta' = meta
  <2> USE DEF disk, memory
  <2>1. CASE UNCHANGED vars
    BY <2>1 DEF vars
  <2>2. ASSUME NEW t \in Threads, provisioning(t)
        PROVE  meta' = meta
    BY <2>2
    DEF provisioning, generate_key_pair, get_csr, return_csr, apply_certificate,
        submit_csr, reset_provision_status, inject_certificate, begins
  <2>3. ASSUME NEW t \in Threads, proceed(t), ~save(t)
        PROVE  meta' = meta
    BY <2>3
    DEF proceed, generate_device_key, hsm_generate, noteKey, build_and_store_csr, noteCsr,
        return_nothing, apply_refused, publishDeviceCertChain, noteFailed
  <2>4. ASSUME NEW t \in Threads, save(t), meta # 0
        PROVE  FALSE
    BY <1>1, <2>4 DEF save, save_key_to_store, IdentityInv, KeyInv
  <2>5. ASSUME NEW t \in Threads, getTlsCredential(t)
        PROVE  meta' = meta
    BY <2>5 DEF getTlsCredential
  <2>6. CASE seed_error \/ initialize \/ crash \/ prov_answers
    BY <2>6 DEF seed_error, initialize, crash, prov_answers
  <2> QED
    BY <1>1, <2>1, <2>2, <2>3, <2>4, <2>5, <2>6 DEF Next
<1> QED
  BY <1>1, IdentityInvHolds, PTL DEF Spec, StoredKeyStays

=============================================================================
