--------------------------- MODULE DeviceIdentity ---------------------------
(***************************************************************************)
(* The device identity: the key pair in SoftFileHsm, the provisioning      *)
(* state in the framework store, the certificate chain in CertificateStore *)
(* and the TLS credential that is served from them, as the connection      *)
(* threads of the IPC server work on them through SecService.              *)
(*                                                                         *)
(* SecService has no lock of its own.  A thread reads the provisioning     *)
(* state, works, and writes a new state; in between other threads run and  *)
(* the process may crash.  Only SoftFileHsm, CertificateStore and          *)
(* TlsCredentialProvider each have a mutex.  What CertificateStore does    *)
(* inside a commit is the subject of CertificateStore and CertificateCell: *)
(* here the chain it holds changes in one step.                            *)
(***************************************************************************)
EXTENDS Naturals, FiniteSets

CONSTANTS
  Threads,     \* connection threads of the IPC server
  MaxKeys,     \* bound: key pairs generated
  MaxSerial,   \* bound: chains the PKI issues
  MaxBoots,    \* bound: starts of the daemon
  MaxFaults,   \* bound: failing writes
  MaxVersion   \* bound: versions of the TLS credential within one start

Nobody == "nobody"

ASSUME IdentityConstants ==
  /\ {MaxKeys, MaxSerial, MaxBoots, MaxFaults} \subseteq Nat
  /\ MaxVersion \in Nat \ {0}
  /\ Nobody \notin Threads

VARIABLES
  enc, meta,   \* durable: key whose encrypted part and whose metadata is stored
  prov,        \* durable: ProvisionStatus::state
  root,        \* durable: the store has the trust root (root_ca)
  chain,       \* CertificateStore: the chain readers get
  hidden,      \* CertificateStore: a refused chain a restart may come up with
  boot, up,    \* which start this is, and is it serving?
  provUp,      \* PROV answers, and knows VIN and ECU UID
  vinfo,       \* vin_ and ecu_uid_ are set
  cached,      \* keys_ of SoftFileHsm
  hsm,         \* thread inside SoftFileHsm::generate_key_pair
  csr,         \* csr_der_: the key it is for, 0 when empty
  tls,         \* the mqtt profile of TlsCredentialProvider
  thread,      \* what each thread is doing
  issued,      \* chains the PKI has issued
  ref,         \* a TLS bundle that a client was given
  fresh,       \* keys generated so far
  faults       \* writes that failed so far

disk == <<enc, meta, prov>>
store == <<root, chain, hidden>>
process == <<boot, up, provUp>>
memory == <<vinfo, cached, hsm, csr>>
counts == <<fresh, faults>>
vars == <<disk, store, process, memory, tls, thread, issued, ref, counts>>

Keys == 1..MaxKeys
NoChain == [serial |-> 0, key |-> 0]
Foreign == [serial |-> 0, key |-> MaxKeys + 1]    \* certifies another device's key
Chains == [serial : 1..MaxSerial, key : Keys]
State == {"NONE", "KEY_GENERATED", "CSR_BUILT", "CERT_INSTALLED", "FAILED"}
Idle == [at |-> "idle", op |-> "none", cert |-> NoChain, key |-> 0]
NoTls == [status |-> "NOT_READY", version |-> 0, chain |-> NoChain]
NoRef == [boot |-> 0, version |-> 0, chain |-> NoChain]

Init ==
  /\ enc = 0 /\ meta = 0 /\ prov = "NONE"
  /\ root = FALSE /\ chain = NoChain /\ hidden = NoChain
  /\ boot = 0 /\ up = FALSE /\ provUp = FALSE
  /\ vinfo = FALSE /\ cached = 0 /\ hsm = Nobody /\ csr = 0
  /\ tls = NoTls
  /\ thread = [t \in Threads |-> Idle]
  /\ issued = {}
  /\ ref = NoRef
  /\ fresh = 0 /\ faults = 0

goto(t, where) == thread' = [thread EXCEPT ![t].at = where]
done(t) == thread' = [thread EXCEPT ![t] = Idle]
leave(t, where) == thread' = [thread EXCEPT ![t].at = where, ![t].key = 0]
enter(t, where) == thread' = [thread EXCEPT ![t] = [Idle EXCEPT !.at = where]]

works == UNCHANGED faults
fails == faults < MaxFaults /\ faults' = faults + 1

-----------------------------------------------------------------------------
(***************************************************************************)
(* SoftFileHsm and KeyEngine                                               *)
(***************************************************************************)

\* Metadata is written last: it stands for the whole key.
key_exists == cached # 0 \/ meta # 0

\* load_key_from_store: the key is loaded when it is not in memory.
loaded == IF cached # 0 THEN cached ELSE meta

export_public_key == cached' = loaded

\* KeyEngine::get_device_key
get_device_key == key_exists /\ export_public_key

\* Mutant: the metadata is written first.
save_metadata_first(t) ==
  LET k == thread[t].key IN
  \/ /\ thread[t].at = "save" /\ works
     /\ meta' = k /\ goto(t, "meta")
     /\ UNCHANGED <<enc, cached, hsm>>
  \/ /\ thread[t].at = "meta" /\ works
     /\ enc' = k /\ cached' = k /\ hsm' = Nobody /\ leave(t, "noteKey")
     /\ UNCHANGED meta
  \/ /\ thread[t].at \in {"save", "meta"} /\ fails
     /\ hsm' = Nobody /\ enter(t, "noteFailed")
     /\ UNCHANGED <<enc, meta, cached>>

\* The encrypted private key, then the metadata, then keys_.
save_key_to_store(t) ==
  LET k == thread[t].key IN
  \/ /\ thread[t].at = "save" /\ works
     /\ enc' = k /\ goto(t, "meta")
     /\ UNCHANGED <<meta, cached, hsm>>
  \/ /\ thread[t].at = "meta" /\ works
     /\ meta' = k /\ cached' = k /\ hsm' = Nobody /\ leave(t, "noteKey")
     /\ UNCHANGED enc
  \/ /\ thread[t].at \in {"save", "meta"} /\ fails
     /\ hsm' = Nobody /\ enter(t, "noteFailed")
     /\ UNCHANGED <<enc, meta, cached>>

save(t) ==
  /\ save_key_to_store(t)
  /\ UNCHANGED <<prov, store, process, vinfo, csr, tls, issued, ref, fresh>>

\* Mutant: the mutex is not taken.
hsm_generate_unlocked(t) ==
  /\ thread[t].at = "hsm"
  /\ cached = 0 /\ fresh < MaxKeys
  /\ fresh' = fresh + 1
  /\ thread' = [thread EXCEPT ![t].at = "save", ![t].key = fresh + 1]
  /\ UNCHANGED <<disk, store, process, memory, tls, issued, ref, faults>>

\* SoftFileHsm::generate_key_pair, up to the first write.
hsm_generate(t) ==
  /\ thread[t].at = "hsm" /\ hsm = Nobody
  /\ \/ /\ cached # 0     \* KEY_ALREADY_EXISTS
        /\ enter(t, "noteFailed") /\ UNCHANGED <<hsm, fresh>>
     \/ /\ cached = 0 /\ fresh < MaxKeys
        /\ hsm' = t /\ fresh' = fresh + 1
        /\ thread' = [thread EXCEPT ![t].at = "save", ![t].key = fresh + 1]
  /\ UNCHANGED <<disk, store, process, vinfo, cached, csr, tls, issued, ref, faults>>

\* KeyEngine::generate_device_key: an existing key is taken.
generate_device_key(t) ==
  /\ thread[t].at = "engine" /\ hsm = Nobody
  /\ \/ key_exists /\ export_public_key /\ goto(t, "noteKey")
     \/ ~key_exists /\ goto(t, "hsm") /\ UNCHANGED cached
  /\ UNCHANGED <<disk, store, process, vinfo, hsm, csr, tls, issued, ref, counts>>

-----------------------------------------------------------------------------
(***************************************************************************)
(* SecService: provisioning                                                *)
(***************************************************************************)
ensure_vehicle_info == (vinfo \/ provUp) /\ vinfo' = TRUE

\* A call begins with the vehicle information and the stored state.
begins(t) ==
  /\ up /\ ensure_vehicle_info
  /\ UNCHANGED <<disk, store, process, cached, hsm, csr, tls, issued, ref, counts>>

\* Returns at once when the state says there is a key and the HSM has it.
generate_key_pair(t) ==
  /\ \/ thread[t] = Idle /\ enter(t, "engine")
     \/ thread[t].at = "generate" /\ goto(t, "engine")
  /\ prov \in {"NONE", "FAILED"} \/ (hsm = Nobody /\ ~key_exists)
  /\ begins(t)

\* update_provision_state: a state that cannot be saved is logged, no more.
update_provision_state(state) ==
  \/ works /\ prov' = state
  \/ fails /\ UNCHANGED prov

noteKey(t) ==
  /\ thread[t].at = "noteKey"
  /\ update_provision_state("KEY_GENERATED")
  /\ IF thread[t].op = "apply" THEN goto(t, "csr") ELSE done(t)
  /\ UNCHANGED <<enc, meta, store, process, memory, tls, issued, ref, fresh>>

\* handle_error
noteFailed(t) ==
  /\ thread[t].at = "noteFailed"
  /\ update_provision_state("FAILED")
  /\ done(t)
  /\ UNCHANGED <<enc, meta, store, process, memory, tls, issued, ref, fresh>>

\* The CSR is built anew when the state asks for it or memory has none.
get_csr(t) ==
  /\ prov = "KEY_GENERATED" \/ csr = 0
  /\ prov # "NONE"
  /\ \/ thread[t] = Idle /\ enter(t, "build")
     \/ thread[t].at = "csr" /\ goto(t, "build")
  /\ begins(t)

\* The client of get_csr has the PKI issue a chain, and may inject it later; the
\* CSR of apply_certificate goes nowhere.
issue(t) ==
  \/ /\ thread[t].op # "apply" /\ csr # 0 /\ Cardinality(issued) < MaxSerial
     /\ issued' = issued \cup {[serial |-> Cardinality(issued) + 1, key |-> csr]}
  \/ UNCHANGED issued

\* The CSR in memory is returned.
return_csr(t) ==
  /\ thread[t] = Idle \/ thread[t].at = "csr"
  /\ prov \notin {"NONE", "KEY_GENERATED"}
  /\ up /\ csr # 0 /\ ensure_vehicle_info
  /\ issue(t)
  /\ done(t)
  /\ UNCHANGED <<disk, store, process, cached, hsm, csr, tls, ref, counts>>

\* A call that ends without effect: a state without key.
return_nothing(t) ==
  /\ \/ thread[t].at = "csr" /\ prov = "NONE"
     \/ thread[t].at = "generate" /\ prov \notin {"NONE", "FAILED"}
          /\ hsm = Nobody /\ key_exists
  /\ IF thread[t].at = "generate" THEN goto(t, "csr") ELSE done(t)
  /\ UNCHANGED <<disk, store, process, memory, tls, issued, ref, counts>>

\* CsrBuilder::build_csr clears the old CSR before it asks for the key.
build_csr ==
  \/ get_device_key /\ csr' = loaded
  \/ ~key_exists /\ csr' = 0 /\ UNCHANGED cached

build_and_store_csr(t) ==
  /\ thread[t].at = "build" /\ hsm = Nobody
  /\ build_csr
  /\ IF csr' # 0 THEN goto(t, "noteCsr") ELSE enter(t, "noteFailed")
  /\ UNCHANGED <<disk, store, process, vinfo, hsm, tls, issued, ref, counts>>

noteCsr(t) ==
  /\ thread[t].at = "noteCsr"
  /\ update_provision_state("CSR_BUILT")
  /\ issue(t)
  /\ done(t)
  /\ UNCHANGED <<enc, meta, store, process, memory, tls, ref, fresh>>

applying(t, where) ==
  thread' = [thread EXCEPT ![t] = [Idle EXCEPT !.op = "apply", !.at = where]]

\* Without a diagnostic service there is nowhere to send the CSR; the vehicle
\* information has been looked up all the same.
submit_csr(t) ==
  /\ thread[t] = Idle /\ begins(t)
  /\ UNCHANGED thread

\* generate_key_pair, get_csr, submit_csr in turn.  FAILED starts over from NONE.
apply_certificate(t) ==
  /\ up /\ thread[t] = Idle
  /\ \/ prov = "NONE" /\ applying(t, "generate") /\ UNCHANGED <<prov, faults>>
     \/ prov = "FAILED" /\ applying(t, "generate") /\ update_provision_state("NONE")
     \/ prov = "KEY_GENERATED" /\ applying(t, "csr") /\ UNCHANGED <<prov, faults>>
  /\ UNCHANGED <<enc, meta, store, process, memory, tls, issued, ref, fresh>>

\* apply_certificate ends where the vehicle information is missing.
apply_refused(t) ==
  /\ thread[t].at \in {"generate", "csr"} /\ ~vinfo /\ ~provUp
  /\ done(t)
  /\ UNCHANGED <<disk, store, process, memory, tls, issued, ref, counts>>

\* The stored state is removed, and the CSR in memory cleared.
reset_provision_status(t) ==
  /\ up /\ thread[t] = Idle
  /\ update_provision_state("NONE")
  /\ csr' = 0
  /\ UNCHANGED <<enc, meta, store, process, vinfo, cached, hsm, tls, thread, issued,
                 ref, fresh>>

\* A failing seed or key computation also sets the state to FAILED.
seed_error ==
  /\ up /\ prov # "FAILED"
  /\ prov' = "FAILED"
  /\ UNCHANGED <<enc, meta, store, process, memory, tls, thread, issued, ref, counts>>

-----------------------------------------------------------------------------
(***************************************************************************)
(* SecService: certificate injection                                       *)
(***************************************************************************)
device_key_present == key_exists

match_certificate_key(c) == c.key = loaded

\* Mutant: the key is not compared.
validate_any_key(c) == get_device_key

\* CertValidator::validate_certificate lets c pass.
validate_certificate(c) == get_device_key /\ match_certificate_key(c)

\* Form, root, profile and trusted time may refuse any chain, before or after the
\* key is loaded.
validate_and_store_certificate(t, c) ==
  \/ /\ validate_certificate(c)
     /\ thread' = [thread EXCEPT ![t] = [Idle EXCEPT !.at = "publish", !.cert = c]]
  \/ enter(t, "noteFailed") /\ cached' \in {cached, loaded}

inject_certificate(t, c) ==
  /\ up /\ thread[t] = Idle /\ hsm = Nobody
  /\ ensure_vehicle_info
  /\ prov = "CSR_BUILT" \/ (prov = "FAILED" /\ device_key_present)
  /\ validate_and_store_certificate(t, c)
  /\ UNCHANGED <<disk, store, process, hsm, csr, tls, issued, ref, counts>>

\* Mutant: an empty store counts as the same chain.
same_or_empty(c) == chain \in {c, NoChain}

sameDigest(c) == chain = c

\* What a load may find with the chain c (NoChain when a material is missing) and
\* the device key k (0 when it is unknown).  Form, EKU, trust root and path refuse
\* chains that the injection let pass, which checks no signature; the validity is
\* compared with the wall clock, which says something else at every load.  REFUSED
\* stands for ERROR and for EXPIRED.
verdicts(c, k) ==
  IF c = NoChain THEN {"NOT_READY"}
  ELSE {"REFUSED"} \cup {s \in {"NOT_READY"} : k = 0}
                   \cup {s \in {"READY"} : k # 0 /\ c.key = k}

\* The profile after a load.  One that is not READY still has its old chain, but
\* gives it to nobody before the next load that passes replaces it.
credential(version, c, k) ==
  {[version |-> version, status |-> s, chain |-> IF s = "READY" THEN c ELSE NoChain] :
     s \in verdicts(c, k)}

\* The key is looked up, and loaded, after form, EKU and validity.
keyLoaded(c, k, status) ==
  IF status = "READY" THEN {k}
  ELSE {cached} \cup (IF c = NoChain THEN {} ELSE {k} \ {0})

validateAndStoreMaterials(version) ==
  LET c == IF root THEN chain ELSE NoChain
      k == IF vinfo THEN loaded ELSE 0
  IN  /\ hsm = Nobody
      /\ tls' \in credential(version, c, k)
      /\ cached' \in keyLoaded(c, k, tls'.status)

\* A commit that fails leaves what readers get; when the new CURRENT could not
\* be synced a restart may come up with either.
commit_chain(c) ==
  /\ UNCHANGED root
  /\ \/ works /\ chain' = c /\ hidden' = NoChain
     \/ fails /\ UNCHANGED chain /\ hidden' \in {hidden, c}

\* Mutant: the version is raised only for materials that pass.
rotate_if_ready ==
  \/ validateAndStoreMaterials(tls.version) /\ tls'.status # "READY"
  \/ /\ tls.version < MaxVersion
     /\ validateAndStoreMaterials(tls.version + 1) /\ tls'.status = "READY"

\* rotateCredential: the version is raised whatever the materials turn out to be.
rotate == tls.version < MaxVersion /\ validateAndStoreMaterials(tls.version + 1)

\* What inject_certificate does when the chain is published.
installed(t) == update_provision_state("CERT_INSTALLED") /\ done(t)

\* Mutant: the credential is rotated before the commit.
rotate_then_commit(t) ==
  \/ /\ thread[t].at = "commit"
     /\ rotate /\ goto(t, "rotate")
     /\ UNCHANGED <<store, prov, faults>>
  \/ /\ thread[t].at = "rotate"
     /\ chain' = thread[t].cert /\ hidden' = NoChain
     /\ installed(t)
     /\ UNCHANGED <<root, tls, cached>>

\* The rotation changes memory only; it is one step with the state saved next.
commit_then_rotate(t) ==
  \/ /\ thread[t].at = "commit"
     /\ commit_chain(thread[t].cert)
     /\ enter(t, IF faults' = faults THEN "rotate" ELSE "noteFailed")
     /\ UNCHANGED <<tls, cached, prov>>
  \/ /\ thread[t].at = "rotate"
     /\ rotate /\ installed(t)
     /\ UNCHANGED store

\* The chain that is already there is not committed again; a new one is
\* committed and then served.
publishDeviceCertChain(t) ==
  /\ \/ /\ thread[t].at = "publish" /\ sameDigest(thread[t].cert)
        /\ installed(t)
        /\ UNCHANGED <<store, tls, cached>>
     \/ /\ thread[t].at = "publish" /\ ~sameDigest(thread[t].cert)
        /\ goto(t, "commit")
        /\ UNCHANGED <<prov, store, tls, cached, faults>>
     \/ commit_then_rotate(t)
  /\ UNCHANGED <<enc, meta, process, vinfo, hsm, csr, issued, ref, fresh>>

-----------------------------------------------------------------------------
(***************************************************************************)
(* TlsCredentialProvider                                                   *)
(***************************************************************************)
\* The bundle holds a reference bound to version and boot_epoch_.  ref follows one
\* of the references that clients have; the one they get now, or an older one.
bundle(c) ==
  ref' \in {ref} \cup {r \in {[boot |-> boot, version |-> c.version, chain |-> c.chain]} :
                        c.status = "READY"}

\* Mutant: the materials are not loaded again.
load_once(t) == thread[t].at = "load" /\ UNCHANGED <<tls, cached>>

loadMaterials(t) ==
  /\ thread[t].at = "load"
  /\ validateAndStoreMaterials(IF tls.version = 0 THEN 1 ELSE tls.version)

\* A profile that is seen not READY is loaded first; in between the mutex is
\* free.
ensure_tls_material_ready(t) ==
  /\ tls.status # "READY"
  /\ ensure_vehicle_info /\ enter(t, "load")

getTlsCredential(t) ==
  /\ \/ /\ up /\ thread[t] = Idle /\ tls.status = "READY"
        /\ bundle(tls)
        /\ UNCHANGED <<vinfo, tls, cached, thread>>
     \/ /\ up /\ thread[t] = Idle
        /\ ensure_tls_material_ready(t)
        /\ UNCHANGED <<tls, cached, ref>>
     \/ /\ loadMaterials(t)
        /\ bundle(tls') /\ done(t)
        /\ UNCHANGED vinfo
  /\ UNCHANGED <<disk, store, process, hsm, csr, issued, counts>>

\* Mutant: references outlive the process.
sign_any_boot(r) ==
  /\ up /\ r.version = tls.version
  /\ tls.status = "READY"

\* The key that seals a reference is made when the process starts.
decodeRef(r) == r.boot = boot

\* signTls accepts the reference r.
signTls(r) ==
  /\ up /\ decodeRef(r)
  /\ r.version = tls.version /\ r.boot = boot
  /\ tls.status = "READY"

-----------------------------------------------------------------------------
(***************************************************************************)
(* The process and its surroundings                                        *)
(***************************************************************************)
\* The trust root is imported when the file that BUILD installs is there and is
\* a CA certificate; otherwise the one imported earlier stays.
initializeCaMaterialLoader == root' \in {root, TRUE}

\* The TLS profile is loaded once, with the vehicle information PROV has now.
initializeTlsCredentialProvider ==
  LET c == IF root' THEN chain' ELSE NoChain
      k == IF provUp THEN meta ELSE 0
  IN  /\ vinfo' = provUp
      /\ tls' \in credential(1, c, k)
      /\ cached' \in keyLoaded(c, k, tls'.status)

\* SecService::initialize: trust root, certificate store, TLS provider.  The store
\* recovers: CertificateStore proves that it fails to after media damage only.
initialize ==
  /\ ~up /\ boot < MaxBoots
  /\ up' = TRUE /\ boot' = boot + 1
  /\ initializeCaMaterialLoader
  /\ chain' \in {chain} \cup ({hidden} \ {NoChain}) /\ hidden' = NoChain
  /\ initializeTlsCredentialProvider
  /\ UNCHANGED <<disk, provUp, hsm, csr, thread, issued, ref, counts>>

\* The process dies, alone or together with PROV; what was in memory is gone.
crash ==
  /\ up /\ boot < MaxBoots
  /\ up' = FALSE /\ provUp' \in {provUp, FALSE}
  /\ vinfo' = FALSE /\ cached' = 0 /\ hsm' = Nobody /\ csr' = 0
  /\ tls' = NoTls
  /\ thread' = [t \in Threads |-> Idle]
  /\ UNCHANGED <<disk, store, boot, issued, ref, counts>>

\* PROV comes up, or gets VIN and ECU UID.
prov_answers ==
  /\ ~provUp /\ provUp' = TRUE
  /\ UNCHANGED <<disk, store, boot, up, memory, tls, thread, issued, ref, counts>>

provisioning(t) ==
  \/ generate_key_pair(t) \/ get_csr(t) \/ return_csr(t) \/ apply_certificate(t)
  \/ submit_csr(t) \/ reset_provision_status(t)
  \/ \E c \in issued \cup {Foreign} : inject_certificate(t, c)

proceed(t) ==
  \/ generate_device_key(t) \/ hsm_generate(t) \/ save(t) \/ noteKey(t)
  \/ build_and_store_csr(t) \/ noteCsr(t) \/ return_nothing(t) \/ apply_refused(t)
  \/ publishDeviceCertChain(t) \/ noteFailed(t)

Next ==
  \/ \E t \in Threads : provisioning(t) \/ proceed(t) \/ getTlsCredential(t)
  \/ seed_error \/ initialize \/ crash \/ prov_answers

Spec == Init /\ [][Next]_vars

\* Threads run, the supervisor restarts the daemon, and the TLS client keeps
\* asking whenever a connection thread is free.
FairSpec ==
  /\ Spec
  /\ WF_vars(initialize)
  /\ \A t \in Threads : WF_vars(thread[t] # Idle /\ (proceed(t) \/ provisioning(t)))
  /\ SF_vars(\E t \in Threads : getTlsCredential(t))

-----------------------------------------------------------------------------
(***************************************************************************)
(* Properties                                                              *)
(***************************************************************************)
TypeOK ==
  /\ {enc, meta, cached, csr, fresh} \subseteq 0..MaxKeys
  /\ prov \in State
  /\ {chain, hidden, tls.chain, ref.chain} \subseteq Chains \cup {NoChain, Foreign}
  /\ boot \in 0..MaxBoots /\ {up, provUp, vinfo, root} \subseteq BOOLEAN
  /\ hsm \in Threads \cup {Nobody}
  /\ \A t \in Threads : hsm = t <=> thread[t].at \in {"save", "meta"}
  /\ tls.status \in {"NOT_READY", "READY", "REFUSED"}
  /\ tls.version \in 0..MaxVersion
  /\ issued \subseteq Chains
  /\ faults \in 0..MaxFaults
  /\ ~up => cached = 0 /\ csr = 0 /\ \A t \in Threads : thread[t] = Idle

\* Metadata never stands for a key whose encrypted private part is another one
\* or missing, whichever write fails and wherever the process dies
\* (save_key_to_store: "commit marker").
KeyPairIntact == meta # 0 => enc = meta

\* A stored device key is never replaced: not by threads that both found no key
\* and then generated one, not after FAILED, not across crashes
\* (generate_device_key, SoftFileHsm::generate_key_pair).
StoredKeyStays == [][meta # 0 => meta' = meta]_vars

\* The chain CertificateStore holds, or may come up with after a restart,
\* certifies the key the HSM holds: no sequence of resets, applications,
\* generations, crashes and concurrent calls replaces a certified key.
ChainCertifiesKey ==
  \A c \in {chain, hidden} \ {NoChain} : c.key = meta /\ cached \in {0, meta}

\* A stored CERT_INSTALLED means that CertificateStore holds a chain, although
\* state and chain are in different stores (inject_certificate).
InstalledMeansCommitted == prov = "CERT_INSTALLED" => chain # NoChain

\* A READY credential serves the chain that is committed, except while the
\* thread that committed a newer one is about to rotate: no interleaving of
\* injections, reloads and crashes leaves an older chain in service.
ServedChainIsCurrent ==
  tls.status = "READY" /\ (\A t \in Threads : thread[t].at # "rotate")
    => tls.chain = chain

\* Once the rotation is over, signTls accepts no reference that was handed out
\* with an older chain, neither of this start nor of an earlier one
\* (rotateCredential).
OldReferencesExpire ==
  signTls(ref) /\ (\A t \in Threads : thread[t].at # "rotate") => ref.chain = chain

-----------------------------------------------------------------------------
(***************************************************************************)
(* The inductive invariant behind the safety properties                    *)
(***************************************************************************)
Location == {"idle", "generate", "engine", "hsm", "save", "meta", "noteKey", "csr",
             "build", "noteCsr", "noteFailed", "publish", "commit", "rotate", "load"}

\* No chain that certifies another device's key gets anywhere but into a call.
ShapeInv ==
  /\ thread \in [Threads -> [at : Location, op : {"none", "apply"},
                             cert : Chains \cup {NoChain}, key : 0..MaxKeys]]
  /\ {chain, hidden, tls.chain, ref.chain} \subseteq Chains \cup {NoChain}
  /\ IsFiniteSet(issued)
  /\ {ref.boot, ref.version} \subseteq Nat

\* The key in memory is the stored one.  A thread that is about to generate a key
\* finds one in memory if another thread was faster, and one that writes a key
\* is the only one and replaces none.
KeyInv ==
  /\ cached \in {0, meta}
  /\ \A t \in Threads :
       /\ thread[t].at = "hsm" => meta = 0 \/ cached # 0
       /\ thread[t].at \in {"save", "meta"} => meta = 0 /\ thread[t].key # 0
       /\ thread[t].at = "meta" => enc = thread[t].key

\* A chain on its way into the store certifies the stored key.
CertInv ==
  \A t \in Threads :
    /\ thread[t].at \in {"publish", "commit"} =>
         thread[t].cert \in Chains /\ thread[t].cert.key = meta
    /\ thread[t].at = "rotate" => chain # NoChain

\* A READY credential has all its materials.  Versions only grow within a start,
\* and every commit is followed by a new one, whatever the rotation finds: a
\* reference with the current version is one to the committed chain.
RefInv ==
  /\ tls.status = "READY" => root /\ vinfo /\ chain # NoChain
  /\ ref.boot <= boot
  /\ up /\ ref.boot = boot =>
       /\ ref.version <= tls.version
       /\ ref.version = tls.version /\ (\A t \in Threads : thread[t].at # "rotate")
            => ref.chain = chain

\* What every step of every thread preserves.
IdentityInv ==
  /\ TypeOK /\ ShapeInv
  /\ KeyPairIntact /\ KeyInv
  /\ ChainCertifiesKey /\ CertInv
  /\ InstalledMeansCommitted
  /\ RefInv
  /\ ServedChainIsCurrent
  /\ OldReferencesExpire

-----------------------------------------------------------------------------
(***************************************************************************)
(* Liveness                                                                *)
(***************************************************************************)

\* Once PROV answers and there is a trust root, a committed chain is judged: it gets
\* into service, or is refused for what it is, or the process has died.  It does
\* not stay NOT_READY because PROV was not there as the daemon started
\* (ensure_tls_material_ready).
CommittedChainIsJudged ==
  up /\ root /\ chain # NoChain /\ provUp ~> tls.status # "NOT_READY" \/ ~up

=============================================================================
