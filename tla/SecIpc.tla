------------------------------- MODULE SecIpc -------------------------------
(***************************************************************************)
(* The security service as its clients see it: SecClient with its retry    *)
(* policy, the IPC server's connection threads, SecIpcDispatcher, and the  *)
(* life of SecApplication from initialize to cleanup.                      *)
(*                                                                         *)
(* A call is sent over a connection of its own thread.  The transport may  *)
(* fail at any moment: the client then sends the request once more (call)  *)
(* or gives up (callOnce), and the thread that has read the first copy     *)
(* goes on.  GET_SEED and VERIFY_KEY run the operations of SeedKey, whose  *)
(* clock stands still here (its own specification lets it run); what       *)
(* the other handlers do inside the service is the subject of the other    *)
(* modules, here they only use the component the dispatcher points to.     *)
(***************************************************************************)
EXTENDS SeedKey, Sequences, FiniteSets

CONSTANTS
  Clients,      \* SecClient objects
  PeerOf,       \* the systemd unit that PeerCredentialResolver finds
  Asks,         \* the methods each client calls, with the security level
  Slots,        \* bound: connections a client has open at a time
  MaxInits      \* bound: incarnations told apart

ServiceMethods ==
  {"INITIALIZE", "GENERATE_KEY_PAIR", "EXPORT_PRIVATE_KEY", "GET_CSR",
   "SUBMIT_CSR", "INJECT_CERTIFICATE", "APPLY_CERTIFICATE", "GET_SEED",
   "VERIFY_KEY", "GET_STATUS", "GET_DEVICE_INFO", "RESET_STATUS"}
TlsMethods ==
  {"GET_TLS_CREDENTIAL", "GET_TLS_CREDENTIAL_STATE", "SIGN_TLS",
   "SUBSCRIBE_TLS_CREDENTIAL_CHANGED"}
LegacyKeyMethods ==
  {"GET_BUSINESS_KEY_STATUS", "IMPORT_WRAPPED_BUSINESS_KEYS",
   "GET_BUSINESS_KEY_IMPORT_RESULT"}
Kl1Methods ==
  {"GET_V2C_KEY_PROVISIONING_CAPABILITY", "IMPORT_WRAPPED_BUSINESS_KEYS_KL1",
   "GET_KEYPROV_CONTRACT_SNAPSHOT"}
KeyMethods == LegacyKeyMethods \cup Kl1Methods
TimeMethods == {"GET_TRUSTED_TIME", "SUBSCRIBE_TRUSTED_TIME_CHANGED"}
MethodId ==
  ServiceMethods \cup TlsMethods \cup KeyMethods \cup TimeMethods
    \cup {"SET_CA_CERTIFICATE"}

ASSUME SecIpcAssumption ==
  /\ Asks \in [Clients -> SUBSET [m : MethodId, level : Levels \cup {0}]]
  /\ PeerOf \in [Clients -> STRING]
  /\ Slots \in [Clients -> Nat \ {0}] /\ MaxInits \in Nat \ {0}

VARIABLES
  app,       \* "init", "running", "cleanup" or "exited"
  step,      \* position in initOrder or cleanupOrder
  alive,     \* the objects SecApplication holds
  accepting, \* the server takes connections and reads requests
  shutting,  \* SecService::shutting_down_
  owned,     \* incarnation of the components the service owns
  wired,     \* incarnation the dispatcher's raw pointers were taken from
  client,    \* the call each client is in
  thread,    \* the server's thread for each connection
  got,       \* the last seed each client received
  accepted   \* history: the key of the client's present call was accepted

appVars == <<app, step, alive, accepting, shutting, owned, wired>>
callVars == <<client, thread, got, accepted>>
vars == <<now, seedVars, appVars, callVars>>

Object == {"store", "prov", "service", "dispatcher", "server"}
Status == SeedStatus \cup {"ACL_DENIED", "NOT_INITIALIZED", "NOT_READY",
                           "DONE", "HANDLER_FAILED"}
Request == [m : MethodId, level : Levels \cup {0}, key : 0..MaxSeeds]
NoRequest == [m |-> "GET_STATUS", level |-> 0, key |-> 0]
Thread == [at : {"free", "arrived", "inside", "replied"}, req : Request,
           status : Status, id : 0..MaxSeeds, current : BOOLEAN]
Free == [at |-> "free", req |-> NoRequest, status |-> "DONE", id |-> 0,
         current |-> FALSE]
Connections == UNION {{c} \X (1..Slots[c]) : c \in Clients}

-----------------------------------------------------------------------------
(***************************************************************************)
(* SecRetryPolicy and SecClient                                            *)
(***************************************************************************)
ReadOnly ==
  {"GET_STATUS", "GET_DEVICE_INFO", "GET_CSR", "EXPORT_PRIVATE_KEY",
   "RESET_STATUS", "INITIALIZE", "GET_TLS_CREDENTIAL",
   "GET_TLS_CREDENTIAL_STATE", "GET_BUSINESS_KEY_STATUS",
   "GET_BUSINESS_KEY_IMPORT_RESULT"}
BusinessIdempotent == {"GENERATE_KEY_PAIR"}

\* Mutant: every method is sent again.
retry_everything(m) == TRUE

should_retry(m) == m \in ReadOnly \cup BusinessIdempotent

\* What a client may ask next; with VERIFY_KEY it sends the key of the last
\* seed it received or one that fits no seed.
requests(c) ==
  {[m |-> a.m, level |-> a.level, key |-> k] :
     a \in Asks[c], k \in {0, got[c]}}

place(c, s, r) ==
  thread' = [t \in Connections |->
    IF t = <<c, s>>
    THEN [at |-> "arrived", req |-> r, status |-> "DONE", id |-> 0,
          current |-> TRUE]
    ELSE IF t[1] = c
         THEN [thread[t] EXCEPT !.current = FALSE] ELSE thread[t]]

Idle == [pc |-> "idle", req |-> NoRequest, slot |-> 1, tries |-> 1]

\* A server that cannot be reached ends the call at once.
send_request(c, r) ==
  /\ client[c] = Idle /\ accepting
  /\ r.m = "VERIFY_KEY" \/ r.key = 0
  /\ \E s \in 1..Slots[c] :
       /\ thread[<<c, s>>].at = "free"
       /\ \A u \in 1..(s - 1) : thread[<<c, u>>].at # "free"
       /\ place(c, s, r)
       /\ client' = [client EXCEPT ![c] =
            [pc |-> "waiting", req |-> r, slot |-> s, tries |-> 1]]
  /\ accepted' = [accepted EXCEPT ![c] = FALSE]
  /\ UNCHANGED <<now, seedVars, appVars, got>>

\* The connection breaks or the reply takes longer than receive_timeout_ms.
\* A request that the server has not read yet is gone with it.
abandoned(c) ==
  LET t == <<c, client[c].slot>> IN
  IF thread[t].at \in {"arrived", "replied"}
  THEN [thread EXCEPT ![t] = Free] ELSE thread

\* Mutant: the second transport failure sends the request once more.
give_up_never(c) == should_retry(client[c].req.m) /\ accepting

mayResend(c) ==
  should_retry(client[c].req.m) /\ client[c].tries = 1 /\ accepting

resend(c) ==
  /\ client[c].pc = "waiting" /\ mayResend(c)
  /\ \E s \in 1..Slots[c] :
       /\ abandoned(c)[<<c, s>>].at = "free"
       /\ \A u \in 1..(s - 1) : abandoned(c)[<<c, u>>].at # "free"
       /\ thread' = [abandoned(c) EXCEPT ![<<c, s>>] =
            [at |-> "arrived", req |-> client[c].req, status |-> "DONE",
             id |-> 0, current |-> TRUE]]
       /\ client' = [client EXCEPT ![c].slot = s, ![c].tries = @ + 1]
  /\ UNCHANGED <<now, seedVars, appVars, got, accepted>>

\* Mutant: the failure of the second copy is not reported.
wait_on(c) ==
  /\ client[c].pc = "waiting" /\ ~mayResend(c)
  /\ thread' = abandoned(c)
  /\ UNCHANGED <<now, seedVars, appVars, client, got, accepted>>

giveUp(c) ==
  /\ client[c].pc = "waiting" /\ ~mayResend(c)
  /\ thread' = abandoned(c)
  /\ client' = [client EXCEPT ![c] = Idle]
  /\ UNCHANGED <<now, seedVars, appVars, got, accepted>>

receive(c) ==
  LET t == thread[<<c, client[c].slot>>] IN
  /\ client[c].pc = "waiting" /\ t.at = "replied"
  /\ client' = [client EXCEPT ![c] = Idle]
  /\ got' = [got EXCEPT ![c] = IF t.id # 0 THEN t.id ELSE @]
  /\ thread' = [thread EXCEPT ![<<c, client[c].slot>>] = Free]
  /\ UNCHANGED <<now, seedVars, appVars, accepted>>

-----------------------------------------------------------------------------
(***************************************************************************)
(* SecIpcDispatcher, on the thread of a connection                         *)
(***************************************************************************)
\* Mutant: a thread whose client has gone cannot get rid of its reply.
reply_blocks(t, status, id) ==
  thread' = [thread EXCEPT ![t] =
    IF client[t[1]].pc = "waiting" /\ client[t[1]].slot = t[2]
    THEN [@ EXCEPT !.at = "replied", !.req = NoRequest, !.status = status,
                   !.id = id]
    ELSE @]

\* A thread whose client has gone writes its reply to a closed socket.
reply(t, status, id) ==
  thread' = [thread EXCEPT ![t] =
    IF client[t[1]].pc = "waiting" /\ client[t[1]].slot = t[2]
    THEN [@ EXCEPT !.at = "replied", !.req = NoRequest, !.status = status,
                   !.id = id]
    ELSE Free]

\* What each group of handlers returns before it does anything, "none" when it
\* goes on.  First comes the caller's unit, then the shutdown flag.
withACL(c, unit, then) == IF PeerOf[c] = unit THEN then ELSE "ACL_DENIED"

unlessShutting(status) == IF shutting THEN status ELSE "none"

\* SecService has no ACL; these operations look at shutting_down_.
refuse_service(m) ==
  IF m \in {"GENERATE_KEY_PAIR", "SUBMIT_CSR", "INJECT_CERTIFICATE",
            "APPLY_CERTIFICATE", "GET_SEED", "VERIFY_KEY"}
  THEN unlessShutting("NOT_INITIALIZED") ELSE "none"

\* isAuthorized for the mqtt profile; a shutdown refuses nothing here.
refuse_tls(c, m) ==
  IF m = "GET_TLS_CREDENTIAL_STATE" THEN "none"
  ELSE withACL(c, "tbox-mqtt.service", "none")

\* getStatus, import and getImportResultKl1 refuse in a shutdown.
refuse_keys(c) ==
  withACL(c, "tbox-tsp.service", unlessShutting("NOT_READY"))

\* Of the KL1 methods only the import looks at shutting_down_.
refuse_kl1(c, m) ==
  withACL(c, "tbox-tsp.service",
          IF m = "IMPORT_WRAPPED_BUSINESS_KEYS_KL1"
          THEN unlessShutting("NOT_READY") ELSE "none")

refuse_time(c) == withACL(c, "tbox-mqtt.service", "none")

\* SET_CA_CERTIFICATE is retired.
refusal(c, m) ==
  CASE m \in ServiceMethods -> refuse_service(m)
    [] m \in TlsMethods -> refuse_tls(c, m)
    [] m \in LegacyKeyMethods -> refuse_keys(c)
    [] m \in Kl1Methods -> refuse_kl1(c, m)
    [] m \in TimeMethods -> refuse_time(c)
    [] m = "SET_CA_CERTIFICATE" -> "HANDLER_FAILED"

\* The thread reads the request and goes through the handler's early returns.
dispatch(t) ==
  /\ accepting /\ thread[t].at = "arrived"
  /\ LET r == refusal(t[1], thread[t].req.m) IN
     \/ r # "none" /\ reply(t, r, 0)
     \/ r = "none" /\ thread' = [thread EXCEPT ![t].at = "inside"]
  /\ UNCHANGED <<now, seedVars, appVars, client, got, accepted>>

handle_get_seed(t) ==
  /\ thread[t].at = "inside" /\ thread[t].req.m = "GET_SEED"
  /\ \E status \in SeedStatus, id \in 0..MaxSeeds :
       /\ get_seed(thread[t].req.level, status, id)
       /\ reply(t, status, id)
  /\ UNCHANGED <<now, appVars, client, got, accepted>>

handle_verify_key(t) ==
  /\ thread[t].at = "inside" /\ thread[t].req.m = "VERIFY_KEY"
  /\ \E status \in SeedStatus :
       /\ verify_key(thread[t].req.level, thread[t].req.key, status)
       /\ reply(t, status, 0)
       /\ accepted' = [accepted EXCEPT ![t[1]] =
            @ \/ (thread[t].current /\ status = "SUCCESS")]
  /\ UNCHANGED <<now, appVars, client, got>>

\* SecService::initialize on a running service creates the key engine, the
\* TLS credential provider and the business key service anew.  The
\* dispatcher keeps the pointers it was given.  An early return leaves all of
\* them, or has replaced the key engine that the others use.
handle_initialize(t) ==
  LET anew == IF owned < MaxInits THEN owned + 1 ELSE owned IN
  /\ thread[t].at = "inside" /\ thread[t].req.m = "INITIALIZE"
  /\ \/ owned' = anew /\ reply(t, "SUCCESS", 0)
     \/ owned' \in {owned, anew} /\ reply(t, "HANDLER_FAILED", 0)
  /\ UNCHANGED <<now, seedVars, app, step, alive, accepting, shutting, wired,
                 client, got, accepted>>

\* What the handlers of each group answer once they have gone on.  Parameters that
\* do not parse, a component that refuses and a subscription that cannot be made are
\* all HANDLER_FAILED; a few handlers only read.
Answer == {"DONE", "HANDLER_FAILED"}

answer_service(m) == IF m \in {"GET_STATUS", "GET_DEVICE_INFO"} THEN {"DONE"} ELSE Answer

answer_tls == Answer

answer_keys == Answer

answer_kl1(m) == IF m = "IMPORT_WRAPPED_BUSINESS_KEYS_KL1" THEN Answer ELSE {"DONE"}

answer_time == Answer

answers(m) ==
  CASE m \in ServiceMethods -> answer_service(m)
    [] m \in TlsMethods -> answer_tls
    [] m \in LegacyKeyMethods -> answer_keys
    [] m \in Kl1Methods -> answer_kl1(m)
    [] m \in TimeMethods -> answer_time
    [] OTHER -> {"HANDLER_FAILED"}

\* Any other handler.
handle(t) ==
  /\ thread[t].at = "inside"
  /\ thread[t].req.m \notin {"GET_SEED", "VERIFY_KEY", "INITIALIZE"}
  /\ \E status \in answers(thread[t].req.m) : reply(t, status, 0)
  /\ UNCHANGED <<now, seedVars, appVars, client, got, accepted>>

\* A handler that follows a pointer to a component that is gone: undefined,
\* here the end of the process, besides what handle allows.
strayPointer(t) ==
  /\ thread[t].at = "inside"
  /\ thread[t].req.m \in TlsMethods \cup KeyMethods
  /\ wired # owned
  /\ app' = "exited" /\ step' = 1 /\ alive' = {}
  /\ accepting' = FALSE
  /\ thread' = [u \in Connections |-> Free]
  /\ UNCHANGED <<now, seedVars, shutting, owned, wired, client, got, accepted>>

serve(t) ==
  dispatch(t) \/ handle_get_seed(t) \/ handle_verify_key(t)
    \/ handle_initialize(t) \/ handle(t)

-----------------------------------------------------------------------------
(***************************************************************************)
(* SecApplication                                                          *)
(***************************************************************************)
initOrder == <<"store", "prov", "service", "dispatcher", "server">>

initialize ==
  /\ app = "init"
  /\ alive' = alive \cup {initOrder[step]}
  /\ accepting' = (initOrder[step] = "server")
  /\ owned' = IF initOrder[step] = "service" THEN 1 ELSE owned
  /\ wired' = IF initOrder[step] = "dispatcher" THEN owned ELSE wired
  /\ \/ step < Len(initOrder) /\ step' = step + 1 /\ app' = "init"
     \/ step = Len(initOrder) /\ step' = 1 /\ app' = "running"
  /\ UNCHANGED <<now, seedVars, shutting, callVars>>

\* A stage fails: what was built is released and the process ends.
rollbackInitialization ==
  /\ app = "init" /\ initOrder[step] # "dispatcher"
  /\ app' = "exited" /\ step' = 1 /\ alive' = {}
  /\ shutting' = ("service" \in alive)
  /\ UNCHANGED <<now, seedVars, accepting, owned, wired, callVars>>

\* execute returns when the process is told to stop.
execute ==
  /\ app = "running"
  /\ app' = "cleanup"
  /\ UNCHANGED <<now, seedVars, step, alive, accepting, shutting, owned, wired,
                 callVars>>

\* Mutant: the dispatcher goes before the connection threads.
cleanupEarly ==
  <<"quiesce", "time", "dispatcher", "stop", "join", "service", "prov",
    "server">>

cleanupOrder ==
  <<"quiesce", "time", "stop", "join", "dispatcher", "service", "prov",
    "server">>

\* Server::stop interrupts accept and read; requests not yet read are gone.
closeConnections ==
  thread' = [t \in Connections |->
    IF thread[t].at \in {"arrived", "replied"} THEN Free ELSE thread[t]]

cleanup ==
  /\ app = "cleanup"
  /\ LET what == cleanupOrder[step] IN
     /\ shutting' = (shutting \/ what = "quiesce")
     /\ accepting' = (accepting /\ what # "stop")
     /\ IF what = "stop" THEN closeConnections ELSE UNCHANGED thread
     /\ what = "join" => \A t \in Connections : thread[t].at = "free"
     /\ alive' = alive \ {what}
  /\ \/ step < Len(cleanupOrder) /\ step' = step + 1 /\ UNCHANGED app
     \/ step = Len(cleanupOrder) /\ step' = 1 /\ app' = "exited"
  /\ UNCHANGED <<now, seedVars, owned, wired, client, got, accepted>>

-----------------------------------------------------------------------------
Init ==
  /\ SeedInit
  /\ app = "init" /\ step = 1 /\ alive = {}
  /\ accepting = FALSE /\ shutting = FALSE
  /\ owned = 0 /\ wired = 0
  /\ client = [c \in Clients |-> Idle]
  /\ thread = [t \in Connections |-> Free]
  /\ got = [c \in Clients |-> 0]
  /\ accepted = [c \in Clients |-> FALSE]

Next ==
  \/ initialize \/ rollbackInitialization \/ execute \/ cleanup
  \/ \E c \in Clients :
       \/ \E r \in requests(c) : send_request(c, r)
       \/ resend(c) \/ giveUp(c) \/ receive(c)
  \/ \E t \in Connections : serve(t) \/ strayPointer(t)

Spec == Init /\ [][Next]_vars

\* Every thread runs, a call that gets no reply times out, and SecApplication
\* goes through its cleanup.
FairSpec ==
  /\ Spec
  /\ WF_vars(cleanup)
  /\ \A t \in Connections : WF_vars(serve(t))
  /\ \A c \in Clients : WF_vars(resend(c) \/ giveUp(c) \/ receive(c))

-----------------------------------------------------------------------------
(***************************************************************************)
(* Properties                                                              *)
(***************************************************************************)
TypeOK ==
  /\ SeedTypeOK
  /\ app \in {"init", "running", "cleanup", "exited"}
  /\ step \in 1..Len(cleanupOrder)
  /\ alive \subseteq Object
  /\ accepting \in BOOLEAN /\ shutting \in BOOLEAN
  /\ owned \in 0..MaxInits /\ wired \in 0..MaxInits
  /\ client \in [Clients -> [pc : {"idle", "waiting"}, req : Request,
                             slot : Nat, tries : 1..2]]
  /\ \A c \in Clients : client[c].slot \in 1..Slots[c]
  /\ thread \in [Connections -> Thread]
  /\ got \in [Clients -> 0..MaxSeeds]
  /\ accepted \in [Clients -> BOOLEAN]

\* A client that is about to be told its key was refused was indeed refused:
\* no copy of the same call, sent again after a transport failure, was
\* accepted before and has used up the seed.
NoFalseRefusal ==
  \A c \in Clients :
    LET t == thread[<<c, client[c].slot>>] IN
    client[c].pc = "waiting" /\ t.at = "replied"
      /\ t.status = "KEY_VERIFICATION_FAILED" => ~accepted[c]

\* While a connection thread is inside a handler, the dispatcher and the
\* service it uses exist: cleanup joins the threads before it destroys either.
NoUseAfterRelease ==
  (\E t \in Connections : thread[t].at = "inside")
    => {"service", "dispatcher"} \subseteq alive

-----------------------------------------------------------------------------
(***************************************************************************)
(* The inductive invariant behind the safety properties                    *)
(***************************************************************************)

\* Requests are read only while the server runs; connection threads are alive
\* until cleanup has joined them; nothing is released before.
LifeInv ==
  /\ accepting => app = "running" \/ (app = "cleanup" /\ step <= 3)
  /\ (\E t \in Connections : thread[t].at # "free")
       => app = "running" \/ (app = "cleanup" /\ step <= 4)
  /\ app = "init" => step <= 5 /\ alive = {initOrder[i] : i \in 1..(step - 1)}
  /\ app = "running" => step = 1
  /\ app = "running" \/ (app = "cleanup" /\ step <= 5) => alive = Object

\* The copies of a call that is under way carry its request; VERIFY_KEY has one
\* copy only, and its key is not accepted before that one is answered.
CopyInv ==
  \A c \in Clients : client[c].pc = "waiting" =>
    /\ client[c].req.m = "VERIFY_KEY" => client[c].tries = 1
    /\ accepted[c] => /\ client[c].req.m = "VERIFY_KEY"
                      /\ thread[<<c, client[c].slot>>].at \in {"free", "replied"}
    /\ \A s \in 1..Slots[c] : thread[<<c, s>>].current =>
         /\ thread[<<c, s>>].at \in {"arrived", "inside"} => thread[<<c, s>>].req = client[c].req
         /\ client[c].tries = 1 => s = client[c].slot

\* What every step of clients, threads and application preserves.
IpcInv ==
  /\ TypeOK /\ SeedInv
  /\ LifeInv /\ CopyInv
  /\ NoFalseRefusal

-----------------------------------------------------------------------------
(***************************************************************************)
(* Liveness, and what the dispatcher is expected to use                    *)
(***************************************************************************)

\* Every call returns to its caller, whatever the transport and the server do.
CallsReturn ==
  \A c \in Clients : client[c].pc = "waiting" ~> client[c] = Idle

\* A cleanup that has begun ends, with clients calling all the time.
ShutdownCompletes == app = "cleanup" ~> app = "exited"

\* The components a thread reaches through the dispatcher are those the
\* service owns.
DispatcherUsesOwned ==
  \A t \in Connections :
    thread[t].at = "inside" /\ thread[t].req.m \in TlsMethods \cup KeyMethods
      => wired = owned

=============================================================================
