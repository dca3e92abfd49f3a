----------------------------- MODULE SecIpcProofs -----------------------------
(***************************************************************************)
(* Proofs about SecIpc, for every set of clients, whatever they ask and    *)
(* however many connections they keep: IpcInv is inductive, no handler     *)
(* runs on released objects, and no retry turns an accepted key into a     *)
(* refusal.                                                                *)
(***************************************************************************)
EXTENDS SecIpc, SeedKeyProofs

USE SecIpcAssumption

ClientState == [pc : {"idle", "waiting"}, req : Request, slot : Nat, tries : 1..2]

\* A connection is a client and one of its slots.
LEMMA ConnectionParts ==
  /\ \A c \in Clients : \A s \in 1..Slots[c] : <<c, s>> \in Connections
  /\ \A t \in Connections : t[1] \in Clients /\ t[2] \in 1..Slots[t[1]] /\ t = <<t[1], t[2]>>
BY DEF Connections

\* The values clients and threads start with.
LEMMA IpcShapes ==
  /\ NoRequest \in Request
  /\ Idle \in ClientState /\ Idle.pc = "idle" /\ Idle.slot = 1
  /\ Free \in Thread /\ Free.at = "free" /\ ~Free.current
<1>1. NoRequest \in Request
  BY SeedKeyAssumption DEF NoRequest, Request, MethodId, ServiceMethods
<1>2. Idle \in ClientState /\ Idle.pc = "idle" /\ Idle.slot = 1
  BY <1>1 DEF Idle, ClientState
<1>3. "DONE" \in Status /\ 0 \in 0..MaxSeeds
  BY SeedKeyAssumption DEF Status
<1>4. Free \in Thread
  BY <1>1, <1>3 DEF Free, Thread
<1>5. Free.at = "free" /\ ~Free.current
  BY DEF Free
<1> QED
  BY <1>1, <1>2, <1>4, <1>5

\* Before initialize the invariant holds.
LEMMA InitIpcInv == Init => IpcInv
<1> SUFFICES ASSUME Init PROVE IpcInv
  OBVIOUS
<1>1. SeedInv
  BY InitSeedInv DEF Init
<1>2. /\ app = "init" /\ step = 1 /\ alive = {} /\ ~accepting /\ ~shutting
      /\ accepting \in BOOLEAN /\ shutting \in BOOLEAN
      /\ owned = 0 /\ wired = 0
      /\ client = [c \in Clients |-> Idle] /\ thread = [t \in Connections |-> Free]
      /\ got = [c \in Clients |-> 0] /\ accepted = [c \in Clients |-> FALSE]
  BY Zenon DEF Init
<1>3. TypeOK
  <2>1. /\ client \in [Clients -> ClientState]
        /\ \A c \in Clients : client[c].slot \in 1..Slots[c]
    BY <1>2, IpcShapes
  <2>2. thread \in [Connections -> Thread]
    BY <1>2, IpcShapes
  <2>3. got \in [Clients -> 0..MaxSeeds] /\ accepted \in [Clients -> BOOLEAN]
    BY <1>2, SeedKeyAssumption
  <2>4. step \in 1..Len(cleanupOrder)
    BY <1>2 DEF cleanupOrder
  <2> QED
    BY <1>1, <1>2, <2>1, <2>2, <2>3, <2>4 DEF TypeOK, SeedInv, ClientState
<1>4. LifeInv
  BY <1>2, IpcShapes DEF LifeInv, initOrder
<1>5. CopyInv /\ NoFalseRefusal
  BY <1>2, IpcShapes DEF CopyInv, NoFalseRefusal
<1> QED
  BY <1>1, <1>3, <1>4, <1>5 DEF IpcInv

\* A connection thread takes one step with its request: it goes on, replies, or
\* finds its client gone.
LEMMA ServedKeeps ==
  ASSUME IpcInv, NEW t \in Connections, thread[t].at \in {"arrived", "inside"},
         thread' \in [Connections -> Thread],
         \A u \in Connections \ {t} : thread'[u] = thread[u],
         thread'[t].current => thread[t].current,
         thread'[t].at \in {"arrived", "inside"} => thread'[t].req = thread[t].req,
         SeedInv',
         UNCHANGED <<app, step, alive, accepting, shutting, wired, client, got>>,
         owned' \in 0..MaxInits,
         accepted' \in [Clients -> BOOLEAN],
         \A c \in Clients : accepted'[c] /\ ~accepted[c] =>
           /\ c = t[1] /\ thread[t].current /\ thread[t].req.m = "VERIFY_KEY"
           /\ thread'[t].at \in {"free", "replied"}
           /\ thread'[t].at = "replied" => thread'[t].status = "SUCCESS"
  PROVE  IpcInv'
<1> USE DEF IpcInv
<1>1. TypeOK'
  BY DEF TypeOK, SeedInv
<1>2. LifeInv'
  BY DEF LifeInv
<1>3. ASSUME NEW c \in Clients, client[c].pc = "waiting"
      PROVE  /\ client[c].req.m = "VERIFY_KEY" => client[c].tries = 1
             /\ accepted'[c] => /\ client[c].req.m = "VERIFY_KEY"
                                /\ thread'[<<c, client[c].slot>>].at \in {"free", "replied"}
             /\ \A s \in 1..Slots[c] : thread'[<<c, s>>].current =>
                  /\ thread'[<<c, s>>].at \in {"arrived", "inside"}
                       => thread'[<<c, s>>].req = client[c].req
                  /\ client[c].tries = 1 => s = client[c].slot
             /\ thread'[<<c, client[c].slot>>].at = "replied"
                  /\ thread'[<<c, client[c].slot>>].status = "KEY_VERIFICATION_FAILED"
                    => ~accepted'[c]
  <2>1. client[c].slot \in 1..Slots[c] /\ <<c, client[c].slot>> \in Connections
    BY ConnectionParts DEF TypeOK
  <2>2. \A s \in 1..Slots[c] : <<c, s>> \in Connections
    BY ConnectionParts
  <2>3. t = <<t[1], t[2]>> /\ t[1] \in Clients /\ t[2] \in 1..Slots[t[1]]
    BY ConnectionParts
  <2>4. /\ client[c].req.m = "VERIFY_KEY" => client[c].tries = 1
        /\ accepted[c] => /\ client[c].req.m = "VERIFY_KEY"
                          /\ thread[<<c, client[c].slot>>].at \in {"free", "replied"}
        /\ \A s \in 1..Slots[c] : thread[<<c, s>>].current =>
             /\ thread[<<c, s>>].at \in {"arrived", "inside"} => thread[<<c, s>>].req = client[c].req
             /\ client[c].tries = 1 => s = client[c].slot
    BY <1>3 DEF CopyInv
  <2>5. \A s \in 1..Slots[c] : thread'[<<c, s>>].current =>
          /\ thread[<<c, s>>].current
          /\ thread'[<<c, s>>].at \in {"arrived", "inside"} =>
               /\ thread[<<c, s>>].at \in {"arrived", "inside"}
               /\ thread'[<<c, s>>].req = thread[<<c, s>>].req
    BY <2>2
  <2>6. ASSUME accepted'[c], ~accepted[c]
        PROVE  /\ t = <<c, client[c].slot>> /\ client[c].req.m = "VERIFY_KEY"
               /\ thread'[t].at \in {"free", "replied"}
               /\ thread'[t].at = "replied" => thread'[t].status = "SUCCESS"
    <3>1. t[1] = c /\ thread[t].current /\ thread[t].req.m = "VERIFY_KEY"
      BY <2>6
    <3>2. thread[t].req = client[c].req /\ (client[c].tries = 1 => t[2] = client[c].slot)
      BY <2>3, <2>4, <3>1
    <3> QED
      BY <2>3, <2>4, <2>6, <3>1, <3>2
  <2>7. ASSUME accepted[c]
        PROVE  /\ thread'[<<c, client[c].slot>>] = thread[<<c, client[c].slot>>]
               /\ thread'[<<c, client[c].slot>>].status # "KEY_VERIFICATION_FAILED"
                    \/ thread'[<<c, client[c].slot>>].at # "replied"
    BY <1>3, <2>1, <2>4, <2>7 DEF NoFalseRefusal
  <2>8. CASE accepted'[c] /\ ~accepted[c]
    BY <2>4, <2>5, <2>6, <2>8
  <2>9. CASE accepted[c]
    BY <2>4, <2>5, <2>7, <2>9
  <2>10. CASE ~accepted'[c]
    BY <2>4, <2>5, <2>10
  <2> QED
    BY <2>8, <2>9, <2>10
<1>4. CopyInv'
  BY <1>3 DEF CopyInv
<1>5. NoFalseRefusal'
  BY <1>3 DEF NoFalseRefusal
<1> QED
  BY <1>1, <1>2, <1>4, <1>5

\* A reply reaches the client that waits for it, or the thread just ends.
LEMMA ReplyMoves ==
  ASSUME TypeOK, NEW t \in Connections, NEW status \in Status, NEW id \in 0..MaxSeeds,
         reply(t, status, id)
  PROVE  /\ thread' \in [Connections -> Thread]
         /\ \A u \in Connections \ {t} : thread'[u] = thread[u]
         /\ thread'[t].current => thread[t].current
         /\ thread'[t].at \in {"free", "replied"}
         /\ thread'[t].at = "replied" => thread'[t].status = status
<1> DEFINE r == [thread[t] EXCEPT !.at = "replied", !.req = NoRequest,
                                  !.status = status, !.id = id]
<1>1. thread \in [Connections -> Thread] /\ thread[t] \in Thread
  BY DEF TypeOK
<1>2. /\ r \in Thread /\ r.at = "replied" /\ r.status = status
      /\ r.current = thread[t].current
  BY <1>1, IpcShapes DEF Thread
<1> HIDE DEF r
<1>3. thread' = [thread EXCEPT ![t] = r] \/ thread' = [thread EXCEPT ![t] = Free]
  BY DEF reply, r
<1>4. CASE thread' = [thread EXCEPT ![t] = r]
  BY <1>1, <1>2, <1>4
<1>5. CASE thread' = [thread EXCEPT ![t] = Free]
  BY <1>1, <1>5, IpcShapes
<1> QED
  BY <1>3, <1>4, <1>5

\* What the early returns of a handler answer.
LEMMA RefusalStatus ==
  ASSUME NEW c \in Clients, NEW m \in MethodId, refusal(c, m) # "none"
  PROVE  refusal(c, m) \in Status
BY DEF refusal, refuse_service, refuse_tls, refuse_keys, refuse_kl1, refuse_time,
       withACL, unlessShutting, Status, MethodId, KeyMethods

\* dispatch reads the request and refuses it or enters the handler.
LEMMA DispatchStep ==
  ASSUME IpcInv, NEW t \in Connections, dispatch(t)
  PROVE  IpcInv'
<1>1. /\ thread[t].at = "arrived"
      /\ UNCHANGED <<now, seedVars, app, step, alive, accepting, shutting, owned, wired>>
      /\ UNCHANGED <<client, got, accepted>>
  BY DEF dispatch, appVars
<1>2. TypeOK /\ thread \in [Connections -> Thread] /\ thread[t] \in Thread
  BY DEF IpcInv, TypeOK
<1>3. SeedInv'
  BY <1>1 DEF IpcInv, seedVars, SeedInv, SeedTypeOK, OneJudgementPerSeed,
              SeedBudgetInv, LockoutInv
<1>4. owned' \in 0..MaxInits /\ accepted' \in [Clients -> BOOLEAN]
  BY <1>1, <1>2 DEF TypeOK
<1> DEFINE r == refusal(t[1], thread[t].req.m)
<1>5. CASE r # "none" /\ reply(t, r, 0)
  <2>1. t[1] \in Clients /\ thread[t].req.m \in MethodId
    BY <1>2, ConnectionParts DEF Thread, Request
  <2>2. r \in Status
    BY <1>5, <2>1, RefusalStatus
  <2>3. 0 \in 0..MaxSeeds
    BY SeedKeyAssumption
  <2> HIDE DEF r
  <2> QED
    BY <1>1, <1>2, <1>3, <1>4, <1>5, <2>2, <2>3, ReplyMoves, ServedKeeps
<1>6. CASE thread' = [thread EXCEPT ![t].at = "inside"]
  <2>1. /\ thread' \in [Connections -> Thread]
        /\ \A u \in Connections \ {t} : thread'[u] = thread[u]
        /\ thread'[t].current = thread[t].current
        /\ thread'[t].at = "inside" /\ thread'[t].req = thread[t].req
    BY <1>2, <1>6 DEF Thread
  <2> QED
    BY <1>1, <1>3, <1>4, <2>1, ServedKeeps
<1> QED
  BY <1>5, <1>6 DEF dispatch

\* GET_SEED runs get_seed and replies.
LEMMA HandleGetSeedStep ==
  ASSUME IpcInv, NEW t \in Connections, handle_get_seed(t)
  PROVE  IpcInv'
<1>1. PICK status \in SeedStatus, id \in 0..MaxSeeds :
        get_seed(thread[t].req.level, status, id) /\ reply(t, status, id)
  BY DEF handle_get_seed
<1>2. /\ thread[t].at = "inside" /\ UNCHANGED now
      /\ UNCHANGED <<app, step, alive, accepting, shutting, owned, wired>>
      /\ UNCHANGED <<client, got, accepted>>
  BY DEF handle_get_seed, appVars
<1>3. /\ TypeOK /\ SeedInv /\ thread[t] \in Thread /\ status \in Status
      /\ owned' \in 0..MaxInits /\ accepted' \in [Clients -> BOOLEAN]
  BY <1>1, <1>2 DEF IpcInv, TypeOK, Status
<1>4. thread[t].req.level \in Levels \cup {0}
  BY <1>3 DEF Thread, Request
<1>5. SeedInv'
  BY <1>1, <1>2, <1>3, <1>4, GetSeedStep
<1> QED
  BY <1>1, <1>2, <1>3, <1>5, ReplyMoves, ServedKeeps

\* VERIFY_KEY runs verify_key and replies; an accepted key is noted for the call
\* it belongs to.
LEMMA HandleVerifyKeyStep ==
  ASSUME IpcInv, NEW t \in Connections, handle_verify_key(t)
  PROVE  IpcInv'
<1>1. PICK status \in SeedStatus :
        /\ verify_key(thread[t].req.level, thread[t].req.key, status)
        /\ reply(t, status, 0)
        /\ accepted' = [accepted EXCEPT ![t[1]] =
             @ \/ (thread[t].current /\ status = "SUCCESS")]
  BY DEF handle_verify_key
<1>2. /\ thread[t].at = "inside" /\ thread[t].req.m = "VERIFY_KEY" /\ UNCHANGED now
      /\ UNCHANGED <<app, step, alive, accepting, shutting, owned, wired>>
      /\ UNCHANGED <<client, got>>
  BY DEF handle_verify_key, appVars
<1>3. /\ TypeOK /\ SeedInv /\ thread[t] \in Thread /\ status \in Status
      /\ owned' \in 0..MaxInits /\ accepted \in [Clients -> BOOLEAN]
      /\ 0 \in 0..MaxSeeds /\ thread[t].current \in BOOLEAN
  BY <1>1, <1>2, SeedKeyAssumption DEF IpcInv, TypeOK, Status, Thread
<1>4. thread[t].req.level \in Levels \cup {0} /\ thread[t].req.key \in 0..MaxSeeds
  BY <1>3 DEF Thread, Request
<1>5. SeedInv'
  BY <1>1, <1>2, <1>3, <1>4, VerifyKeyStep
<1>6. /\ accepted' \in [Clients -> BOOLEAN]
      /\ \A c \in Clients : accepted'[c] /\ ~accepted[c] =>
           c = t[1] /\ thread[t].current /\ status = "SUCCESS"
  BY <1>1, <1>3, ConnectionParts, Zenon
<1> QED
  BY <1>1, <1>2, <1>3, <1>5, <1>6, ReplyMoves, ServedKeeps

\* INITIALIZE gives the service new components, or fails.
LEMMA HandleInitializeStep ==
  ASSUME IpcInv, NEW t \in Connections, handle_initialize(t)
  PROVE  IpcInv'
<1>1. /\ thread[t].at = "inside"
      /\ UNCHANGED <<now, seedVars, app, step, alive, accepting, shutting, wired>>
      /\ UNCHANGED <<client, got, accepted>>
      /\ owned' = owned \/ (owned < MaxInits /\ owned' = owned + 1)
      /\ \E status \in {"SUCCESS", "HANDLER_FAILED"} : reply(t, status, 0)
  BY DEF handle_initialize
<1>11. PICK status \in {"SUCCESS", "HANDLER_FAILED"} : reply(t, status, 0)
  BY <1>1
<1>2. /\ TypeOK /\ SeedInv /\ status \in Status /\ 0 \in 0..MaxSeeds
      /\ accepted' \in [Clients -> BOOLEAN] /\ owned \in 0..MaxInits
  BY <1>1, SeedKeyAssumption DEF IpcInv, TypeOK, Status, SeedStatus
<1>3. SeedInv'
  BY <1>1 DEF IpcInv, seedVars, SeedInv, SeedTypeOK, OneJudgementPerSeed,
              SeedBudgetInv, LockoutInv
<1>4. owned' \in 0..MaxInits
  BY <1>1, <1>2
<1> QED
  BY <1>1, <1>11, <1>2, <1>3, <1>4, ReplyMoves, ServedKeeps

\* Any other handler replies.
LEMMA HandleStep ==
  ASSUME IpcInv, NEW t \in Connections, handle(t)
  PROVE  IpcInv'
<1>0. answers(thread[t].req.m) \subseteq Answer
  BY DEF answers, answer_service, answer_tls, answer_keys, answer_kl1, answer_time, Answer
<1>1. PICK status \in Answer :
        /\ thread[t].at = "inside" /\ reply(t, status, 0)
        /\ UNCHANGED <<now, seedVars, app, step, alive, accepting, shutting, owned, wired>>
        /\ UNCHANGED <<client, got, accepted>>
  BY <1>0 DEF handle, appVars
<1>2. /\ TypeOK /\ SeedInv /\ status \in Status /\ 0 \in 0..MaxSeeds
      /\ accepted' \in [Clients -> BOOLEAN] /\ owned' \in 0..MaxInits
  BY <1>1, SeedKeyAssumption DEF IpcInv, TypeOK, Status, Answer
<1>3. SeedInv'
  BY <1>1 DEF IpcInv, seedVars, SeedInv, SeedTypeOK, OneJudgementPerSeed,
              SeedBudgetInv, LockoutInv
<1> QED
  BY <1>1, <1>2, <1>3, ReplyMoves, ServedKeeps

\* What a client may send is a request.
LEMMA RequestsTyped ==
  ASSUME TypeOK, NEW c \in Clients, NEW r \in requests(c)
  PROVE  r \in Request
<1>1. PICK a \in Asks[c], k \in {0, got[c]} : r = [m |-> a.m, level |-> a.level, key |-> k]
  BY DEF requests
<1>2. a \in [m : MethodId, level : Levels \cup {0}] /\ k \in 0..MaxSeeds
  BY <1>1, SeedKeyAssumption DEF TypeOK
<1> QED
  BY <1>1, <1>2 DEF Request

\* A new call: its copy is the only current one of the client.
LEMMA SendStep ==
  ASSUME IpcInv, NEW c \in Clients, NEW r \in requests(c), send_request(c, r)
  PROVE  IpcInv'
<1>1. PICK s \in 1..Slots[c] :
        /\ thread[<<c, s>>].at = "free"
        /\ place(c, s, r)
        /\ client' = [client EXCEPT ![c] =
             [pc |-> "waiting", req |-> r, slot |-> s, tries |-> 1]]
  BY DEF send_request
<1>2. /\ accepting
      /\ accepted' = [accepted EXCEPT ![c] = FALSE]
      /\ UNCHANGED <<now, seedVars, app, step, alive, accepting, shutting, owned, wired, got>>
  BY DEF send_request, appVars
<1>3. TypeOK /\ r \in Request /\ thread \in [Connections -> Thread] /\ <<c, s>> \in Connections
  BY RequestsTyped, ConnectionParts DEF IpcInv, TypeOK
<1> DEFINE n == [at |-> "arrived", req |-> r, status |-> "DONE", id |-> 0, current |-> TRUE]
<1>4. n \in Thread /\ n.at = "arrived" /\ n.req = r /\ n.current
  BY <1>3, SeedKeyAssumption DEF Thread, Status
<1> HIDE DEF n
<1>5. /\ thread' \in [Connections -> Thread]
      /\ thread'[<<c, s>>] = n
      /\ \A u \in Connections : u[1] # c => thread'[u] = thread[u]
      /\ \A u \in Connections : u[1] = c /\ u # <<c, s>> => ~thread'[u].current
  <2>1. \A u \in Connections : /\ [thread[u] EXCEPT !.current = FALSE] \in Thread
                               /\ ~[thread[u] EXCEPT !.current = FALSE].current
    BY <1>3 DEF Thread
  <2>2. thread' = [t \in Connections |->
           IF t = <<c, s>> THEN n
           ELSE IF t[1] = c THEN [thread[t] EXCEPT !.current = FALSE] ELSE thread[t]]
    BY <1>1 DEF place, n
  <2> QED
    BY <1>3, <1>4, <2>1, <2>2
<1>6. SeedInv'
  BY <1>2 DEF IpcInv, seedVars, SeedInv, SeedTypeOK, OneJudgementPerSeed,
              SeedBudgetInv, LockoutInv
<1>7. /\ client' \in [Clients -> ClientState] /\ client'[c].slot = s /\ client'[c].req = r
      /\ client'[c].tries = 1
      /\ \A d \in Clients \ {c} : client'[d] = client[d]
  BY <1>1, <1>3 DEF TypeOK, ClientState
<1>8. /\ accepted' \in [Clients -> BOOLEAN] /\ ~accepted'[c]
      /\ \A d \in Clients \ {c} : accepted'[d] = accepted[d]
  BY <1>2, <1>3 DEF TypeOK
<1>9. TypeOK'
  BY <1>2, <1>3, <1>5, <1>6, <1>7, <1>8 DEF TypeOK, SeedInv, ClientState
<1>10. LifeInv'
  <2>1. step \in Nat
    BY <1>3 DEF TypeOK, cleanupOrder
  <2> QED
    BY <1>2, <2>1 DEF IpcInv, LifeInv
<1>11. ASSUME NEW d \in Clients, client'[d].pc = "waiting"
       PROVE  /\ client'[d].req.m = "VERIFY_KEY" => client'[d].tries = 1
              /\ accepted'[d] => /\ client'[d].req.m = "VERIFY_KEY"
                                 /\ thread'[<<d, client'[d].slot>>].at \in {"free", "replied"}
              /\ \A v \in 1..Slots[d] : thread'[<<d, v>>].current =>
                   /\ thread'[<<d, v>>].at \in {"arrived", "inside"}
                        => thread'[<<d, v>>].req = client'[d].req
                   /\ client'[d].tries = 1 => v = client'[d].slot
              /\ thread'[<<d, client'[d].slot>>].at = "replied"
                   /\ thread'[<<d, client'[d].slot>>].status = "KEY_VERIFICATION_FAILED"
                     => ~accepted'[d]
  <2>1. CASE d = c
    BY <1>4, <1>5, <1>7, <1>8, <2>1, ConnectionParts
  <2>2. CASE d # c
    <3>1. client'[d] = client[d] /\ accepted'[d] = accepted[d]
      BY <1>7, <1>8, <2>2
    <3>2. client[d].slot \in 1..Slots[d]
      BY <1>3 DEF TypeOK
    <3>3. \A v \in 1..Slots[d] : thread'[<<d, v>>] = thread[<<d, v>>]
      BY <1>5, <2>2, ConnectionParts
    <3> QED
      BY <1>11, <3>1, <3>2, <3>3 DEF IpcInv, CopyInv, NoFalseRefusal
  <2> QED
    BY <2>1, <2>2
<1>12. CopyInv'
  BY <1>11 DEF CopyInv
<1>13. NoFalseRefusal'
  BY <1>11 DEF NoFalseRefusal
<1> QED
  BY <1>6, <1>9, <1>10, <1>12, <1>13 DEF IpcInv

\* A broken connection loses what the server has not read and what it has
\* answered; a thread inside a handler goes on.
LEMMA AbandonedThreads ==
  ASSUME TypeOK, NEW c \in Clients
  PROVE  /\ abandoned(c) \in [Connections -> Thread]
         /\ \A u \in Connections : abandoned(c)[u] \in {thread[u], Free}
         /\ \A u \in Connections : u # <<c, client[c].slot>> => abandoned(c)[u] = thread[u]
<1>1. thread \in [Connections -> Thread] /\ <<c, client[c].slot>> \in Connections
  BY ConnectionParts DEF TypeOK
<1>2. \/ abandoned(c) = thread
      \/ abandoned(c) = [thread EXCEPT ![<<c, client[c].slot>>] = Free]
  BY DEF abandoned
<1> QED
  BY <1>1, <1>2, IpcShapes

\* The call is sent once more: it is none that must not be repeated.
LEMMA ResendStep ==
  ASSUME IpcInv, NEW c \in Clients, resend(c)
  PROVE  IpcInv'
<1> DEFINE A == abandoned(c)
           n == [at |-> "arrived", req |-> client[c].req, status |-> "DONE",
                 id |-> 0, current |-> TRUE]
<1>1. PICK s \in 1..Slots[c] :
        /\ thread' = [A EXCEPT ![<<c, s>>] = n]
        /\ client' = [client EXCEPT ![c].slot = s, ![c].tries = @ + 1]
  BY DEF resend
<1>2. /\ accepting /\ client[c].pc = "waiting"
      /\ should_retry(client[c].req.m) /\ client[c].tries = 1
      /\ UNCHANGED <<now, seedVars, app, step, alive, accepting, shutting, owned, wired>>
      /\ UNCHANGED <<got, accepted>>
  BY DEF resend, mayResend, appVars
<1>3. /\ TypeOK /\ client \in [Clients -> ClientState] /\ client[c] \in ClientState
      /\ <<c, s>> \in Connections
  BY ConnectionParts DEF IpcInv, TypeOK, ClientState
<1>4. n \in Thread /\ n.at = "arrived" /\ n.req = client[c].req
  BY <1>3, SeedKeyAssumption DEF Thread, Status, ClientState
<1>5. /\ A \in [Connections -> Thread]
      /\ \A u \in Connections : A[u] \in {thread[u], Free}
      /\ \A u \in Connections : u # <<c, client[c].slot>> => A[u] = thread[u]
  BY <1>3, AbandonedThreads
<1> HIDE DEF A, n
<1>6. /\ thread' \in [Connections -> Thread]
      /\ thread'[<<c, s>>] = n
      /\ \A u \in Connections : u[1] # c => thread'[u] = thread[u]
      /\ \A u \in Connections : u # <<c, s>> => thread'[u] \in {thread[u], Free}
  <2>1. \A u \in Connections : u # <<c, s>> => thread'[u] = A[u]
    BY <1>1, <1>5
  <2> QED
    BY <1>1, <1>3, <1>4, <1>5, <2>1
<1>7. /\ client' \in [Clients -> ClientState] /\ client'[c].slot = s
      /\ client'[c].req = client[c].req /\ client'[c].tries = 2
      /\ \A d \in Clients \ {c} : client'[d] = client[d]
  <2>1. client' = [client EXCEPT ![c] = [client[c] EXCEPT !.slot = s, !.tries = 2]]
    BY <1>1, <1>2, <1>3 DEF ClientState
  <2>2. [client[c] EXCEPT !.slot = s, !.tries = 2] \in ClientState
    <3>1. s \in Nat /\ 2 \in 1..2
      OBVIOUS
    <3> QED
      BY <1>3, <3>1 DEF ClientState
  <2> QED
    BY <1>3, <2>1, <2>2 DEF ClientState
<1>8. SeedInv'
  BY <1>2 DEF IpcInv, seedVars, SeedInv, SeedTypeOK, OneJudgementPerSeed,
              SeedBudgetInv, LockoutInv
<1>9. TypeOK'
  BY <1>2, <1>3, <1>6, <1>7, <1>8 DEF TypeOK, SeedInv, ClientState
<1>10. LifeInv'
  <2>1. step \in Nat
    BY <1>3 DEF TypeOK, cleanupOrder
  <2> QED
    BY <1>2, <2>1 DEF IpcInv, LifeInv
<1>11. client[c].req.m # "VERIFY_KEY" /\ ~accepted[c]
  BY <1>2 DEF should_retry, ReadOnly, BusinessIdempotent, IpcInv, CopyInv
<1>12. ASSUME NEW d \in Clients, client'[d].pc = "waiting"
       PROVE  /\ client'[d].req.m = "VERIFY_KEY" => client'[d].tries = 1
              /\ accepted'[d] => /\ client'[d].req.m = "VERIFY_KEY"
                                 /\ thread'[<<d, client'[d].slot>>].at \in {"free", "replied"}
              /\ \A v \in 1..Slots[d] : thread'[<<d, v>>].current =>
                   /\ thread'[<<d, v>>].at \in {"arrived", "inside"}
                        => thread'[<<d, v>>].req = client'[d].req
                   /\ client'[d].tries = 1 => v = client'[d].slot
              /\ thread'[<<d, client'[d].slot>>].at = "replied"
                   /\ thread'[<<d, client'[d].slot>>].status = "KEY_VERIFICATION_FAILED"
                     => ~accepted'[d]
  <2>1. CASE d = c
    <3>1. \A v \in 1..Slots[c] : thread'[<<c, v>>].current /\ v # s =>
             thread[<<c, v>>].current /\ thread'[<<c, v>>] = thread[<<c, v>>]
      BY <1>6, IpcShapes, ConnectionParts
    <3>2. \A v \in 1..Slots[c] :
             thread[<<c, v>>].current /\ thread[<<c, v>>].at \in {"arrived", "inside"}
               => thread[<<c, v>>].req = client[c].req
      BY <1>2 DEF IpcInv, CopyInv
    <3> QED
      BY <1>2, <1>4, <1>6, <1>7, <1>11, <2>1, <3>1, <3>2
  <2>2. CASE d # c
    <3>1. client'[d] = client[d] /\ accepted'[d] = accepted[d]
      BY <1>2, <1>7, <2>2
    <3>2. client[d].slot \in 1..Slots[d]
      BY <1>3 DEF TypeOK
    <3>3. \A v \in 1..Slots[d] : thread'[<<d, v>>] = thread[<<d, v>>]
      BY <1>6, <2>2, ConnectionParts
    <3> QED
      BY <1>12, <3>1, <3>2, <3>3 DEF IpcInv, CopyInv, NoFalseRefusal
  <2> QED
    BY <2>1, <2>2
<1>13. CopyInv'
  BY <1>12 DEF CopyInv
<1>14. NoFalseRefusal'
  BY <1>12 DEF NoFalseRefusal
<1> QED
  BY <1>8, <1>9, <1>10, <1>13, <1>14 DEF IpcInv

\* A call comes back to its caller, with a reply or without one.
LEMMA CallEnds ==
  ASSUME IpcInv, NEW c \in Clients,
         client' = [client EXCEPT ![c] = Idle],
         thread' \in [Connections -> Thread],
         \A u \in Connections : thread'[u] \in {thread[u], Free},
         \A u \in Connections : u # <<c, client[c].slot>> => thread'[u] = thread[u],
         got' \in [Clients -> 0..MaxSeeds],
         UNCHANGED <<now, seedVars, appVars, accepted>>
  PROVE  IpcInv'
<1>1. UNCHANGED <<now, seedVars, app, step, alive, accepting, shutting, owned, wired, accepted>>
  BY DEF appVars
<1>2. /\ client' \in [Clients -> ClientState] /\ client'[c] = Idle
      /\ \A d \in Clients \ {c} : client'[d] = client[d]
  BY IpcShapes DEF IpcInv, TypeOK, ClientState
<1>3. SeedInv'
  BY <1>1 DEF IpcInv, seedVars, SeedInv, SeedTypeOK, OneJudgementPerSeed,
              SeedBudgetInv, LockoutInv
<1>4. TypeOK'
  BY <1>1, <1>2, <1>3, IpcShapes DEF IpcInv, TypeOK, SeedInv, ClientState
<1>5. LifeInv'
  BY <1>1, IpcShapes DEF IpcInv, LifeInv
<1>6. \A d \in Clients : client'[d].pc = "waiting" =>
        /\ client'[d] = client[d] /\ accepted'[d] = accepted[d]
        /\ \A v \in 1..Slots[d] : thread'[<<d, v>>] = thread[<<d, v>>]
        /\ client[d].slot \in 1..Slots[d]
  BY <1>1, <1>2, IpcShapes, ConnectionParts DEF IpcInv, TypeOK
<1>7. CopyInv'
  BY <1>6 DEF IpcInv, CopyInv
<1>8. NoFalseRefusal'
  BY <1>6 DEF IpcInv, NoFalseRefusal
<1> QED
  BY <1>3, <1>4, <1>5, <1>7, <1>8 DEF IpcInv

\* A call ends without a reply.
LEMMA GiveUpStep ==
  ASSUME IpcInv, NEW c \in Clients, giveUp(c)
  PROVE  IpcInv'
<1>1. /\ thread' = abandoned(c) /\ client' = [client EXCEPT ![c] = Idle]
      /\ UNCHANGED <<now, seedVars, appVars, accepted>> /\ UNCHANGED got
  BY DEF giveUp
<1>2. TypeOK /\ got' \in [Clients -> 0..MaxSeeds]
  BY <1>1 DEF IpcInv, TypeOK
<1> QED
  BY <1>1, <1>2, AbandonedThreads, CallEnds

\* A call ends with the reply its thread has written.
LEMMA ReceiveStep ==
  ASSUME IpcInv, NEW c \in Clients, receive(c)
  PROVE  IpcInv'
<1> DEFINE t == <<c, client[c].slot>>
<1>1. /\ client' = [client EXCEPT ![c] = Idle]
      /\ got' = [got EXCEPT ![c] = IF thread[t].id # 0 THEN thread[t].id ELSE @]
      /\ thread' = [thread EXCEPT ![t] = Free]
      /\ UNCHANGED <<now, seedVars, appVars, accepted>>
  BY DEF receive
<1>2. /\ thread \in [Connections -> Thread] /\ t \in Connections
      /\ got \in [Clients -> 0..MaxSeeds]
  BY ConnectionParts DEF IpcInv, TypeOK
<1>3. thread[t].id \in 0..MaxSeeds
  BY <1>2 DEF Thread
<1> HIDE DEF t
<1>4. got' \in [Clients -> 0..MaxSeeds]
  BY <1>1, <1>2, <1>3
<1>5. /\ thread' \in [Connections -> Thread]
      /\ \A u \in Connections : thread'[u] \in {thread[u], Free}
      /\ \A u \in Connections : u # t => thread'[u] = thread[u]
  BY <1>1, <1>2, IpcShapes
<1> QED
  BY <1>1, <1>4, <1>5, CallEnds DEF t

\* A step of SecApplication: connections may be dropped, calls are not touched.
LEMMA ApplicationKeeps ==
  ASSUME IpcInv, LifeInv',
         UNCHANGED <<now, seedVars, client, got, accepted>>,
         thread' \in [Connections -> Thread],
         \A u \in Connections : thread'[u] \in {thread[u], Free},
         app' \in {"init", "running", "cleanup", "exited"},
         step' \in 1..Len(cleanupOrder), alive' \subseteq Object,
         accepting' \in BOOLEAN, shutting' \in BOOLEAN,
         owned' \in 0..MaxInits, wired' \in 0..MaxInits
  PROVE  IpcInv'
<1>1. UNCHANGED <<now, seedVars, client, got, accepted>>
  OBVIOUS
<1>2. SeedInv'
  BY <1>1 DEF IpcInv, seedVars, SeedInv, SeedTypeOK, OneJudgementPerSeed,
              SeedBudgetInv, LockoutInv
<1>3. TypeOK'
  BY <1>2 DEF IpcInv, TypeOK, SeedInv
<1>4. \A c \in Clients :
        /\ client[c].slot \in 1..Slots[c]
        /\ \A v \in 1..Slots[c] : thread'[<<c, v>>] \in {thread[<<c, v>>], Free}
  BY ConnectionParts DEF IpcInv, TypeOK
<1>5. CopyInv'
  BY SMTT(30), <1>4, IpcShapes DEF IpcInv, CopyInv
<1>6. NoFalseRefusal'
  BY <1>4, IpcShapes DEF IpcInv, NoFalseRefusal
<1> QED
  BY <1>2, <1>3, <1>5, <1>6 DEF IpcInv

\* A stage of initialize.
LEMMA InitializeStep ==
  ASSUME IpcInv, initialize
  PROVE  IpcInv'
<1>1. /\ app = "init" /\ alive' = alive \cup {initOrder[step]}
      /\ UNCHANGED <<now, seedVars, client, got, accepted>> /\ thread' = thread
      /\ shutting' = shutting
      /\ \/ step < 5 /\ step' = step + 1 /\ app' = "init"
         \/ step = 5 /\ step' = 1 /\ app' = "running"
  BY DEF initialize, callVars, initOrder
<1>2. accepting' \in BOOLEAN /\ (accepting' => initOrder[step] = "server")
  BY Zenon DEF initialize
<1>3. /\ step \in 1..5 /\ shutting' \in BOOLEAN
      /\ alive = {initOrder[i] : i \in 1..(step - 1)}
      /\ \A t \in Connections : thread[t].at = "free"
      /\ thread' \in [Connections -> Thread]
  BY <1>1 DEF IpcInv, TypeOK, LifeInv, cleanupOrder
<1>4. /\ initOrder[1] = "store" /\ initOrder[2] = "prov" /\ initOrder[3] = "service"
      /\ initOrder[4] = "dispatcher" /\ initOrder[5] = "server"
  BY DEF initOrder
<1>5. owned' \in 0..MaxInits /\ wired' \in 0..MaxInits
  BY DEF initialize, IpcInv, TypeOK
<1>6. alive' = {initOrder[i] : i \in 1..step}
  <2>1. 1..step = 1..(step - 1) \cup {step}
    BY <1>3
  <2> QED
    BY <1>1, <1>3, <2>1
<1>7. alive' \subseteq Object
  BY <1>3, <1>4, <1>6 DEF Object
<1>8. step = 5 => alive' = Object
  <2>1. SUFFICES ASSUME step = 5 PROVE alive' = Object
    OBVIOUS
  <2>2. 1..5 = {1, 2, 3, 4, 5}
    OBVIOUS
  <2>3. alive' = {initOrder[1], initOrder[2], initOrder[3], initOrder[4], initOrder[5]}
    BY <1>6, <2>1, <2>2
  <2> QED
    BY <1>4, <2>3 DEF Object
<1>9. LifeInv'
  BY <1>1, <1>2, <1>3, <1>4, <1>6, <1>8 DEF LifeInv
<1>10. step' \in 1..Len(cleanupOrder)
  BY <1>1, <1>3 DEF cleanupOrder
<1> QED
  BY <1>1, <1>2, <1>3, <1>5, <1>7, <1>9, <1>10, ApplicationKeeps

\* A failing stage ends the process before any connection exists.
LEMMA RollbackStep ==
  ASSUME IpcInv, rollbackInitialization
  PROVE  IpcInv'
<1>1. /\ app = "init" /\ app' = "exited" /\ step' = 1 /\ alive' = {}
      /\ UNCHANGED <<now, seedVars, client, got, accepted>> /\ thread' = thread
      /\ accepting' = accepting /\ owned' = owned /\ wired' = wired
  BY DEF rollbackInitialization, callVars
<1>2. shutting' \in BOOLEAN
  BY DEF rollbackInitialization
<1>3. /\ ~accepting /\ accepting' \in BOOLEAN
      /\ \A t \in Connections : thread[t].at = "free"
      /\ thread' \in [Connections -> Thread]
      /\ owned' \in 0..MaxInits /\ wired' \in 0..MaxInits
  BY <1>1 DEF IpcInv, TypeOK, LifeInv
<1>4. LifeInv'
  BY <1>1, <1>3 DEF LifeInv
<1>5. step' \in 1..Len(cleanupOrder)
  BY <1>1 DEF cleanupOrder
<1> QED
  BY <1>1, <1>2, <1>3, <1>4, <1>5, ApplicationKeeps

\* The process is told to stop.
LEMMA ExecuteStep ==
  ASSUME IpcInv, execute
  PROVE  IpcInv'
<1>1. /\ app = "running" /\ app' = "cleanup"
      /\ UNCHANGED <<now, seedVars, client, got, accepted>> /\ thread' = thread
      /\ UNCHANGED <<step, alive, accepting, shutting, owned, wired>>
  BY DEF execute, callVars
<1>2. LifeInv'
  BY <1>1 DEF IpcInv, LifeInv
<1> QED
  BY <1>1, <1>2, ApplicationKeeps DEF IpcInv, TypeOK

\* A step of cleanup: the threads are joined before anything is released.
LEMMA CleanupStep ==
  ASSUME IpcInv, cleanup
  PROVE  IpcInv'
<1>1. /\ app = "cleanup"
      /\ UNCHANGED <<now, seedVars, client, got, accepted>>
      /\ owned' = owned /\ wired' = wired
      /\ alive' = alive \ {cleanupOrder[step]}
      /\ IF cleanupOrder[step] = "stop" THEN closeConnections ELSE UNCHANGED thread
      /\ cleanupOrder[step] = "join" => \A t \in Connections : thread[t].at = "free"
      /\ \/ step < 8 /\ step' = step + 1 /\ app' = "cleanup"
         \/ step = 8 /\ step' = 1 /\ app' = "exited"
  BY DEF cleanup, cleanupOrder
<1>2. /\ shutting' \in BOOLEAN /\ accepting' \in BOOLEAN
      /\ accepting' => accepting /\ cleanupOrder[step] # "stop"
  BY Zenon DEF cleanup
<1>3. /\ cleanupOrder[1] = "quiesce" /\ cleanupOrder[2] = "time"
      /\ cleanupOrder[3] = "stop" /\ cleanupOrder[4] = "join"
  BY DEF cleanupOrder
<1>4. /\ step \in 1..8 /\ alive \subseteq Object
      /\ owned' \in 0..MaxInits /\ wired' \in 0..MaxInits
      /\ thread \in [Connections -> Thread]
  BY <1>1 DEF IpcInv, TypeOK, cleanupOrder
<1>5. /\ thread' \in [Connections -> Thread]
      /\ \A u \in Connections : thread'[u] \in {thread[u], Free}
  BY <1>1, <1>4, IpcShapes DEF closeConnections
<1>6. accepting' => step <= 2
  BY <1>1, <1>2, <1>3, <1>4 DEF IpcInv, LifeInv
<1>7. (\E t \in Connections : thread'[t].at # "free") => step <= 3
  <2>1. (\E t \in Connections : thread'[t].at # "free")
          => \E t \in Connections : thread[t].at # "free"
    BY <1>5, IpcShapes
  <2> QED
    BY <1>1, <1>3, <1>4, <2>1 DEF IpcInv, LifeInv
<1>8. app' = "cleanup" /\ step' <= 5 => alive' = Object
  <2>1. ASSUME step <= 4 PROVE alive' = Object
    <3>1. alive = Object /\ cleanupOrder[step] \notin Object
      BY <1>1, <1>3, <1>4, <2>1 DEF IpcInv, LifeInv, Object
    <3> QED
      BY <1>1, <3>1
  <2> QED
    BY <1>1, <1>4, <2>1
<1>9. LifeInv'
  BY <1>1, <1>4, <1>6, <1>7, <1>8 DEF LifeInv
<1>10. step' \in 1..Len(cleanupOrder)
  BY <1>1, <1>4 DEF cleanupOrder
<1>11. alive' \subseteq Object /\ app' \in {"init", "running", "cleanup", "exited"}
  BY <1>1, <1>4
<1> QED
  BY <1>1, <1>2, <1>4, <1>5, <1>9, <1>10, <1>11, ApplicationKeeps

\* A pointer to a component that is gone ends the process.
LEMMA StrayPointerStep ==
  ASSUME IpcInv, NEW t \in Connections, strayPointer(t)
  PROVE  IpcInv'
<1>1. /\ app' = "exited" /\ step' = 1 /\ alive' = {}
      /\ UNCHANGED <<now, seedVars, client, got, accepted>>
      /\ shutting' = shutting /\ owned' = owned /\ wired' = wired
      /\ thread' = [u \in Connections |-> Free]
  BY DEF strayPointer
<1>2. ~accepting' /\ accepting' \in BOOLEAN
  BY Zenon DEF strayPointer
<1>3. LifeInv'
  BY <1>1, <1>2, IpcShapes DEF LifeInv
<1>4. /\ shutting' \in BOOLEAN /\ owned' \in 0..MaxInits /\ wired' \in 0..MaxInits
      /\ thread' \in [Connections -> Thread]
      /\ \A u \in Connections : thread'[u] \in {thread[u], Free}
  BY <1>1, IpcShapes DEF IpcInv, TypeOK
<1>5. step' \in 1..Len(cleanupOrder) /\ alive' \subseteq Object
  BY <1>1 DEF cleanupOrder
<1> QED
  BY <1>1, <1>2, <1>3, <1>4, <1>5, ApplicationKeeps

\* Nothing happens.
LEMMA IpcStutter ==
  ASSUME IpcInv, UNCHANGED vars
  PROVE  IpcInv'
<1>1. /\ UNCHANGED <<now, seedVars, client, got, accepted>> /\ thread' = thread
      /\ UNCHANGED <<app, step, alive, accepting, shutting, owned, wired>>
  BY DEF vars, appVars, callVars
<1>2. LifeInv'
  BY <1>1 DEF IpcInv, LifeInv
<1> QED
  BY <1>1, <1>2, ApplicationKeeps DEF IpcInv, TypeOK

\* Every step of the system preserves the invariant.
LEMMA NextIpcInv == IpcInv /\ [Next]_vars => IpcInv'
<1> SUFFICES ASSUME IpcInv, [Next]_vars PROVE IpcInv'
  OBVIOUS
<1>1. CASE initialize
  BY <1>1, InitializeStep
<1>2. CASE rollbackInitialization
  BY <1>2, RollbackStep
<1>3. CASE execute
  BY <1>3, ExecuteStep
<1>4. CASE cleanup
  BY <1>4, CleanupStep
<1>5. CASE \E c \in Clients : \E r \in requests(c) : send_request(c, r)
  BY <1>5, SendStep
<1>6. CASE \E c \in Clients : resend(c)
  BY <1>6, ResendStep
<1>7. CASE \E c \in Clients : giveUp(c)
  BY <1>7, GiveUpStep
<1>8. CASE \E c \in Clients : receive(c)
  BY <1>8, ReceiveStep
<1>9. CASE \E t \in Connections : serve(t)
  BY <1>9, DispatchStep, HandleGetSeedStep, HandleVerifyKeyStep, HandleInitializeStep,
     HandleStep DEF serve
<1>10. CASE \E t \in Connections : strayPointer(t)
  BY <1>10, StrayPointerStep
<1>11. CASE UNCHANGED vars
  BY <1>11, IpcStutter
<1> QED
  BY <1>1, <1>2, <1>3, <1>4, <1>5, <1>6, <1>7, <1>8, <1>9, <1>10, <1>11 DEF Next

-----------------------------------------------------------------------------
\* The invariant holds in every state of the composed system.
THEOREM IpcInvHolds == Spec => []IpcInv
BY InitIpcInv, NextIpcInv, PTL DEF Spec

\* Types, for clients with any number of connections.
THEOREM IpcTypeCorrect == Spec => []TypeOK
<1>1. IpcInv => TypeOK
  BY DEF IpcInv
<1> QED
  BY <1>1, IpcInvHolds, PTL

\* No connection thread is inside a handler once cleanup releases the dispatcher
\* or the service.
THEOREM HandlersRunOnLiveObjects == Spec => []NoUseAfterRelease
<1>1. IpcInv => NoUseAfterRelease
  <2> SUFFICES ASSUME IpcInv, NEW t \in Connections, thread[t].at = "inside"
               PROVE  {"service", "dispatcher"} \subseteq alive
    BY DEF NoUseAfterRelease
  <2>1. app = "running" \/ (app = "cleanup" /\ step <= 4)
    BY DEF IpcInv, LifeInv
  <2>2. step \in Nat
    BY DEF IpcInv, TypeOK, cleanupOrder
  <2>3. alive = Object
    BY <2>1, <2>2 DEF IpcInv, LifeInv
  <2> QED
    BY <2>3 DEF Object
<1> QED
  BY <1>1, IpcInvHolds, PTL

\* Retries never turn an accepted key into a refusal.
THEOREM RefusalsAreTrue == Spec => []NoFalseRefusal
<1>1. IpcInv => NoFalseRefusal
  BY DEF IpcInv
<1> QED
  BY <1>1, IpcInvHolds, PTL

=============================================================================
