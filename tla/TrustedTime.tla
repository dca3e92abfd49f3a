------------------------------ MODULE TrustedTime ------------------------------
(***************************************************************************)
(* TrustedTimeMonitor over the composite time provider: it keeps the       *)
(* connection to TIME, caches the verdict, grants short leases on it,      *)
(* withdraws them when they are over and publishes every change.           *)
(*                                                                         *)
(* The monitor's thread (Loop) and an IPC thread in get (Ipc) query the    *)
(* composite while they hold the monitor's mutex.                          *)
(***************************************************************************)
EXTENDS TimeComposite

CONSTANTS
  Loop, Ipc, None,   \* the monitor's thread, the thread in get, nobody
  SeqMod,            \* bound: event sequence numbers wrap here
  RefreshInterval, ReconnectInterval

ASSUME MonitorConstants ==
  /\ Threads = {Loop, Ipc} /\ Loop # Ipc /\ None \notin Threads
  /\ SeqMod \in Nat \ {0}
  /\ {RefreshInterval, ReconnectInterval} \subseteq 0..(MaxTime - 1)

VARIABLES
  timeSub,      \* time_sub_
  stage,        \* life of the monitor: new, running, stopping, stopped
  mutex,        \* who holds the monitor's mu_
  pending,      \* refresh_pending_
  hasCached, cached, lastRefresh, lastAttempt,
  seq, hasPublished, lastPublished,
  cachedSeq,    \* the sequence number the cached verdict carries
  wired, told   \* SecApplication has subscribed; the last event it was told

cache == <<hasCached, cached, cachedSeq, lastRefresh>>
events == <<seq, hasPublished, lastPublished, told>>
vars == <<compositeVars, timeSub, stage, mutex, pending, cache, lastAttempt, events,
          wired>>

TypeOK ==
  /\ CompositeTypeOK
  /\ {timeSub, pending, hasCached, hasPublished, wired} \subseteq BOOLEAN
  /\ stage \in {"new", "running", "stopping", "stopped"}
  /\ {cached, lastPublished} \subseteq ResultType
  /\ {lastRefresh, lastAttempt} \subseteq -MaxTime..now
  /\ {seq, cachedSeq, told} \subseteq 0..(SeqMod - 1)
  /\ \A p \in Threads : call[p].at # "idle" <=> mutex = p

Init ==
  /\ CompositeInit
  /\ timeSub = FALSE /\ stage = "new" /\ mutex = None /\ pending = FALSE
  /\ hasCached = FALSE /\ cached = NoResult /\ cachedSeq = 0
  /\ lastRefresh = -RefreshInterval /\ lastAttempt = -ReconnectInterval
  /\ seq = 0 /\ hasPublished = FALSE /\ lastPublished = NoResult
  /\ wired = FALSE /\ told = 0

-----------------------------------------------------------------------------
(***************************************************************************)
(* Verdicts and events.  Of a cached verdict the model keeps reason,       *)
(* source and lease, of a published one reason and source.                 *)
(***************************************************************************)

\* publishIfChangedLocked: the subscribers are called under the mutex.  The slot
\* SecApplication was given has expired, so it is not among them.
publishIfChangedLocked(r) ==
  IF hasPublished /\ ~factChanged(lastPublished, r)
  THEN UNCHANGED events
  ELSE /\ seq' = (seq + 1) % SeqMod
       /\ lastPublished' = Result(r.reason, r.src, 0, 0, 0)
       /\ hasPublished' = TRUE
       /\ UNCHANGED told

\* Mutant: a loss of trust is stored and not published.
storeSilently(r, at) ==
  /\ cached' = [r EXCEPT !.utc = 0]
  /\ cachedSeq' = seq
  /\ lastRefresh' = at
  /\ hasCached' = TRUE
  /\ IF Trusted(cached) THEN UNCHANGED events ELSE publishIfChangedLocked(r)

\* refreshLocked and revokeLocked stamp the verdict before they publish it.
store(r, at) ==
  /\ cached' = [r EXCEPT !.utc = 0]
  /\ cachedSeq' = seq
  /\ lastRefresh' = at
  /\ hasCached' = TRUE
  /\ publishIfChangedLocked(r)

\* Mutant: the mutex is not taken.
refreshUnlocked(p, isConnected) ==
  /\ call' = [call EXCEPT ![p] = Asked(isConnected)]
  /\ UNCHANGED mutex

\* refreshLocked takes a thread through a query, under the mutex it holds.
refreshLocked(p, isConnected) ==
  /\ call' = [call EXCEPT ![p] = Asked(isConnected)]
  /\ mutex' = p

refreshStep(p) ==
  /\ queryStep(p)
  /\ UNCHANGED <<timeSub, stage, mutex, pending, cache, lastAttempt, events, wired>>

\* Mutant: the lease is counted from the end of the refresh.
refreshEnd(p) == now

\* The instant a lease is counted from: the start of the refresh, not its end.
refreshStart(p) == call[p].start

refreshed(p) ==
  /\ return(p)
  /\ store(call[p].res, refreshStart(p))
  /\ mutex' = None
  /\ UNCHANGED <<timeSub, stage, pending, lastAttempt, wired>>

revoked == [cached EXCEPT !.reason = "TimeExpired", !.lease = 0]

-----------------------------------------------------------------------------
(***************************************************************************)
(* The monitor's thread                                                    *)
(***************************************************************************)

\* The connection part of one turn of runLoop: connect and subscribe may fail.
\* due says whether refresh_pending_ is set after it.
manageConnection(due) ==
  \/ /\ ~connected /\ Elapsed(lastAttempt) >= ReconnectInterval
     /\ lastAttempt' = now
     /\ \/ timeUp /\ connected' = TRUE /\ timeSub' \in BOOLEAN /\ due
        \/ UNCHANGED <<connected, timeSub>> /\ due = pending
  \/ /\ connected /\ ~timeSub
     /\ timeSub' \in BOOLEAN
     /\ due
     /\ UNCHANGED <<connected, lastAttempt>>
  \/ /\ IF connected THEN timeSub ELSE Elapsed(lastAttempt) < ReconnectInterval
     /\ due = pending
     /\ UNCHANGED <<connected, timeSub, lastAttempt>>

RefreshDue == Elapsed(lastRefresh) >= RefreshInterval

LeaseOver == hasCached /\ Trusted(cached) /\ Elapsed(lastRefresh) >= cached.lease

\* A turn does nothing but hold the mutex for a moment.
quietTurn == UNCHANGED <<cache, events, call, mutex>>

\* Mutant: a turn without connection refreshes nothing, and none revokes.
runLoopSkipsOffline ==
  /\ stage = "running" /\ mutex = None
  /\ \E due \in BOOLEAN :
       /\ manageConnection(due)
       /\ IF connected' /\ (due \/ RefreshDue)
          THEN refreshLocked(Loop, connected') /\ UNCHANGED <<cache, events>>
          ELSE quietTurn
  /\ pending' = FALSE
  /\ UNCHANGED <<now, timeUp, good, stage, wired>>

\* One turn of runLoop: connection, then refresh, or revocation, or neither.
runLoop ==
  /\ stage = "running" /\ mutex = None
  /\ \E due \in BOOLEAN :
       /\ manageConnection(due)
       /\ IF due \/ RefreshDue
          THEN refreshLocked(Loop, connected') /\ UNCHANGED <<cache, events>>
          ELSE IF LeaseOver
          THEN store(revoked, now) /\ UNCHANGED <<call, mutex>>
          ELSE quietTurn
  /\ pending' = FALSE
  /\ UNCHANGED <<now, timeUp, good, stage, wired>>

\* TIME reports a change and refresh_now notes it.
refresh_now ==
  /\ connected /\ timeSub /\ mutex = None /\ ~pending
  /\ pending' = TRUE
  /\ UNCHANGED <<compositeVars, timeSub, stage, mutex, cache, lastAttempt, events, wired>>

-----------------------------------------------------------------------------
(***************************************************************************)
(* Calls from other threads                                                *)
(***************************************************************************)

\* get(0) without a cached verdict refreshes first, whether the monitor runs or
\* not.  With one it only reads, and answers what Answer says.  The IPC server
\* starts after the events are wired.
get ==
  /\ wired /\ ~hasCached /\ mutex = None
  /\ refreshLocked(Ipc, connected)
  /\ UNCHANGED <<now, timeUp, connected, good, timeSub, stage, pending, cache,
                 lastAttempt, events, wired>>

\* What get answers from the cache: the lease less the time since the refresh.
Answer ==
  LET left == cached.lease - Elapsed(lastRefresh) IN
  IF ~Trusted(cached) THEN cached
  ELSE IF left > 0 THEN [cached EXCEPT !.lease = left] ELSE revoked

\* SecApplication subscribes and drops the handle it gets: the slot is gone when
\* the statement ends.
wireEvents ==
  /\ stage = "new" /\ ~wired
  /\ wired' = TRUE
  /\ UNCHANGED <<compositeVars, timeSub, stage, mutex, pending, cache, lastAttempt,
                 events>>

start ==
  /\ stage = "new" /\ wired /\ mutex = None
  /\ stage' = "running"
  /\ UNCHANGED <<compositeVars, timeSub, mutex, pending, cache, lastAttempt, events,
                 wired>>

\* stop() up to its join: the cache is dropped, the loop finds running_ false.
stop ==
  /\ stage = "running" /\ mutex = None
  /\ stage' = "stopping"
  /\ hasCached' = FALSE /\ cached' = NoResult
  /\ timeSub' = FALSE
  /\ UNCHANGED <<compositeVars, mutex, pending, cachedSeq, lastRefresh, lastAttempt,
                 events, wired>>

\* The loop's thread is joined and the client closed.
disconnect ==
  /\ stage = "stopping" /\ mutex # Loop
  /\ stage' = "stopped"
  /\ connected' = FALSE
  /\ UNCHANGED <<now, timeUp, good, call, timeSub, mutex, pending, cache, lastAttempt,
                 events, wired>>

environment ==
  /\ tick \/ linkLost
  /\ UNCHANGED <<timeSub, stage, mutex, pending, cache, lastAttempt, events, wired>>

Next ==
  \/ runLoop \/ get \/ refresh_now
  \/ \E p \in Threads : refreshStep(p) \/ refreshed(p)
  \/ wireEvents \/ start \/ stop \/ disconnect
  \/ environment

Spec == Init /\ [][Next]_vars

\* The monitor's thread and the threads in a query keep running, the client gives
\* up an unanswered request after its timeout, and time passes.
Fairness ==
  /\ WF_vars(runLoop)
  /\ WF_vars(tick /\ environment)
  /\ \A p \in Threads : WF_vars(refreshStep(p) \/ refreshed(p))

FairSpec == Spec /\ Fairness

-----------------------------------------------------------------------------
(***************************************************************************)
(* Properties                                                              *)
(***************************************************************************)

\* A lease get grants never outlasts the promise TIME made when it built the
\* snapshot, however long the answer travelled, waited to be mapped and gated,
\* and sat in the cache (gatePlatform, refreshLocked, get).
LeaseWithinValidity ==
  hasCached /\ Trusted(Answer) => now + Answer.lease <= cached.until

\* Whenever the mutex is free, the cached verdict is the one last published, and
\* its sequence number is the event's or the one before: a subscriber that reads
\* the cache and then ignores older events misses no change (refreshLocked,
\* revokeLocked, publishIfChangedLocked).
CacheIsPublished ==
  hasCached /\ mutex = None =>
    /\ hasPublished /\ ~factChanged(cached, lastPublished)
    /\ seq \in {cachedSeq, (cachedSeq + 1) % SeqMod}

-----------------------------------------------------------------------------
(***************************************************************************)
(* The inductive invariant                                                 *)
(***************************************************************************)

\* A cached lease, counted from the start of the refresh, ends before TIME's
\* promise does.
LeaseInv == hasCached /\ Trusted(cached) => lastRefresh + cached.lease <= cached.until

\* The cached verdict is published with the cache, not after it.
PublishedInv ==
  hasCached =>
    /\ hasPublished /\ ~factChanged(cached, lastPublished)
    /\ seq \in {cachedSeq, (cachedSeq + 1) % SeqMod}

\* What every step of the monitor and its callers preserves.
MonitorInv ==
  /\ TypeOK /\ CompositeInv
  /\ LeaseInv /\ PublishedInv

-----------------------------------------------------------------------------
(***************************************************************************)
(* Liveness, and what the subscriber expects                               *)
(***************************************************************************)

\* When TIME is gone for good a running monitor stops publishing its time as
\* trusted, although nobody asks (runLoop).
LossIsPublished == ~timeUp ~> (~Trusted(lastPublished) \/ stage # "running")

\* SecApplication, subscribed to changes of the trusted time, is told every one.
SubscriberIsTold == wired => told = seq

=============================================================================
