------------------------------ MODULE SeedKey ------------------------------
(***************************************************************************)
(* The UDS security access of SecService: get_seed hands out one random    *)
(* seed, verify_key judges one answer to it.  Both run under seed_mutex_,  *)
(* so each is one step.  A seed is named by its number, and a key by the   *)
(* number of the seed it was computed from (0: a key that fits no seed).   *)
(***************************************************************************)
EXTENDS Naturals

CONSTANTS
  Levels,               \* security levels a client may ask with
  SEED_TTL,             \* a seed is good for this long
  MAX_FAILED_ATTEMPTS,  \* wrong keys before the lockout
  LOCKOUT_DURATION,
  MaxTime, MaxSeeds     \* bounds

ASSUME SeedKeyAssumption ==
  /\ Levels \subseteq 0..255
  /\ SEED_TTL \in Nat /\ MaxTime \in Nat /\ MaxSeeds \in Nat
  /\ MAX_FAILED_ATTEMPTS \in Nat \ {0} /\ LOCKOUT_DURATION \in Nat \ {0}

VARIABLES
  now,          \* steady clock
  seed,         \* current_seed_
  issued,       \* seeds handed out so far
  attempts,     \* failed_attempts_
  until,        \* lockout_until_, 0 while in_lockout_ is false
  provFailed,   \* handle_error has set the provision state to FAILED
  wrongs,       \* history: wrong keys judged since the last right one
  since,        \* history: when the last right one was judged
  judged        \* history: answers compared with the current seed

seedVars == <<seed, issued, attempts, until, provFailed, wrongs, since, judged>>

Seed == [id : 0..MaxSeeds, level : Levels \cup {0}, at : 0..MaxTime,
         live : BOOLEAN]

SeedStatus == {"SUCCESS", "INVALID_PARAMETER", "UDS_SECURITY_DENIED",
               "SEED_GENERATION_FAILED", "KEY_VERIFICATION_FAILED"}

SeedTypeOK ==
  /\ now \in 0..MaxTime
  /\ seed \in Seed
  /\ issued \in 0..MaxSeeds
  /\ attempts \in 0..(MAX_FAILED_ATTEMPTS - 1)
  /\ until \in 0..(MaxTime + LOCKOUT_DURATION)
  /\ provFailed \in BOOLEAN
  /\ wrongs \in 0..MaxSeeds
  /\ since \in 0..MaxTime
  /\ judged \in 0..MaxSeeds

SeedInit ==
  /\ now = 0
  /\ seed = [id |-> 0, level |-> 0, at |-> 0, live |-> FALSE]
  /\ issued = 0 /\ attempts = 0 /\ until = 0
  /\ provFailed = FALSE
  /\ wrongs = 0 /\ since = 0 /\ judged = 0

-----------------------------------------------------------------------------
requestLevel(level) == level % 2 = 1
sendLevel(level) == level % 2 = 0 /\ level # 0

is_in_lockout == now < until
is_seed_valid == seed.live /\ now - seed.at < SEED_TTL

\* Mutant: the counter starts over and in_lockout_ is not set.
increment_without_lockout ==
  attempts' = (attempts + 1) % MAX_FAILED_ATTEMPTS /\ UNCHANGED until

increment_failed_attempts ==
  IF attempts + 1 >= MAX_FAILED_ATTEMPTS
  THEN until' = now + LOCKOUT_DURATION /\ attempts' = 0
  ELSE UNCHANGED until /\ attempts' = attempts + 1

reset_failed_attempts == attempts' = 0 /\ until' = 0

\* Mutant: only the bytes are cleared and the seed stays usable.
keep_seed == UNCHANGED seed

invalidate_seed == seed' = [seed EXCEPT !.live = FALSE]

\* A new seed replaces the one before, whoever asked for that one.
generate_random_seed(level) ==
  /\ issued < MaxSeeds
  /\ issued' = issued + 1
  /\ seed' = [id |-> issued + 1, level |-> level, at |-> now, live |-> TRUE]
  /\ judged' = 0
  /\ UNCHANGED <<attempts, until, provFailed, wrongs, since>>

\* handle_error: the provisioning state machine is set to FAILED.
handle_error ==
  /\ provFailed' = TRUE
  /\ UNCHANGED <<seed, issued, attempts, until, wrongs, since, judged>>

get_seed(level, status, id) ==
  \/ /\ ~requestLevel(level)
     /\ status = "INVALID_PARAMETER" /\ id = 0
     /\ UNCHANGED seedVars
  \/ /\ requestLevel(level) /\ is_in_lockout
     /\ status = "UDS_SECURITY_DENIED" /\ id = 0
     /\ UNCHANGED seedVars
  \/ /\ requestLevel(level) /\ ~is_in_lockout
     /\ \/ /\ generate_random_seed(level)
           /\ status = "SUCCESS" /\ id = issued'
        \/ /\ handle_error
           /\ status = "SEED_GENERATION_FAILED" /\ id = 0

\* The key AES(secret, seed) is compared with the one that was sent.
judge(key, status) ==
  /\ judged' = judged + 1
  /\ invalidate_seed
  /\ \/ /\ key = seed.id
        /\ reset_failed_attempts
        /\ status = "SUCCESS"
        /\ wrongs' = 0 /\ since' = now
     \/ /\ key # seed.id
        /\ increment_failed_attempts
        /\ status = "KEY_VERIFICATION_FAILED"
        /\ wrongs' = wrongs + 1
        /\ UNCHANGED since
  /\ UNCHANGED <<issued, provFailed>>

\* compute_expected_key may fail (no shared secret, no cipher context): the
\* attempt is then not counted and the seed stays good.
verify_key(level, key, status) ==
  \/ /\ ~sendLevel(level)
     /\ status = "INVALID_PARAMETER"
     /\ UNCHANGED seedVars
  \/ /\ sendLevel(level) /\ is_in_lockout
     /\ status = "UDS_SECURITY_DENIED"
     /\ UNCHANGED seedVars
  \/ /\ sendLevel(level) /\ ~is_in_lockout /\ ~is_seed_valid
     /\ status = "KEY_VERIFICATION_FAILED"
     /\ UNCHANGED seedVars
  \/ /\ sendLevel(level) /\ ~is_in_lockout /\ is_seed_valid
     /\ \/ /\ level # seed.level + 1
           /\ status = "INVALID_PARAMETER"
           /\ UNCHANGED seedVars
        \/ /\ level = seed.level + 1
           /\ handle_error
           /\ status = "KEY_VERIFICATION_FAILED"
        \/ /\ level = seed.level + 1
           /\ judge(key, status)

tick ==
  /\ now < MaxTime
  /\ now' = now + 1

SeedNext ==
  \/ \E level \in Levels, status \in SeedStatus :
       \/ \E id \in 0..MaxSeeds : get_seed(level, status, id) /\ UNCHANGED now
       \/ \E key \in 0..issued : verify_key(level, key, status) /\ UNCHANGED now
  \/ tick /\ UNCHANGED seedVars

SeedSpec == SeedInit /\ [][SeedNext]_<<now, seedVars>>

-----------------------------------------------------------------------------
\* However the clients interleave seeds and keys, the wrong keys that were
\* judged since the last right one never exceed what the lockout grants:
\* MAX_FAILED_ATTEMPTS at once, and as many again per LOCKOUT_DURATION.
WrongKeysBounded ==
  wrongs <= MAX_FAILED_ATTEMPTS * (1 + (now - since) \div LOCKOUT_DURATION)

\* A seed is judged once: no second key is ever compared with it, whether the
\* first was right or wrong.
OneJudgementPerSeed == judged <= 1

-----------------------------------------------------------------------------
(***************************************************************************)
(* The inductive invariant behind them                                     *)
(***************************************************************************)

\* Every seed is spent by at most one judgement.
SeedBudgetInv ==
  /\ wrongs <= issued /\ judged <= issued
  /\ seed.live => wrongs < issued /\ judged = 0

\* The wrong keys since the last right one are k full rounds, each ended by a
\* lockout, and the attempts counted since.  The last lockout ends k periods or
\* more after that right key, and attempts are counted only once it is over.
LockoutInv ==
  /\ since <= now
  /\ until <= now + LOCKOUT_DURATION
  /\ attempts > 0 => until <= now
  /\ \E k \in 0..wrongs :
       /\ wrongs = k * MAX_FAILED_ATTEMPTS + attempts
       /\ k > 0 => until >= since + k * LOCKOUT_DURATION

\* What every call and every tick preserves.
SeedInv ==
  /\ SeedTypeOK
  /\ OneJudgementPerSeed
  /\ SeedBudgetInv
  /\ LockoutInv

=============================================================================
