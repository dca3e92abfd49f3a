---------------------------- MODULE SeedKeyProofs ----------------------------
(***************************************************************************)
(* Proofs about SeedKey, for every number of attempts, lockout period and  *)
(* lifetime of a seed: SeedInv is inductive, the wrong keys are bounded    *)
(* and no seed is judged twice.                                            *)
(***************************************************************************)
EXTENDS SeedKey, TLAPS

\* A service that has just started satisfies the invariant.
LEMMA InitSeedInv == SeedInit => SeedInv
<1> SUFFICES ASSUME SeedInit PROVE SeedInv
  OBVIOUS
<1>1. seed \in Seed /\ ~seed.live
  BY SeedKeyAssumption DEF SeedInit, Seed
<1>2. /\ now = 0 /\ issued = 0 /\ attempts = 0 /\ until = 0
      /\ provFailed \in BOOLEAN
      /\ wrongs = 0 /\ since = 0 /\ judged = 0
  BY Zenon DEF SeedInit
<1>3. SeedTypeOK /\ OneJudgementPerSeed /\ SeedBudgetInv
  BY <1>1, <1>2, SeedKeyAssumption
  DEF SeedTypeOK, OneJudgementPerSeed, SeedBudgetInv
<1>4. LockoutInv
  <2>1. /\ 0 \in 0..wrongs
        /\ wrongs = 0 * MAX_FAILED_ATTEMPTS + attempts
    BY <1>2, SeedKeyAssumption
  <2> QED
    BY <1>2, <2>1, SeedKeyAssumption DEF LockoutInv
<1> QED
  BY <1>3, <1>4 DEF SeedInv

\* A new seed, or an error that only marks the provisioning as failed.
LEMMA GetSeedStep ==
  ASSUME SeedInv, NEW level \in Levels \cup {0}, NEW status, NEW id,
         get_seed(level, status, id), UNCHANGED now
  PROVE  SeedInv'
<1>1. CASE UNCHANGED seedVars
  BY <1>1
  DEF seedVars, SeedInv, SeedTypeOK, OneJudgementPerSeed, SeedBudgetInv, LockoutInv
<1>2. CASE generate_random_seed(level)
  <2>1. SeedTypeOK'
    BY <1>2, SeedKeyAssumption DEF SeedInv, SeedTypeOK, Seed, generate_random_seed
  <2>2. OneJudgementPerSeed' /\ SeedBudgetInv'
    BY <1>2, SeedKeyAssumption
    DEF SeedInv, SeedTypeOK, OneJudgementPerSeed, SeedBudgetInv, generate_random_seed
  <2>3. LockoutInv'
    BY <1>2 DEF SeedInv, LockoutInv, generate_random_seed
  <2> QED
    BY <2>1, <2>2, <2>3 DEF SeedInv
<1>3. CASE handle_error
  BY <1>3
  DEF handle_error, SeedInv, SeedTypeOK, OneJudgementPerSeed, SeedBudgetInv, LockoutInv
<1> QED
  BY <1>1, <1>2, <1>3 DEF get_seed

\* A key that is judged while there is no lockout.
LEMMA JudgeStep ==
  ASSUME SeedInv, NEW key, NEW status, ~is_in_lockout, is_seed_valid,
         judge(key, status), UNCHANGED now
  PROVE  SeedInv'
<1> USE SeedKeyAssumption
<1> DEFINE M == MAX_FAILED_ATTEMPTS
           L == LOCKOUT_DURATION
<1>1. seed.live /\ until <= now
  BY DEF is_in_lockout, is_seed_valid, SeedInv, SeedTypeOK
<1>2. seed' \in Seed /\ ~seed'.live
  BY DEF judge, invalidate_seed, SeedInv, SeedTypeOK, Seed
<1>3. /\ now' = now /\ issued' = issued /\ provFailed' = provFailed
      /\ judged' = 1
  BY <1>1 DEF judge, SeedInv, SeedTypeOK, SeedBudgetInv
<1>4. PICK k \in 0..wrongs :
        /\ wrongs = k * M + attempts
        /\ k > 0 => until >= since + k * L
  BY DEF SeedInv, LockoutInv
<1>5. CASE key = seed.id
  <2>1. attempts' = 0 /\ until' = 0 /\ wrongs' = 0 /\ since' = now
    BY <1>5 DEF judge, reset_failed_attempts
  <2>2. SeedTypeOK' /\ OneJudgementPerSeed' /\ SeedBudgetInv'
    BY <1>1, <1>2, <1>3, <2>1
    DEF SeedInv, SeedTypeOK, OneJudgementPerSeed, SeedBudgetInv
  <2>3. 0 \in 0..wrongs' /\ wrongs' = 0 * M + attempts'
    BY <2>1
  <2>4. LockoutInv'
    BY <1>3, <2>1, <2>3 DEF LockoutInv, SeedInv, SeedTypeOK
  <2> QED
    BY <2>2, <2>4 DEF SeedInv
<1>6. CASE key # seed.id
  <2>1. wrongs' = wrongs + 1 /\ since' = since /\ increment_failed_attempts
    BY <1>6 DEF judge
  <2>2. wrongs < issued /\ issued <= MaxSeeds
    BY <1>1 DEF SeedInv, SeedBudgetInv, SeedTypeOK
  <2>3. CASE attempts + 1 >= M
    <3>1. until' = now + L /\ attempts' = 0 /\ attempts + 1 = M
      BY <2>1, <2>3 DEF increment_failed_attempts, SeedInv, SeedTypeOK
    <3>2. SeedTypeOK' /\ OneJudgementPerSeed' /\ SeedBudgetInv'
      BY <1>1, <1>2, <1>3, <2>1, <2>2, <3>1
      DEF SeedInv, SeedTypeOK, OneJudgementPerSeed, SeedBudgetInv
    <3>3. /\ k + 1 \in 0..wrongs'
          /\ (k + 1) * M = k * M + M
          /\ (k + 1) * L = k * L + L
      BY <1>4, <2>1 DEF SeedInv, SeedTypeOK
    <3>4. wrongs' = (k + 1) * M + attempts'
      BY <1>4, <2>1, <3>1, <3>3 DEF SeedInv, SeedTypeOK
    <3>5. until' >= since' + (k + 1) * L
      <4>1. CASE k = 0
        BY <2>1, <3>1, <4>1 DEF SeedInv, SeedTypeOK, LockoutInv
      <4>2. CASE k > 0
        BY <1>1, <1>4, <2>1, <3>1, <3>3, <4>2 DEF SeedInv, SeedTypeOK
      <4> QED
        BY <4>1, <4>2
    <3>6. since' <= now' /\ until' <= now' + L /\ ~(attempts' > 0)
      BY <1>3, <2>1, <3>1 DEF SeedInv, SeedTypeOK, LockoutInv
    <3>7. LockoutInv'
      BY <3>3, <3>4, <3>5, <3>6 DEF LockoutInv
    <3> QED
      BY <3>2, <3>7 DEF SeedInv
  <2>4. CASE attempts + 1 < M
    <3>1. until' = until /\ attempts' = attempts + 1
      BY <2>1, <2>4 DEF increment_failed_attempts, SeedInv, SeedTypeOK
    <3>2. SeedTypeOK' /\ OneJudgementPerSeed' /\ SeedBudgetInv'
      BY <1>1, <1>2, <1>3, <2>1, <2>2, <2>4, <3>1
      DEF SeedInv, SeedTypeOK, OneJudgementPerSeed, SeedBudgetInv
    <3>3. k \in 0..wrongs' /\ wrongs' = k * M + attempts'
      BY <1>4, <2>1, <3>1 DEF SeedInv, SeedTypeOK
    <3>4. k > 0 => until' >= since' + k * L
      BY <1>4, <2>1, <3>1
    <3>5. since' <= now' /\ until' <= now' + L /\ until' <= now'
      BY <1>1, <1>3, <2>1, <3>1 DEF SeedInv, LockoutInv
    <3>6. LockoutInv'
      BY <3>3, <3>4, <3>5 DEF LockoutInv
    <3> QED
      BY <3>2, <3>6 DEF SeedInv
  <2> QED
    BY <2>3, <2>4 DEF SeedInv, SeedTypeOK
<1> QED
  BY <1>5, <1>6

\* A key that is refused unseen, cannot be computed, or is judged.
LEMMA VerifyKeyStep ==
  ASSUME SeedInv, NEW level \in Levels \cup {0}, NEW key, NEW status,
         verify_key(level, key, status), UNCHANGED now
  PROVE  SeedInv'
<1>1. CASE UNCHANGED seedVars
  BY <1>1
  DEF seedVars, SeedInv, SeedTypeOK, OneJudgementPerSeed, SeedBudgetInv, LockoutInv
<1>2. CASE handle_error
  BY <1>2
  DEF handle_error, SeedInv, SeedTypeOK, OneJudgementPerSeed, SeedBudgetInv, LockoutInv
<1>3. CASE ~is_in_lockout /\ is_seed_valid /\ judge(key, status)
  BY <1>3, JudgeStep
<1> QED
  BY <1>1, <1>2, <1>3 DEF verify_key

\* Time passes.
LEMMA SeedTickStep == ASSUME SeedInv, tick, UNCHANGED seedVars PROVE SeedInv'
<1> USE SeedKeyAssumption DEF tick, seedVars
<1>1. SeedTypeOK' /\ OneJudgementPerSeed' /\ SeedBudgetInv'
  BY DEF SeedInv, SeedTypeOK, OneJudgementPerSeed, SeedBudgetInv
<1>2. LockoutInv'
  <2>1. /\ since' <= now'
        /\ until' <= now' + LOCKOUT_DURATION
        /\ attempts' > 0 => until' <= now'
    BY DEF SeedInv, SeedTypeOK, LockoutInv
  <2> QED
    BY <2>1 DEF SeedInv, LockoutInv
<1> QED
  BY <1>1, <1>2 DEF SeedInv

\* Whatever the clients ask and however time passes, the invariant holds.
THEOREM SeedInvHolds == SeedSpec => []SeedInv
<1>1. ASSUME SeedInv, [SeedNext]_<<now, seedVars>>
      PROVE  SeedInv'
  <2>1. CASE UNCHANGED <<now, seedVars>>
    BY <1>1, <2>1
    DEF seedVars, SeedInv, SeedTypeOK, OneJudgementPerSeed, SeedBudgetInv, LockoutInv
  <2>2. CASE SeedNext
    BY <1>1, <2>2, GetSeedStep, VerifyKeyStep, SeedTickStep DEF SeedNext
  <2> QED
    BY <1>1, <2>1, <2>2
<1> QED
  BY <1>1, InitSeedInv, PTL DEF SeedSpec

\* A quotient is at least k when the dividend is at least k times the divisor.
LEMMA QuotientBound ==
  ASSUME NEW x \in Nat, NEW k \in Nat, NEW d \in Nat \ {0}, k * d <= x
  PROVE  k <= x \div d
<1>1. x \div d \in Nat /\ x < (x \div d) * d + d
  OBVIOUS
<1>2. SUFFICES ASSUME x \div d + 1 <= k PROVE FALSE
  BY <1>1
<1>3. (x \div d + 1) * d <= k * d
  BY <1>1, <1>2
<1>4. (x \div d + 1) * d = (x \div d) * d + d
  BY <1>1
<1> QED
  BY <1>1, <1>3, <1>4

\* The wrong keys judged since the last right one stay within what the lockout
\* grants (verify_key, increment_failed_attempts), for every number of attempts
\* and every lockout period.
THEOREM WrongKeysAreBounded == SeedSpec => []WrongKeysBounded
<1>1. ASSUME SeedInv PROVE WrongKeysBounded
  <2> USE SeedKeyAssumption
  <2> DEFINE M == MAX_FAILED_ATTEMPTS
             L == LOCKOUT_DURATION
             q == (now - since) \div L
  <2>1. now - since \in Nat /\ q \in Nat /\ M \in Nat \ {0} /\ L \in Nat \ {0}
    BY <1>1 DEF SeedInv, SeedTypeOK, LockoutInv
  <2>2. PICK k \in 0..wrongs :
          /\ wrongs = k * M + attempts
          /\ k > 0 => until >= since + k * L
    BY <1>1 DEF SeedInv, LockoutInv
  <2>3. /\ attempts \in 0..(M - 1) /\ wrongs \in Nat /\ k \in Nat
        /\ now \in Nat /\ since \in Nat /\ until \in Nat
        /\ until <= now + L
        /\ attempts > 0 => until <= now
    BY <1>1 DEF SeedInv, SeedTypeOK, LockoutInv
  <2> HIDE DEF q, M, L
  <2>4. CASE k = 0
    <3>1. wrongs <= M /\ 0 * M = 0
      BY <2>1, <2>2, <2>3, <2>4
    <3>2. M <= M * (1 + q)
      BY <2>1
    <3> QED
      BY <2>1, <2>3, <3>1, <3>2 DEF WrongKeysBounded, q, M, L
  <2>5. CASE k > 0 /\ attempts = 0
    <3>1. (k - 1) * L = k * L - L
      BY <2>1, <2>3
    <3>2. k - 1 \in Nat /\ (k - 1) * L <= now - since
      BY <2>1, <2>2, <2>3, <2>5, <3>1
    <3>3. k - 1 <= q
      BY <2>1, <3>2, QuotientBound DEF q
    <3>4. k * M <= M * (1 + q)
      BY <2>1, <2>3, <3>2, <3>3
    <3> QED
      BY <2>2, <2>3, <2>5, <3>4 DEF WrongKeysBounded, q, M, L
  <2>6. CASE k > 0 /\ attempts > 0
    <3>1. k * L <= now - since
      BY <2>1, <2>2, <2>3, <2>6
    <3>2. k <= q
      BY <2>1, <2>3, <3>1, QuotientBound DEF q
    <3>3. k * M + M <= M * (1 + q)
      BY <2>1, <2>3, <3>2
    <3>4. wrongs <= k * M + M
      BY <2>1, <2>2, <2>3
    <3> QED
      BY <2>1, <2>3, <3>3, <3>4 DEF WrongKeysBounded, q, M, L
  <2> QED
    BY <2>3, <2>4, <2>5, <2>6
<1> QED
  BY <1>1, SeedInvHolds, PTL

\* No second key is ever compared with a seed (invalidate_seed).
THEOREM SeedIsJudgedOnce == SeedSpec => []OneJudgementPerSeed
<1>1. SeedInv => OneJudgementPerSeed
  BY DEF SeedInv
<1> QED
  BY <1>1, SeedInvHolds, PTL

=============================================================================
