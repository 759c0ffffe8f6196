-------------------------- MODULE RateLimiterProofs --------------------------
(***************************************************************************)
(* The token buckets bound admissions from every instant, cost rejected    *)
(* requests nothing, and keep the promise of Retry-After, for any number   *)
(* of keys, any rates and bursts that meet the assumptions, and whenever   *)
(* buckets are evicted.                                                    *)
(*                                                                         *)
(* The argument is an account: tokens taken plus tokens a bucket would     *)
(* hold if used now never exceed the burst plus what has dripped in        *)
(* (TokensAreConserved).  Eviction does not disturb it because a bucket    *)
(* old enough to be evicted is full (StaleAssumption).                     *)
(***************************************************************************)
EXTENDS RateLimiter, TLAPS

LEMMA Constants ==
    /\ KeyBurst \in Nat /\ GlobalRate \in Nat /\ GlobalBurst \in Nat
    /\ StaleAfter \in Nat /\ Horizon \in Nat
    /\ TokenCost \in Nat /\ TokenCost > 0
    /\ KeyRate \in Nat /\ KeyRate > 0
    /\ SecondTicks \in Nat /\ SecondTicks > 0
    /\ KeyBurst >= TokenCost /\ GlobalBurst >= TokenCost
BY LimiterAssumption

-----------------------------------------------------------------------------
(* Arithmetic *)

LEMMA TimesMonotone ==
    ASSUME NEW a \in Int, NEW b \in Int, NEW c \in Nat, a <= b
    PROVE  a * c <= b * c
OBVIOUS

LEMMA TimesNat ==
    ASSUME NEW a \in Nat, NEW c \in Nat
    PROVE  a * c \in Nat
OBVIOUS

\* A bucket gains at most its rate in a tick.
LEMMA DripsOnce ==
    ASSUME NEW burst \in Nat, NEW t \in Nat, NEW d \in Nat, NEW rate \in Nat
    PROVE  Least(burst, t + (d + 1) * rate) <= Least(burst, t + d * rate) + rate
<1>1. (d + 1) * rate = d * rate + rate /\ d * rate \in Nat
  OBVIOUS
<1>2. QED
  BY <1>1 DEF Least

\* A quotient rounded up covers the deficit.
LEMMA RoundsUp ==
    ASSUME NEW need \in Nat, NEW step \in Nat, step > 0
    PROVE  /\ (need + step - 1) \div step \in Nat
           /\ ((need + step - 1) \div step) * step >= need
<1> DEFINE x == need + step - 1
           q == x \div step
<1>1. x \in Nat
  OBVIOUS
<1>2. q \in Int /\ x = step * q + (x % step) /\ x % step \in 0..(step - 1)
  BY <1>1
<1>3. q >= 0
  <2> SUFFICES ASSUME q <= -1
               PROVE  FALSE
    BY <1>2
  <2>1. step * q <= -step
    BY <1>2
  <2>2. QED
    BY <1>1, <1>2, <2>1
<1>4. q * step >= need
  BY <1>1, <1>2
<1>5. QED
  BY <1>2, <1>3, <1>4

-----------------------------------------------------------------------------
(* What a call finds *)

\* The bucket of a key, as a call finds it.
LEMMA KeyBucketIs ==
    ASSUME LimiterTypeOK, BucketsAreBounded, NEW k \in Keys
    PROVE  /\ KeyBucket(k) = [live |-> TRUE, tokens |-> KeyTokens(k), fill |-> time]
           /\ KeyTokens(k) \in Nat
           /\ KeyTokens(k) <= KeyBurst
           /\ k \in Evicted => KeyTokens(k) = KeyBurst
<1> USE Constants
<1> DEFINE b == buckets[k]
           d == time - b.fill
<1>1. b \in Bucket /\ time \in Nat /\ d \in Nat /\ b.tokens \in Nat
  BY DEF LimiterTypeOK, BucketsAreBounded, Bucket
<1>2. d * KeyRate \in Nat
  BY <1>1, TimesNat
<1>3. KeyTokens(k) = IF b.live THEN Least(KeyBurst, b.tokens + d * KeyRate) ELSE KeyBurst
  BY DEF KeyTokens
<1> HIDE DEF d
<1>4. KeyTokens(k) \in Nat /\ KeyTokens(k) <= KeyBurst
  BY <1>1, <1>2, <1>3 DEF Least
<1>5. ASSUME k \in Evicted
      PROVE  KeyTokens(k) = KeyBurst
  <2>1. d >= StaleAfter
    BY <1>1, <1>5 DEF Evicted, LimiterTypeOK, Bucket, d
  <2>2. d * KeyRate >= StaleAfter * KeyRate
    BY <1>1, <2>1, TimesMonotone
  <2>3. StaleAfter * KeyRate >= KeyBurst /\ StaleAfter * KeyRate \in Nat
    BY StaleAssumption
  <2>4. QED
    BY <1>1, <1>2, <1>3, <2>2, <2>3 DEF Least
<1>6. ASSUME Kept[k].live
      PROVE  KeyBucket(k).tokens = KeyTokens(k)
  <2>1. Kept[k] = b /\ b.live
    BY <1>6 DEF Kept, NoBucket
  <2>2. QED
    BY <1>3, <2>1, <1>6 DEF KeyBucket, Refilled, d
<1>7. ASSUME ~Kept[k].live
      PROVE  KeyBucket(k).tokens = KeyTokens(k)
  <2>1. KeyTokens(k) = KeyBurst
    BY <1>3, <1>5, <1>7 DEF Kept
  <2>2. (time - time) * KeyRate = 0
    BY <1>1
  <2>3. QED
    BY <1>7, <2>1, <2>2 DEF KeyBucket, Refilled, Full, Least
<1>8. KeyBucket(k) = [live |-> TRUE, tokens |-> KeyBucket(k).tokens, fill |-> time]
  BY DEF KeyBucket, Refilled
<1>9. QED
  BY <1>4, <1>5, <1>6, <1>7, <1>8

\* The global bucket, likewise.
LEMMA GlobalBucketIs ==
    ASSUME LimiterTypeOK, BucketsAreBounded
    PROVE  /\ GlobalBucket \in Bucket
           /\ GlobalBucket.live = TRUE
           /\ GlobalBucket.fill = time
           /\ GlobalBucket.tokens \in Nat
           /\ GlobalBucket.tokens <= GlobalBurst
           /\ GlobalBucket.tokens >= Least(GlobalBurst, global.tokens)
<1> USE Constants
<1> DEFINE d == time - global.fill
<1>1. d \in Nat /\ global.tokens \in Nat /\ time \in Nat
  BY DEF LimiterTypeOK, BucketsAreBounded, Bucket
<1>2. d * GlobalRate \in Nat
  BY <1>1, TimesNat
<1>3. GlobalBucket = [live |-> TRUE, tokens |-> Least(GlobalBurst, global.tokens + d * GlobalRate), fill |-> time]
  BY DEF GlobalBucket, Refilled
<1> HIDE DEF d
<1>4. QED
  BY <1>1, <1>2, <1>3 DEF Least, Bucket

\* A token taken from a bucket.
LEMMA TakenIs ==
    ASSUME NEW t \in Nat, NEW f \in Nat
    PROVE  Taken([live |-> TRUE, tokens |-> t, fill |-> f])
             = [live |-> TRUE, tokens |-> t - TokenCost, fill |-> f]
<1> DEFINE b == [live |-> TRUE, tokens |-> t, fill |-> f]
<1>1. b \in Bucket /\ b.live = TRUE /\ b.tokens = t /\ b.fill = f
  BY DEF Bucket
<1> HIDE DEF b
<1>2. Taken(b) = [live |-> b.live, tokens |-> b.tokens - TokenCost, fill |-> b.fill]
  BY <1>1 DEF Taken, Bucket
<1>3. QED
  BY <1>1, <1>2 DEF b

\* A refused request gets its global token back, to the fraction.
LEMMA RefundIsExact ==
    ASSUME LimiterTypeOK, BucketsAreBounded, HasToken(GlobalBucket)
    PROVE  Refunded(Taken(GlobalBucket)) = GlobalBucket
<1> DEFINE g == GlobalBucket
<1>1. g \in Bucket /\ g.tokens \in Nat /\ g.tokens <= GlobalBurst /\ g.tokens >= TokenCost
  BY GlobalBucketIs DEF HasToken
<1> HIDE DEF g
<1>2. g = [live |-> g.live, tokens |-> g.tokens, fill |-> g.fill]
  BY <1>1 DEF Bucket
<1>3. Taken(g) = [live |-> g.live, tokens |-> g.tokens - TokenCost, fill |-> g.fill]
  BY <1>1 DEF Taken, Bucket
<1>4. Refunded(Taken(g)) = [live |-> g.live, tokens |-> g.tokens - TokenCost + TokenCost, fill |-> g.fill]
  BY <1>1, <1>3, Constants DEF Refunded
<1>5. QED
  BY <1>1, <1>2, <1>4, Constants DEF g

\* What a key's bucket holds, once used and not touched since, or evicted.
LEMMA KeptTokens ==
    ASSUME LimiterTypeOK, BucketsAreBounded, NEW k \in Keys,
           time' = time, buckets'[k] = Kept[k]
    PROVE  KeyTokens(k)' = KeyTokens(k)
<1>1. CASE k \in Evicted
  BY <1>1, KeyBucketIs DEF KeyTokens, Kept, NoBucket
<1>2. CASE k \notin Evicted
  BY <1>2 DEF KeyTokens, Kept
<1>3. QED
  BY <1>1, <1>2

LEMMA UsedTokens ==
    ASSUME LimiterTypeOK, NEW k \in Keys, NEW t \in Nat, t <= KeyBurst, time' = time,
           buckets'[k] = [live |-> TRUE, tokens |-> t, fill |-> time]
    PROVE  KeyTokens(k)' = t
<1>1. (time - time) * KeyRate = 0 /\ time \in Nat
  BY Constants DEF LimiterTypeOK
<1>2. QED
  BY <1>1, Constants DEF KeyTokens, Least

-----------------------------------------------------------------------------
(* The key's side of a call: one key at a time *)

\* What LimiterInv says of one key.
KeySound(k) ==
    /\ buckets[k] \in Bucket
    /\ buckets[k].tokens <= KeyBurst /\ buckets[k].fill <= time
    /\ admitted[k] \in Nat
    /\ admitted[k] * TokenCost + KeyTokens(k) <= KeyBurst + (time - watched) * KeyRate
    /\ promised[k] \in Nat \cup {Never}
    /\ promised[k] # Never /\ buckets[k].live =>
          /\ promised[k] >= buckets[k].fill
          /\ buckets[k].tokens + (promised[k] - buckets[k].fill) * KeyRate >= TokenCost

\* and of the rest.
GlobalSound ==
    /\ time \in Nat /\ lastClean \in Nat
    /\ total \in Nat /\ watched \in Nat /\ lifetime \in Nat
    /\ watched <= time
    /\ global \in Bucket
    /\ global.tokens <= GlobalBurst /\ global.fill <= time
    /\ total * TokenCost + GlobalBucket.tokens <= GlobalBurst + (time - watched) * GlobalRate
    /\ RejectionsAreFree

LEMMA InParts ==
    LimiterInv <=> /\ buckets \in [Keys -> Bucket]
                   /\ admitted \in [Keys -> Nat]
                   /\ promised \in [Keys -> Nat \cup {Never}]
                   /\ GlobalSound
                   /\ \A k \in Keys : KeySound(k)
BY DEF LimiterInv, LimiterTypeOK, BucketsAreBounded, TokensAreConserved, PromisesCanBeKept,
       GlobalSound, KeySound

\* A key that is not the one called for.
LEMMA OtherKey ==
    ASSUME LimiterInv, NEW k \in Keys, time' = time, watched' = watched,
           buckets'[k] = Kept[k], admitted'[k] = admitted[k], promised'[k] = promised[k]
    PROVE  KeySound(k)'
<1>1. KeySound(k)
  BY InParts
<1>2. KeyTokens(k)' = KeyTokens(k)
  BY KeptTokens DEF LimiterInv
<1>3. CASE k \in Evicted
  <2>1. buckets'[k] = NoBucket
    BY <1>3 DEF Kept
  <2>2. NoBucket \in Bucket /\ NoBucket.tokens = 0 /\ NoBucket.fill = 0 /\ ~NoBucket.live
    BY DEF NoBucket, Bucket
  <2>3. time \in Nat
    BY DEF LimiterInv, LimiterTypeOK
  <2>4. QED
    BY <1>1, <1>2, <2>1, <2>2, <2>3, Constants DEF KeySound
<1>4. CASE k \notin Evicted
  <2>1. buckets'[k] = buckets[k]
    BY <1>4 DEF Kept
  <2>2. QED
    BY <1>1, <1>2, <2>1 DEF KeySound
<1>5. QED
  BY <1>3, <1>4

\* The key that is refused.
LEMMA RefusedKey ==
    ASSUME LimiterInv, NEW k \in Keys, KeyRefuses(k)
    PROVE  KeySound(k)'
<1> USE Constants
<1> DEFINE t == KeyTokens(k)
           n == RetryAfter(KeyBucket(k))
<1>1. KeySound(k) /\ time \in Nat /\ buckets \in [Keys -> Bucket] /\ admitted \in [Keys -> Nat]
      /\ promised \in [Keys -> Nat \cup {Never}]
  BY InParts DEF GlobalSound
<1>2. KeyBucket(k) = [live |-> TRUE, tokens |-> t, fill |-> time] /\ t \in Nat /\ t <= KeyBurst
  BY KeyBucketIs DEF LimiterInv
<1>3. Kept \in [Keys -> Bucket]
  BY <1>1 DEF Kept, NoBucket, Bucket
<1>4. /\ buckets'[k] = [live |-> TRUE, tokens |-> t, fill |-> time]
      /\ promised'[k] = time + n * SecondTicks
      /\ time' = time /\ watched' = watched /\ admitted'[k] = admitted[k]
  BY <1>1, <1>2, <1>3 DEF KeyRefuses
<1>5. KeyTokens(k)' = t
  BY <1>2, <1>4, UsedTokens DEF LimiterInv
<1>6. t < TokenCost
  BY <1>2 DEF KeyRefuses, HasToken
<1>7. n \in Nat /\ n * (KeyRate * SecondTicks) >= TokenCost - t
  <2> DEFINE need == TokenCost - t
             step == KeyRate * SecondTicks
  <2>1. need \in Nat /\ step \in Nat /\ step > 0
    BY <1>2, <1>6
  <2>2. n = (need + step - 1) \div step
    BY <1>2 DEF RetryAfter
  <2> HIDE DEF need, step, n
  <2>3. n \in Nat /\ n * step >= need
    BY <2>1, <2>2, RoundsUp
  <2>4. QED
    BY <2>3 DEF need, step
<1> HIDE DEF t, n
<1>8. (n * SecondTicks) * KeyRate = n * (KeyRate * SecondTicks) /\ n * SecondTicks \in Nat
  BY <1>7
<1>9. promised'[k] - time = n * SecondTicks
  BY <1>1, <1>4, <1>8
<1>10. t + (promised'[k] - time) * KeyRate >= TokenCost
  BY <1>2, <1>7, <1>8, <1>9
<1>11. promised'[k] \in Nat /\ promised'[k] >= time
  BY <1>1, <1>4, <1>8
<1>12. admitted[k] * TokenCost + t <= KeyBurst + (time - watched) * KeyRate
  BY <1>1 DEF KeySound, t
<1>13. QED
  BY <1>1, <1>2, <1>4, <1>5, <1>10, <1>11, <1>12 DEF KeySound, Bucket

\* The key that is admitted.
LEMMA AdmittedKey ==
    ASSUME LimiterInv, NEW k \in Keys, KeyAdmits(k)
    PROVE  KeySound(k)'
<1> USE Constants
<1> DEFINE t == KeyTokens(k)
<1>1. KeySound(k) /\ time \in Nat /\ buckets \in [Keys -> Bucket] /\ admitted \in [Keys -> Nat]
      /\ promised \in [Keys -> Nat \cup {Never}]
  BY InParts DEF GlobalSound
<1>2. KeyBucket(k) = [live |-> TRUE, tokens |-> t, fill |-> time] /\ t \in Nat /\ t <= KeyBurst
  BY KeyBucketIs DEF LimiterInv
<1>3. Kept \in [Keys -> Bucket]
  BY <1>1 DEF Kept, NoBucket, Bucket
<1>4. t >= TokenCost /\ Taken(KeyBucket(k)) = [live |-> TRUE, tokens |-> t - TokenCost, fill |-> time]
  <2>1. t >= TokenCost
    BY <1>2 DEF KeyAdmits, HasToken
  <2>2. QED
    BY <1>1, <1>2, <2>1, TakenIs
<1>5. /\ buckets'[k] = [live |-> TRUE, tokens |-> t - TokenCost, fill |-> time]
      /\ promised'[k] = Never
      /\ time' = time /\ watched' = watched /\ admitted'[k] = admitted[k] + 1
  BY <1>1, <1>3, <1>4 DEF KeyAdmits
<1>6. KeyTokens(k)' = t - TokenCost
  BY <1>2, <1>4, <1>5, UsedTokens DEF LimiterInv
<1>7. admitted[k] * TokenCost + t <= KeyBurst + (time - watched) * KeyRate
  BY <1>1 DEF KeySound, t
<1> HIDE DEF t
<1>8. (admitted[k] + 1) * TokenCost = admitted[k] * TokenCost + TokenCost /\ admitted[k] * TokenCost \in Nat
  BY <1>1
<1>9. admitted'[k] * TokenCost + KeyTokens(k)' <= KeyBurst + (time - watched) * KeyRate
  BY <1>2, <1>5, <1>6, <1>7, <1>8
<1>10. QED
  BY <1>1, <1>2, <1>4, <1>5, <1>9 DEF KeySound, Bucket, Never

\* All keys, after a call.
LEMMA KeysAfterCall ==
    ASSUME LimiterInv, time' = time, watched' = watched,
           \/ buckets' = Kept /\ UNCHANGED <<admitted, promised>>
           \/ \E k \in Keys : KeyRefuses(k) \/ KeyAdmits(k)
    PROVE  /\ buckets' \in [Keys -> Bucket]
           /\ admitted' \in [Keys -> Nat]
           /\ promised' \in [Keys -> Nat \cup {Never}]
           /\ \A k \in Keys : KeySound(k)'
<1>1. /\ buckets \in [Keys -> Bucket] /\ admitted \in [Keys -> Nat]
      /\ promised \in [Keys -> Nat \cup {Never}] /\ Kept \in [Keys -> Bucket]
  BY InParts DEF Kept, NoBucket, Bucket
<1>2. CASE buckets' = Kept /\ UNCHANGED <<admitted, promised>>
  BY <1>1, <1>2, OtherKey
<1>3. ASSUME NEW k \in Keys, KeyRefuses(k) \/ KeyAdmits(k)
      PROVE  /\ buckets' \in [Keys -> Bucket]
             /\ admitted' \in [Keys -> Nat]
             /\ promised' \in [Keys -> Nat \cup {Never}]
             /\ \A j \in Keys : KeySound(j)'
  <2>1. KeySound(k)'
    BY <1>3, RefusedKey, AdmittedKey
  <2>2. /\ DOMAIN buckets' = Keys /\ DOMAIN admitted' = Keys /\ DOMAIN promised' = Keys
        /\ \A j \in Keys \ {k} : buckets'[j] = Kept[j] /\ admitted'[j] = admitted[j] /\ promised'[j] = promised[j]
    BY <1>1, <1>3 DEF KeyRefuses, KeyAdmits
  <2>3. \A j \in Keys \ {k} : KeySound(j)'
    BY <2>2, OtherKey
  <2>4. \A j \in Keys : KeySound(j)'
    BY <2>1, <2>3
  <2>5. \A j \in Keys : buckets'[j] \in Bucket /\ admitted'[j] \in Nat /\ promised'[j] \in Nat \cup {Never}
    BY <2>4 DEF KeySound
  <2>6. buckets' = [j \in Keys |-> buckets'[j]] /\ admitted' = [j \in Keys |-> admitted'[j]]
        /\ promised' = [j \in Keys |-> promised'[j]]
    <3>1. CASE KeyRefuses(k)
      BY <1>1, <3>1 DEF KeyRefuses
    <3>2. CASE KeyAdmits(k)
      BY <1>1, <3>2 DEF KeyAdmits
    <3>3. QED
      BY <1>3, <3>1, <3>2
  <2>7. QED
    BY <2>4, <2>5, <2>6
<1>4. QED
  BY <1>2, <1>3

-----------------------------------------------------------------------------
(* The global side of a step *)

\* The global bucket right after it was used.
LEMMA GlobalJustUsed ==
    ASSUME NEW t \in Nat, t <= GlobalBurst, time \in Nat, time' = time,
           global' = [live |-> TRUE, tokens |-> t, fill |-> time]
    PROVE  /\ GlobalBucket'.tokens = t
           /\ global' \in Bucket /\ global'.tokens = t /\ global'.fill = time
<1>1. (time - time) * GlobalRate = 0
  BY Constants
<1>2. QED
  BY <1>1, Constants DEF GlobalBucket, Refilled, Least, Bucket

\* The global bucket as a record.
LEMMA GlobalRecord ==
    ASSUME LimiterInv
    PROVE  /\ GlobalBucket = [live |-> TRUE, tokens |-> GlobalBucket.tokens, fill |-> time]
           /\ GlobalBucket.tokens \in Nat
           /\ GlobalBucket.tokens <= GlobalBurst
           /\ GlobalBucket.tokens + lifetime * TokenCost >= GlobalBurst
<1>1. GlobalBucket = [live |-> TRUE, tokens |-> GlobalBucket.tokens, fill |-> time]
  BY DEF GlobalBucket, Refilled
<1>2. /\ GlobalBucket.tokens \in Nat /\ GlobalBucket.tokens <= GlobalBurst
      /\ GlobalBucket.tokens >= Least(GlobalBurst, global.tokens)
  BY GlobalBucketIs DEF LimiterInv
<1>3. global.tokens \in Nat /\ lifetime \in Nat /\ global.tokens + lifetime * TokenCost >= GlobalBurst
  BY DEF LimiterInv, LimiterTypeOK, Bucket, RejectionsAreFree
<1>4. lifetime * TokenCost \in Nat
  BY <1>3, Constants
<1>5. QED
  BY <1>1, <1>2, <1>3, <1>4, Constants DEF Least

\* Refilled only, or refunded.
LEMMA GlobalRefilled ==
    ASSUME LimiterInv, global' = GlobalBucket, MaybeClean,
           UNCHANGED <<time, total, watched, lifetime>>
    PROVE  GlobalSound'
<1> DEFINE g == GlobalBucket.tokens
<1>1. GlobalSound
  BY InParts
<1>2. g \in Nat /\ g <= GlobalBurst /\ g + lifetime * TokenCost >= GlobalBurst
      /\ global' = [live |-> TRUE, tokens |-> g, fill |-> time]
  BY GlobalRecord
<1>3. total * TokenCost + g <= GlobalBurst + (time - watched) * GlobalRate
  BY <1>1 DEF GlobalSound
<1> HIDE DEF g
<1>4. GlobalBucket'.tokens = g /\ global' \in Bucket /\ global'.tokens = g /\ global'.fill = time
  BY <1>1, <1>2, GlobalJustUsed DEF GlobalSound
<1>5. lastClean' \in Nat
  BY <1>1 DEF GlobalSound, MaybeClean
<1>6. QED
  BY <1>1, <1>2, <1>3, <1>4, <1>5 DEF GlobalSound, RejectionsAreFree

\* A token is taken.
LEMMA GlobalTaken ==
    ASSUME LimiterInv, HasToken(GlobalBucket), global' = Taken(GlobalBucket), MaybeClean,
           total' = total + 1, lifetime' = lifetime + 1, UNCHANGED <<time, watched>>
    PROVE  GlobalSound'
<1> USE Constants
<1> DEFINE g == GlobalBucket.tokens
<1>1. GlobalSound
  BY InParts
<1>2. g \in Nat /\ g <= GlobalBurst /\ g + lifetime * TokenCost >= GlobalBurst
      /\ GlobalBucket = [live |-> TRUE, tokens |-> g, fill |-> time]
  BY GlobalRecord
<1>3. total * TokenCost + g <= GlobalBurst + (time - watched) * GlobalRate
  BY <1>1 DEF GlobalSound
<1>4. g >= TokenCost
  BY DEF HasToken
<1>5. global' = [live |-> TRUE, tokens |-> g - TokenCost, fill |-> time]
  BY <1>1, <1>2, TakenIs DEF GlobalSound
<1> HIDE DEF g
<1>6. g - TokenCost \in Nat /\ g - TokenCost <= GlobalBurst
  BY <1>2, <1>4
<1>7. /\ GlobalBucket'.tokens = g - TokenCost /\ global' \in Bucket
      /\ global'.tokens = g - TokenCost /\ global'.fill = time
  BY <1>1, <1>5, <1>6, GlobalJustUsed DEF GlobalSound
<1>8. lastClean' \in Nat
  BY <1>1 DEF GlobalSound, MaybeClean
<1>9. /\ total \in Nat /\ lifetime \in Nat
      /\ (total + 1) * TokenCost = total * TokenCost + TokenCost /\ total * TokenCost \in Nat
      /\ (lifetime + 1) * TokenCost = lifetime * TokenCost + TokenCost /\ lifetime * TokenCost \in Nat
  BY <1>1 DEF GlobalSound
<1>10. total' * TokenCost + GlobalBucket'.tokens <= GlobalBurst + (time - watched) * GlobalRate
  BY <1>2, <1>3, <1>7, <1>9
<1>11. global'.tokens + lifetime' * TokenCost >= GlobalBurst
  BY <1>2, <1>7, <1>9
<1>12. RejectionsAreFree'
  BY <1>11 DEF RejectionsAreFree
<1>13. global'.tokens <= GlobalBurst /\ global'.fill <= time /\ total' \in Nat /\ lifetime' \in Nat
  BY <1>1, <1>6, <1>7, <1>9 DEF GlobalSound
<1>14. QED
  BY <1>1, <1>7, <1>8, <1>10, <1>12, <1>13 DEF GlobalSound

\* The global bucket is left alone.
LEMMA GlobalUntouched ==
    ASSUME LimiterInv, MaybeClean, UNCHANGED <<global, total, lifetime, time, watched>>
    PROVE  GlobalSound'
<1>1. GlobalSound
  BY InParts
<1>2. lastClean' \in Nat
  BY <1>1 DEF GlobalSound, MaybeClean
<1>3. GlobalBucket' = GlobalBucket
  BY DEF GlobalBucket, Refilled
<1>4. QED
  BY <1>1, <1>2, <1>3 DEF GlobalSound, RejectionsAreFree

-----------------------------------------------------------------------------
(* Time passes, and somebody starts counting *)

LEMMA KeyTicks ==
    ASSUME LimiterInv, LimiterTick, NEW k \in Keys
    PROVE  KeySound(k)'
<1> USE Constants
<1> DEFINE b == buckets[k]
           d == time - b.fill
           e == (time - watched) * KeyRate
<1>1. KeySound(k) /\ time \in Nat /\ watched \in Nat /\ watched <= time
  BY InParts DEF GlobalSound
<1>2. d \in Nat /\ b.tokens \in Nat /\ b \in Bucket
  BY <1>1 DEF KeySound, Bucket
<1>3. buckets'[k] = b /\ time' = time + 1 /\ watched' = watched /\ admitted'[k] = admitted[k]
      /\ promised'[k] = promised[k]
  BY DEF LimiterTick
<1>4. time' - b.fill = d + 1
  BY <1>1, <1>2, <1>3 DEF Bucket
<1>5. KeyTokens(k) = IF b.live THEN Least(KeyBurst, b.tokens + d * KeyRate) ELSE KeyBurst
  BY DEF KeyTokens
<1>6. KeyTokens(k)' = IF b.live THEN Least(KeyBurst, b.tokens + (d + 1) * KeyRate) ELSE KeyBurst
  BY <1>3, <1>4 DEF KeyTokens
<1>7. KeyTokens(k) \in Nat
  BY KeyBucketIs DEF LimiterInv
<1>8. (time' - watched') * KeyRate = e + KeyRate /\ e \in Nat
  BY <1>1, <1>3
<1>9. admitted[k] \in Nat /\ admitted[k] * TokenCost \in Nat
      /\ admitted[k] * TokenCost + KeyTokens(k) <= KeyBurst + e
  BY <1>1 DEF KeySound
<1> HIDE DEF d, e
<1>10. d * KeyRate \in Nat /\ (d + 1) * KeyRate = d * KeyRate + KeyRate
  BY <1>2
<1>11. KeyTokens(k)' <= KeyTokens(k) + KeyRate /\ KeyTokens(k)' \in Nat
  <2>1. CASE b.live
    BY <2>1, <1>2, <1>5, <1>6, <1>10, DripsOnce DEF Least
  <2>2. CASE ~b.live
    BY <2>2, <1>5, <1>6
  <2>3. QED
    BY <2>1, <2>2
<1>12. admitted'[k] * TokenCost + KeyTokens(k)' <= KeyBurst + (time' - watched') * KeyRate
  BY <1>3, <1>7, <1>8, <1>9, <1>11
<1>13. buckets'[k].fill <= time'
  BY <1>1, <1>2, <1>3 DEF KeySound, Bucket
<1>14. QED
  BY <1>1, <1>3, <1>12, <1>13 DEF KeySound

LEMMA GlobalTicks ==
    ASSUME LimiterInv, LimiterTick
    PROVE  GlobalSound'
<1> USE Constants
<1> DEFINE d == time - global.fill
           e == (time - watched) * GlobalRate
<1>1. GlobalSound
  BY InParts
<1>2. /\ time \in Nat /\ watched \in Nat /\ watched <= time /\ total \in Nat
      /\ d \in Nat /\ global.tokens \in Nat /\ global.fill \in Nat
  BY <1>1 DEF GlobalSound, Bucket
<1>3. time' = time + 1 /\ UNCHANGED <<global, lastClean, total, watched, lifetime>>
  BY DEF LimiterTick
<1>4. time' - global.fill = d + 1
  BY <1>2, <1>3
<1>5. GlobalBucket.tokens = Least(GlobalBurst, global.tokens + d * GlobalRate)
  BY DEF GlobalBucket, Refilled
<1>6. GlobalBucket'.tokens = Least(GlobalBurst, global.tokens + (d + 1) * GlobalRate)
  BY <1>3, <1>4 DEF GlobalBucket, Refilled
<1>7. (time' - watched') * GlobalRate = e + GlobalRate /\ e \in Nat
  BY <1>2, <1>3
<1>8. total * TokenCost \in Nat /\ total * TokenCost + GlobalBucket.tokens <= GlobalBurst + e
  BY <1>1, <1>2 DEF GlobalSound
<1> HIDE DEF d, e
<1>9. d * GlobalRate \in Nat /\ (d + 1) * GlobalRate = d * GlobalRate + GlobalRate
  BY <1>2
<1>10. GlobalBucket'.tokens <= GlobalBucket.tokens + GlobalRate
       /\ GlobalBucket'.tokens \in Nat /\ GlobalBucket.tokens \in Nat
  BY <1>2, <1>5, <1>6, <1>9 DEF Least
<1>11. total' * TokenCost + GlobalBucket'.tokens <= GlobalBurst + (time' - watched') * GlobalRate
  BY <1>3, <1>7, <1>8, <1>10
<1>12. RejectionsAreFree'
  BY <1>1, <1>3 DEF GlobalSound, RejectionsAreFree
<1>13. QED
  BY <1>1, <1>2, <1>3, <1>11, <1>12 DEF GlobalSound

LEMMA WatchIsSound ==
    ASSUME LimiterInv, Watch
    PROVE  GlobalSound' /\ \A k \in Keys : KeySound(k)'
<1> USE Constants
<1>1. GlobalSound /\ time \in Nat
  BY InParts DEF GlobalSound
<1>2. (time - time) * GlobalRate = 0 /\ (time - time) * KeyRate = 0 /\ 0 * TokenCost = 0
  BY <1>1
<1>3. GlobalBucket' = GlobalBucket /\ GlobalBucket.tokens \in Nat /\ GlobalBucket.tokens <= GlobalBurst
  BY GlobalRecord DEF GlobalBucket, Refilled, Watch
<1>4. GlobalSound'
  <2>1. RejectionsAreFree'
    BY <1>1 DEF GlobalSound, RejectionsAreFree, Watch
  <2>2. total' * TokenCost + GlobalBucket'.tokens <= GlobalBurst + (time' - watched') * GlobalRate
    BY <1>2, <1>3 DEF Watch
  <2>3. QED
    BY <1>1, <2>1, <2>2 DEF GlobalSound, Watch
<1>5. ASSUME NEW k \in Keys
      PROVE  KeySound(k)'
  <2>1. KeySound(k)
    BY InParts
  <2>2. KeyTokens(k)' = KeyTokens(k) /\ KeyTokens(k) \in Nat /\ KeyTokens(k) <= KeyBurst
    BY KeyBucketIs DEF KeyTokens, Watch, LimiterInv
  <2>3. admitted'[k] = 0
    BY DEF Watch
  <2>4. admitted'[k] * TokenCost + KeyTokens(k)' <= KeyBurst + (time' - watched') * KeyRate
    BY <1>2, <2>2, <2>3 DEF Watch
  <2>5. QED
    BY <2>1, <2>3, <2>4 DEF KeySound, Watch
<1>6. QED
  BY <1>4, <1>5

-----------------------------------------------------------------------------
(* The invariant *)

LEMMA LimiterInvInit == LimiterInit => LimiterInv
<1> SUFFICES ASSUME LimiterInit
             PROVE  LimiterInv
  OBVIOUS
<1> USE Constants
<1>1. /\ time = 0 /\ watched = 0 /\ total = 0 /\ lifetime = 0 /\ lastClean = 0
      /\ global = [live |-> TRUE, tokens |-> GlobalBurst, fill |-> 0]
      /\ buckets = [k \in Keys |-> NoBucket] /\ admitted = [k \in Keys |-> 0]
      /\ promised = [k \in Keys |-> Never]
  BY DEF LimiterInit, Full
<1>2. 0 * GlobalRate = 0 /\ 0 * KeyRate = 0 /\ 0 * TokenCost = 0
  OBVIOUS
<1>3. NoBucket \in Bucket /\ NoBucket.tokens = 0 /\ NoBucket.fill = 0 /\ ~NoBucket.live
  BY DEF NoBucket, Bucket
<1>4. GlobalBucket.tokens = GlobalBurst
  BY <1>1, <1>2 DEF GlobalBucket, Refilled, Least
<1>5. global \in Bucket /\ global.tokens = GlobalBurst /\ global.fill = 0
  BY <1>1 DEF Bucket
<1>6. GlobalSound
  BY <1>1, <1>2, <1>4, <1>5 DEF GlobalSound, RejectionsAreFree
<1>7. ASSUME NEW k \in Keys
      PROVE  KeySound(k)
  <2>1. KeyTokens(k) = KeyBurst
    BY <1>1, <1>3 DEF KeyTokens
  <2>2. QED
    BY <1>1, <1>2, <1>3, <2>1 DEF KeySound
<1>8. QED
  BY <1>1, <1>3, <1>6, <1>7, InParts

LEMMA LimiterInvStep == LimiterInv /\ [LimiterNext]_limiterVars => LimiterInv'
<1> SUFFICES ASSUME LimiterInv, [LimiterNext]_limiterVars
             PROVE  LimiterInv'
  OBVIOUS
<1>1. SUFFICES /\ buckets' \in [Keys -> Bucket]
               /\ admitted' \in [Keys -> Nat]
               /\ promised' \in [Keys -> Nat \cup {Never}]
               /\ GlobalSound'
               /\ \A k \in Keys : KeySound(k)'
  BY DEF LimiterInv, LimiterTypeOK, BucketsAreBounded, TokensAreConserved, PromisesCanBeKept,
         GlobalSound, KeySound
<1>2. /\ buckets \in [Keys -> Bucket] /\ admitted \in [Keys -> Nat]
      /\ promised \in [Keys -> Nat \cup {Never}]
      /\ GlobalSound /\ \A k \in Keys : KeySound(k)
  BY InParts
<1>3. CASE RefuseAll
  BY <1>3, KeysAfterCall, GlobalRefilled DEF RefuseAll
<1>4. ASSUME NEW k \in Keys, RefuseKey(k)
      PROVE  <1>1!1
  <2>1. global' = GlobalBucket
    BY <1>4, RefundIsExact DEF RefuseKey, LimiterInv
  <2>2. GlobalSound'
    BY <1>4, <2>1, GlobalRefilled DEF RefuseKey, KeyRefuses
  <2>3. QED
    BY <1>4, <2>2, KeysAfterCall DEF RefuseKey, KeyRefuses
<1>5. ASSUME NEW k \in Keys, Allow(k)
      PROVE  <1>1!1
  <2>1. GlobalSound'
    BY <1>5, GlobalTaken DEF Allow, KeyAdmits
  <2>2. QED
    BY <1>5, <2>1, KeysAfterCall DEF Allow, KeyAdmits
<1>6. ASSUME NEW k \in Keys, AllowKey(k)
      PROVE  <1>1!1
  <2>1. GlobalSound'
    BY <1>6, GlobalUntouched DEF AllowKey, KeyAdmits, KeyRefuses
  <2>2. time' = time /\ watched' = watched /\ (KeyRefuses(k) \/ KeyAdmits(k))
    BY <1>6 DEF AllowKey, KeyAdmits, KeyRefuses
  <2>3. QED
    BY <2>1, <2>2, KeysAfterCall
<1>7. CASE AllowUnkeyed
  BY <1>7, KeysAfterCall, GlobalTaken DEF AllowUnkeyed
<1>8. CASE Watch
  BY <1>2, <1>8, WatchIsSound DEF Watch
<1>9. CASE LimiterTick
  BY <1>2, <1>9, KeyTicks, GlobalTicks DEF LimiterTick
<1>10. CASE UNCHANGED limiterVars
  <2>1. UNCHANGED <<time, buckets, global, lastClean, admitted, total, watched, lifetime, promised>>
    BY <1>10 DEF limiterVars
  <2>2. GlobalSound'
    BY <1>2, <2>1 DEF GlobalSound, GlobalBucket, Refilled, RejectionsAreFree
  <2>3. \A k \in Keys : KeySound(k)'
    BY <1>2, <2>1 DEF KeySound, KeyTokens
  <2>4. QED
    BY <1>2, <2>1, <2>2, <2>3
<1>11. QED
  BY <1>3, <1>4, <1>5, <1>6, <1>7, <1>8, <1>9, <1>10 DEF LimiterNext

LEMMA LimiterInvHolds == LimiterSpec => []LimiterInv
BY LimiterInvInit, LimiterInvStep, PTL DEF LimiterSpec

-----------------------------------------------------------------------------
(* Theorems *)

\* Tokens a bucket holds are never negative, so what was taken is within bounds.
LEMMA InvBoundsAdmissions == LimiterInv => AdmissionsAreBounded
<1> SUFFICES ASSUME LimiterInv
             PROVE  AdmissionsAreBounded
  OBVIOUS
<1>1. GlobalBucket.tokens \in Nat /\ \A k \in Keys : KeyTokens(k) \in Nat
  BY GlobalRecord, KeyBucketIs DEF LimiterInv
<1>2. /\ time \in Nat /\ watched \in Nat /\ watched <= time /\ total \in Nat
      /\ admitted \in [Keys -> Nat]
  BY DEF LimiterInv, LimiterTypeOK, BucketsAreBounded
<1>3. total * TokenCost <= GlobalBurst + (time - watched) * GlobalRate
  <2> DEFINE x == total * TokenCost
             y == (time - watched) * GlobalRate
  <2>1. x \in Nat /\ y \in Nat /\ x + GlobalBucket.tokens <= GlobalBurst + y
    BY <1>2, Constants DEF LimiterInv, TokensAreConserved
  <2> HIDE DEF x, y
  <2>2. x <= GlobalBurst + y
    BY <1>1, <2>1, Constants
  <2>3. QED
    BY <2>2 DEF x, y
<1>4. ASSUME NEW k \in Keys
      PROVE  admitted[k] * TokenCost <= KeyBurst + (time - watched) * KeyRate
  <2> DEFINE x == admitted[k] * TokenCost
             y == (time - watched) * KeyRate
  <2>1. x \in Nat /\ y \in Nat /\ x + KeyTokens(k) <= KeyBurst + y
    BY <1>2, Constants DEF LimiterInv, TokensAreConserved
  <2> HIDE DEF x, y
  <2>2. x <= KeyBurst + y
    BY <1>1, <2>1, Constants
  <2>3. QED
    BY <2>2 DEF x, y
<1>5. QED
  BY <1>3, <1>4 DEF AdmissionsAreBounded

\* Once the time promised has come, the bucket holds a token or was evicted and
\* is full.
LEMMA InvKeepsPromises == LimiterInv => RetryAfterIsHonest
<1> SUFFICES ASSUME LimiterInv, NEW k \in Keys, promised[k] # Never, time >= promised[k]
             PROVE  HasToken(KeyBucket(k))
  BY DEF RetryAfterIsHonest
<1> USE Constants
<1> DEFINE b == buckets[k]
           d == time - b.fill
           w == promised[k] - b.fill
<1>1. /\ time \in Nat /\ b \in Bucket /\ b.tokens \in Nat /\ b.fill \in Nat /\ promised[k] \in Nat
      /\ b.fill <= time
  BY DEF LimiterInv, LimiterTypeOK, BucketsAreBounded, Bucket
<1>2. KeyBucket(k).tokens = KeyTokens(k)
  BY KeyBucketIs DEF LimiterInv
<1>3. KeyTokens(k) = IF b.live THEN Least(KeyBurst, b.tokens + d * KeyRate) ELSE KeyBurst
  BY DEF KeyTokens
<1>4. CASE ~b.live
  BY <1>2, <1>3, <1>4 DEF HasToken
<1>5. CASE b.live
  <2>1. w \in Nat /\ b.tokens + w * KeyRate >= TokenCost
    BY <1>1, <1>5 DEF LimiterInv, PromisesCanBeKept
  <2>2. d \in Nat /\ w <= d
    BY <1>1
  <2> HIDE DEF w, d
  <2>3. w * KeyRate <= d * KeyRate /\ w * KeyRate \in Nat /\ d * KeyRate \in Nat
    BY <2>1, <2>2, TimesMonotone, TimesNat
  <2>4. KeyTokens(k) >= TokenCost
    BY <1>1, <1>3, <1>5, <2>1, <2>3 DEF Least
  <2>5. QED
    BY <1>2, <2>4 DEF HasToken
<1>6. QED
  BY <1>4, <1>5

\* For any keys, rates, bursts and eviction delay that meet the assumptions, from
\* every instant the limiter admits at most a burst and what the rate allows
\* since, for a key and for everybody together (Allow, AllowKey, maybeClean).
THEOREM AdmissionsStayBounded == LimiterSpec => []AdmissionsAreBounded
BY LimiterInvHolds, InvBoundsAdmissions, PTL

\* Refused requests cost the global bucket nothing, whoever sends them (refund).
THEOREM RefusalsCostNothing == LimiterSpec => []RejectionsAreFree
<1>1. LimiterInv => RejectionsAreFree
  BY DEF LimiterInv
<1>2. QED
  BY <1>1, LimiterInvHolds, PTL

\* A key that waits for the Retry-After it was given is never short of a token of
\* its own, evicted meanwhile or not (retryAfter, maybeClean).
THEOREM RetryAfterSuffices == LimiterSpec => []RetryAfterIsHonest
BY LimiterInvHolds, InvKeepsPromises, PTL
=============================================================================
