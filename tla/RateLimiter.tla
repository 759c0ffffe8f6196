---------------------------- MODULE RateLimiter ----------------------------
(***************************************************************************)
(* The in-memory token buckets: one per key and a global one, filled       *)
(* lazily when they are used.  Every method holds the limiter's mutex, so  *)
(* each is one action.  Buckets nobody used for a while are evicted, and a *)
(* key that comes back starts with a full one.                             *)
(*                                                                         *)
(* Tokens are counted in fractions, TokenCost of which make one token, so  *)
(* that the rates are whole numbers of fractions per tick.                 *)
(***************************************************************************)
EXTENDS Integers

CONSTANTS
    Keys,          \* client addresses or agents
    TokenCost,     \* fractions that make one token
    KeyRate,       \* perKeyRate, in fractions per tick
    KeyBurst,      \* perKeyBurst, in fractions
    GlobalRate,
    GlobalBurst,
    StaleAfter,    \* ticks
    SecondTicks,   \* ticks in a second
    Horizon        \* bound: the last instant

ASSUME LimiterAssumption ==
    /\ {KeyBurst, GlobalRate, GlobalBurst, StaleAfter, Horizon} \subseteq Nat
    /\ {TokenCost, KeyRate, SecondTicks} \subseteq Nat \ {0}
    /\ KeyBurst >= TokenCost /\ GlobalBurst >= TokenCost
\* A bucket is full again before it is evicted: true of the defaults, 600 s
\* against the 240 s of the auth limiter (2 a minute, burst 8) and 20 s or less
\* of the others, and of any burst up to 600 times the rate.
ASSUME StaleAssumption == KeyRate * StaleAfter >= KeyBurst

VARIABLES
    time,
    buckets,     \* per key; live says whether the map has the key
    global,
    lastClean,
    admitted,    \* requests of each key admitted since the instant watched
    total,       \* requests Allow has admitted, likewise
    watched,     \* an arbitrary instant from which admissions are counted
    lifetime,    \* requests Allow has admitted since the process started
    promised     \* when each key was last told to come back

limiterVars == <<time, buckets, global, lastClean, admitted, total, watched, lifetime, promised>>

Bucket == [live : BOOLEAN, tokens : Nat, fill : Nat]
Never == -1

LimiterTypeOK ==
    /\ time \in Nat
    /\ buckets \in [Keys -> Bucket]
    /\ global \in Bucket
    /\ lastClean \in Nat
    /\ admitted \in [Keys -> Nat]
    /\ {total, watched, lifetime} \subseteq Nat
    /\ promised \in [Keys -> Nat \cup {Never}]

Full(burst) == [live |-> TRUE, tokens |-> burst, fill |-> time]
NoBucket == [live |-> FALSE, tokens |-> 0, fill |-> 0]

LimiterInit ==
    /\ time = 0
    /\ buckets = [k \in Keys |-> NoBucket]
    /\ global = Full(GlobalBurst)
    /\ lastClean = 0
    /\ admitted = [k \in Keys |-> 0]
    /\ total = 0
    /\ watched = 0
    /\ lifetime = 0
    /\ promised = [k \in Keys |-> Never]

-----------------------------------------------------------------------------
(* Buckets *)

Least(a, b) == IF a < b THEN a ELSE b

\* refill
Refilled(b, rate, burst) ==
    [live |-> TRUE, tokens |-> Least(burst, b.tokens + (time - b.fill) * rate), fill |-> time]

\* allow, once refilled
HasToken(b) == b.tokens >= TokenCost
Taken(b) == [b EXCEPT !.tokens = @ - TokenCost]

\* Mutant: the global token of a rejected request is lost.
RefundedNever(b) == b

\* refund
Refunded(b) == IF b.tokens < GlobalBurst THEN [b EXCEPT !.tokens = @ + TokenCost] ELSE b

\* Mutant: a bucket is evicted as soon as a cleanup finds it untouched.
EvictedEarly == {k \in Keys : 2 * (time - lastClean) >= StaleAfter /\ buckets[k].fill < time}

\* What maybeClean deletes.
Evicted == {k \in Keys : 2 * (time - lastClean) >= StaleAfter /\ buckets[k].fill < time - StaleAfter}

MaybeClean == lastClean' = IF 2 * (time - lastClean) >= StaleAfter THEN time ELSE lastClean

Kept == [k \in Keys |-> IF k \in Evicted THEN NoBucket ELSE buckets[k]]

\* The bucket of key k, made if need be, and the global one, as a call finds them.
KeyBucket(k) ==
    Refilled(IF Kept[k].live THEN Kept[k] ELSE Full(KeyBurst), KeyRate, KeyBurst)
GlobalBucket == Refilled(global, GlobalRate, GlobalBurst)

\* Mutant: the seconds are rounded down.
RetryAfterFloor(b) == (TokenCost - b.tokens) \div (KeyRate * SecondTicks)

\* retryAfter of a key's bucket that has no token: the deficit over the rate,
\* rounded up to whole seconds.
RetryAfter(b) ==
    (TokenCost - b.tokens + KeyRate * SecondTicks - 1) \div (KeyRate * SecondTicks)

-----------------------------------------------------------------------------
(* Allow, of the address middleware *)

\* The global bucket refuses, whatever the key.
RefuseAll ==
    /\ ~HasToken(GlobalBucket)
    /\ global' = GlobalBucket
    /\ buckets' = Kept
    /\ MaybeClean
    /\ UNCHANGED <<time, admitted, total, watched, lifetime, promised>>

\* What a refusal and an admission by the key's bucket leave behind.
KeyRefuses(k) ==
    /\ ~HasToken(KeyBucket(k))
    /\ buckets' = [Kept EXCEPT ![k] = KeyBucket(k)]
    /\ promised' = [promised EXCEPT ![k] = time + RetryAfter(KeyBucket(k)) * SecondTicks]
    /\ MaybeClean
    /\ UNCHANGED <<time, admitted, total, watched, lifetime>>

KeyAdmits(k) ==
    /\ HasToken(KeyBucket(k))
    /\ buckets' = [Kept EXCEPT ![k] = Taken(KeyBucket(k))]
    /\ admitted' = [admitted EXCEPT ![k] = @ + 1]
    /\ promised' = [promised EXCEPT ![k] = Never]
    /\ MaybeClean
    /\ UNCHANGED <<time, watched>>

\* The key's bucket refuses, and the global token is given back.
RefuseKey(k) ==
    /\ HasToken(GlobalBucket)
    /\ KeyRefuses(k)
    /\ global' = Refunded(Taken(GlobalBucket))

Allow(k) ==
    /\ HasToken(GlobalBucket)
    /\ KeyAdmits(k)
    /\ global' = Taken(GlobalBucket)
    /\ total' = total + 1
    /\ lifetime' = lifetime + 1

\* A request whose address is unknown has no key: only the global bucket counts.
AllowUnkeyed ==
    /\ HasToken(GlobalBucket)
    /\ global' = Taken(GlobalBucket)
    /\ buckets' = Kept
    /\ MaybeClean
    /\ total' = total + 1
    /\ lifetime' = lifetime + 1
    /\ UNCHANGED <<time, admitted, watched, promised>>

-----------------------------------------------------------------------------
(* AllowKey, of the agent and the verification limits *)

AllowKey(k) ==
    \/ KeyRefuses(k) /\ UNCHANGED global
    \/ KeyAdmits(k) /\ UNCHANGED <<global, total, lifetime>>

-----------------------------------------------------------------------------

\* Somebody starts counting: once, at an arbitrary instant.
Watch ==
    /\ watched = 0
    /\ watched' = time
    /\ admitted' = [k \in Keys |-> 0]
    /\ total' = 0
    /\ UNCHANGED <<time, buckets, global, lastClean, lifetime, promised>>

LimiterTick ==
    /\ time < Horizon
    /\ time' = time + 1
    /\ UNCHANGED <<buckets, global, lastClean, admitted, total, watched, lifetime, promised>>

LimiterNext ==
    \/ RefuseAll
    \/ \E k \in Keys :
          \/ RefuseKey(k)
          \/ Allow(k)
          \/ AllowKey(k)
    \/ AllowUnkeyed
    \/ Watch
    \/ LimiterTick

LimiterSpec == LimiterInit /\ [][LimiterNext]_limiterVars

-----------------------------------------------------------------------------
(* Properties *)

\* From whatever instant one counts, a key is admitted at most its burst and its
\* rate since, and so is everybody together, however buckets are refilled,
\* evicted and made anew (Allow, AllowKey, maybeClean).
AdmissionsAreBounded ==
    /\ \A k \in Keys : admitted[k] * TokenCost <= KeyBurst + (time - watched) * KeyRate
    /\ total * TokenCost <= GlobalBurst + (time - watched) * GlobalRate

\* Only admitted requests use up the global bucket: a client over its own limit
\* takes nothing from the others (refund).
RejectionsAreFree == global.tokens + lifetime * TokenCost >= GlobalBurst

\* A key that waits as long as the Retry-After it was given finds a token in its
\* bucket (retryAfter).
RetryAfterIsHonest ==
    \A k \in Keys : promised[k] # Never /\ time >= promised[k] => HasToken(KeyBucket(k))

-----------------------------------------------------------------------------
(* The inductive form: tokens taken and tokens left. *)

BucketsAreBounded ==
    /\ global.tokens <= GlobalBurst /\ global.fill <= time
    /\ \A k \in Keys : buckets[k].tokens <= KeyBurst /\ buckets[k].fill <= time
    /\ watched <= time

\* What a bucket holds if it were used now.
KeyTokens(k) ==
    IF buckets[k].live THEN Least(KeyBurst, buckets[k].tokens + (time - buckets[k].fill) * KeyRate)
    ELSE KeyBurst

TokensAreConserved ==
    /\ \A k \in Keys :
          admitted[k] * TokenCost + KeyTokens(k) <= KeyBurst + (time - watched) * KeyRate
    /\ total * TokenCost + GlobalBucket.tokens <= GlobalBurst + (time - watched) * GlobalRate

\* The token a key was told to wait for will be there, unless its bucket is gone.
PromisesCanBeKept ==
    \A k \in Keys : promised[k] # Never /\ buckets[k].live =>
        /\ promised[k] >= buckets[k].fill
        /\ buckets[k].tokens + (promised[k] - buckets[k].fill) * KeyRate >= TokenCost

LimiterInv ==
    /\ LimiterTypeOK
    /\ BucketsAreBounded
    /\ TokensAreConserved
    /\ RejectionsAreFree
    /\ PromisesCanBeKept
=============================================================================
