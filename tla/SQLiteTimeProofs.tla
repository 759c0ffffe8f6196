-------------------------- MODULE SQLiteTimeProofs --------------------------
(* How the SQL clock and the Go clock relate. *)
EXTENDS SQLiteTime, TLAPS

\* datetime() keeps the order of instants.
LEMMA DatetimeMonotone ==
    ASSUME NEW s \in Int, NEW t \in Int, s <= t
    PROVE  Datetime(s) <= Datetime(t)
<1> DEFINE n == TicksPerSecond
<1>1. n \in Nat /\ n > 0
  BY TicksPerSecondAssumption
<1>2. /\ s \div n \in Int
      /\ t \div n \in Int
      /\ s = n * (s \div n) + (s % n)
      /\ t = n * (t \div n) + (t % n)
      /\ s % n \in 0..(n-1)
      /\ t % n \in 0..(n-1)
  BY <1>1
<1>3. SUFFICES ASSUME s \div n > t \div n PROVE FALSE
  BY <1>2 DEF Datetime
<1>4. n * (s \div n) >= n * ((t \div n) + 1)
  BY <1>1, <1>2, <1>3
<1>5. QED
  BY <1>1, <1>2, <1>4

\* datetime() returns a whole number.
LEMMA DatetimeType ==
    ASSUME NEW t \in Int
    PROVE  Datetime(t) \in Int
BY TicksPerSecondAssumption DEF Datetime

\* What a response calls expired, no UPDATE can still resolve.
LEMMA GoExpiredImpliesSQLExpired ==
    ASSUME NEW exp \in Nat, NEW now \in Nat, GoExpired(exp, now)
    PROVE  SQLExpired(exp, now)
BY DatetimeMonotone DEF GoExpired, SQLExpired

\* An approval that has expired for SQL stays expired.
LEMMA SQLExpiredStays ==
    ASSUME NEW exp \in Nat, NEW s \in Nat, NEW t \in Nat, s <= t, SQLExpired(exp, s)
    PROVE  SQLExpired(exp, t)
<1>1. Datetime(s) <= Datetime(t)
  BY DatetimeMonotone
<1>2. Datetime(s) \in Int /\ Datetime(t) \in Int /\ Datetime(exp) \in Int
  BY DatetimeType
<1>3. QED
  BY <1>1, <1>2 DEF SQLExpired
=============================================================================
