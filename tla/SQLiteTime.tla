----------------------------- MODULE SQLiteTime -----------------------------
(***************************************************************************)
(* The two clocks the service reads.                                       *)
(*                                                                         *)
(* Timestamps are stored with sub-second precision (RFC3339Nano, or        *)
(* milliseconds from strftime).  SQL guards wrap both sides in datetime(), *)
(* which cuts them to whole seconds; Go code compares the full value with  *)
(* time.Now().  An instant is a number of ticks, TicksPerSecond of them to *)
(* a second, so the two comparisons can disagree inside one second.        *)
(***************************************************************************)
EXTENDS Integers

CONSTANT TicksPerSecond

ASSUME TicksPerSecondAssumption == TicksPerSecond \in Nat \ {0}

\* datetime(t): the whole second an instant falls in.
Datetime(t) == t \div TicksPerSecond

\* NOT (datetime(expires_at) > datetime('now')), the guard of every UPDATE.
SQLExpired(exp, now) == Datetime(exp) <= Datetime(now)

\* expires_at.Before(time.Now()), the test of every response and wake.
GoExpired(exp, now) == exp < now
=============================================================================
