--------------------------- MODULE SignatureReplay ---------------------------
(***************************************************************************)
(* Replay protection of signed requests.                                   *)
(*                                                                         *)
(* A request is honoured if its timestamp is within the window on either   *)
(* side of the server's clock and its signature can be inserted into       *)
(* consumed_signatures.  A job deletes rows once they have expired.  The   *)
(* timestamp is checked first and the row inserted up to a database        *)
(* timeout later, so the row must outlive the window by at least that.     *)
(***************************************************************************)
EXTENDS SQLiteTime, FiniteSets

CONSTANTS
    Signatures,  \* distinct signed requests
    Stamp,       \* the timestamp each carries, in seconds
    SigWindow,   \* signatureTimestampWindow, in seconds
    SigSkew,     \* signatureReplaySkew, in seconds
    SigTimeout,  \* the deadline of the insert, in ticks
    Servers,     \* goroutines serving agents
    SigFaults,   \* failures of the environment: "limited", "insert", "crash"
    EndOfTime    \* bound: the last instant

ASSUME StampAssumption == Stamp \in [Signatures -> Int]
ASSUME SigWindowAssumption == SigWindow \in Nat /\ SigSkew \in Nat /\ SigTimeout \in Nat
ASSUME EndOfTimeAssumption == EndOfTime \in Nat
\* 60 s of skew against a deadline of 5 s.
ASSUME SkewAssumption == SigTimeout <= SigSkew * TicksPerSecond

VARIABLES
    now,       \* the server's clock
    consumed,  \* the consumed_signatures table: the signatures it holds
    server,    \* the goroutines
    honoured   \* how often each signed request got past the check

replayVars == <<now, consumed, server, honoured>>

\* verified: signature and timestamp are good; admitted: the row is inserted.
Server == [pc : {"idle"}]
    \cup [pc : {"verified"}, sig : Signatures, at : Nat]
    \cup [pc : {"admitted"}, sig : Signatures]

ReplayTypeOK ==
    /\ now \in Nat
    /\ consumed \in SUBSET Signatures
    /\ server \in [Servers -> Server]
    /\ honoured \in [Signatures -> Nat]

Free == [pc |-> "idle"]

ReplayInit ==
    /\ now = 0
    /\ consumed = {}
    /\ server = [w \in Servers |-> Free]
    /\ honoured = [s \in Signatures |-> 0]

-----------------------------------------------------------------------------

\* VerifyEd25519Signature: |now - timestamp| <= window, in whole seconds.
Fresh(s) ==
    /\ Datetime(now) - Stamp[s] <= SigWindow
    /\ Stamp[s] - Datetime(now) <= SigWindow

\* Mutant: a row is kept for the window only.
RowExpiryNoSkew(s) == Stamp[s] + SigWindow

\* expires_at of the row, as consumeSignatureOrReject computes it.
RowExpiry(s) == Stamp[s] + SigWindow + SigSkew

\* A copy of signed request s arrives and is verified.  Nothing stops the
\* network or the agent from sending it again.
Verify(w, s) ==
    /\ server[w] = Free
    /\ Fresh(s)
    /\ server' = [server EXCEPT ![w] = [pc |-> "verified", sig |-> s, at |-> now]]
    /\ UNCHANGED <<now, consumed, honoured>>

\* Mutant: an existing row is overwritten.
ConsumeAgain(w) ==
    /\ server[w].pc = "verified"
    /\ now <= server[w].at + SigTimeout
    /\ consumed' = consumed \cup {server[w].sig}
    /\ honoured' = [honoured EXCEPT ![server[w].sig] = @ + 1]
    /\ server' = [server EXCEPT ![w] = [pc |-> "admitted", sig |-> server[w].sig]]
    /\ UNCHANGED now

\* ConsumeSignature inserts the row: the request goes on.
Consume(w) ==
    /\ server[w].pc = "verified"
    /\ now <= server[w].at + SigTimeout
    /\ server[w].sig \notin consumed
    /\ consumed' = consumed \cup {server[w].sig}
    /\ honoured' = [honoured EXCEPT ![server[w].sig] = @ + 1]
    /\ server' = [server EXCEPT ![w] = [pc |-> "admitted", sig |-> server[w].sig]]
    /\ UNCHANGED now

\* The request is refused: by the rate limit, for a row that is there (401), or
\* because the insert failed or its deadline passed (500).
Refuse(w) ==
    /\ server[w].pc = "verified"
    /\ \/ "limited" \in SigFaults
       \/ server[w].sig \in consumed
       \/ "insert" \in SigFaults
       \/ now > server[w].at + SigTimeout
    /\ server' = [server EXCEPT ![w] = Free]
    /\ UNCHANGED <<now, consumed, honoured>>

\* The handler behind the check ends.
Serve(w) ==
    /\ server[w].pc = "admitted"
    /\ server' = [server EXCEPT ![w] = Free]
    /\ UNCHANGED <<now, consumed, honoured>>

\* CleanupExpiredConsumedSignatures: datetime(expires_at) < datetime('now').
Cleanup ==
    /\ consumed' = {s \in consumed : ~(RowExpiry(s) < Datetime(now))}
    /\ UNCHANGED <<now, server, honoured>>

\* The clock.
ReplayTick ==
    /\ now < EndOfTime
    /\ now' = now + 1
    /\ UNCHANGED <<consumed, server, honoured>>

\* The process restarts; the table survives.
ReplayCrash ==
    /\ "crash" \in SigFaults
    /\ server' = [w \in Servers |-> Free]
    /\ UNCHANGED <<now, consumed, honoured>>

ReplayNext ==
    \/ \E w \in Servers :
          \/ \E s \in Signatures : Verify(w, s)
          \/ Consume(w)
          \/ Refuse(w)
          \/ Serve(w)
    \/ Cleanup
    \/ ReplayTick
    \/ ReplayCrash

ReplaySpec == ReplayInit /\ [][ReplayNext]_replayVars

-----------------------------------------------------------------------------
(* Properties *)

\* A signed request is honoured at most once, ever: the cleanup job forgets a
\* signature only when no copy of it, not even one already verified and waiting
\* for the database, can be accepted (consumeSignatureOrReject).
HonouredOnce == \A s \in Signatures : honoured[s] <= 1

\* The inductive form: what is forgotten is too old to be inserted.
ForgottenIsStale ==
    \A s \in Signatures :
        /\ s \in consumed => honoured[s] = 1
        /\ s \notin consumed =>
              \/ honoured[s] = 0
              \/ honoured[s] = 1 /\ RowExpiry(s) < Datetime(now)

VerifiedWasFresh ==
    \A w \in Servers : server[w].pc = "verified" =>
        /\ server[w].at <= now
        /\ Datetime(server[w].at) - Stamp[server[w].sig] <= SigWindow
=============================================================================
