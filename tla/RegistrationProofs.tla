------------------------- MODULE RegistrationProofs -------------------------
(***************************************************************************)
(* Signed requests and registration, for any number of invites, agents,    *)
(* signed requests and goroutines, any window and any clock resolution.    *)
(*                                                                         *)
(* The replay check first, by itself.  Every step of Registration is, to   *)
(* the replay check, one of its own steps or a stutter (NextIsReplay), so  *)
(* ReplayInv carries over.  On top of it come types, the link between      *)
(* invites and agents, the truth of a count that may still be acted on,    *)
(* and the attempts a code can be guessed in.                              *)
(***************************************************************************)
EXTENDS Registration, SQLiteTimeProofs, FiniteSetTheorems

ReplayInv == ReplayTypeOK /\ ForgottenIsStale /\ VerifiedWasFresh
InviteInv == InviteAdmitsOne /\ AbsentHasNoInvite
LimitInv == InviteLimitHolds /\ CountIsTrue
RegistrationInv == TypeOK /\ TasksAreVerifications

-----------------------------------------------------------------------------
(* The replay check: a row is deleted only once its second has passed      *)
(* (ForgottenIsStale); a copy that is still waiting for the database was   *)
(* fresh when it was verified (VerifiedWasFresh), at most a deadline ago.  *)
(* So what may still be inserted is not yet forgotten, as long as rows are *)
(* kept longer than the insert's deadline (SkewAssumption).                *)

\* k seconds later datetime() is k larger.
LEMMA DatetimeShift ==
    ASSUME NEW t \in Nat, NEW k \in Nat
    PROVE  Datetime(t + k * TicksPerSecond) = Datetime(t) + k
<1> DEFINE n == TicksPerSecond
           q == t \div n
           u == t + k * n
<1>1. n \in Nat /\ n > 0
  BY TicksPerSecondAssumption
<1>2. /\ q \in Int
      /\ t = n * q + (t % n)
      /\ t % n \in 0..(n-1)
  BY <1>1
<1>3. u \in Nat /\ u \div n \in Int /\ u = n * (u \div n) + (u % n) /\ u % n \in 0..(n-1)
  BY <1>1
<1>4. u = n * (q + k) + (t % n)
  BY <1>1, <1>2
<1>5. n * ((u \div n) - (q + k)) = (t % n) - (u % n)
  BY <1>1, <1>2, <1>3, <1>4
<1>6. u \div n = q + k
  <2> DEFINE d == (u \div n) - (q + k)
  <2>1. d \in Int /\ n * d < n /\ n * d > -n
    BY <1>1, <1>2, <1>3, <1>5
  <2>2. CASE d >= 1
    <3>1. n * d >= n
      BY <1>1, <2>1, <2>2
    <3>2. QED
      BY <3>1, <2>1, <1>1
  <2>3. CASE d <= -1
    <3>1. n * d <= -n
      BY <1>1, <2>1, <2>3
    <3>2. QED
      BY <3>1, <2>1, <1>1
  <2>4. CASE d = 0
    BY <2>4, <1>2, <1>3
  <2>5. QED
    BY <2>1, <2>2, <2>3, <2>4
<1>7. QED
  BY <1>6 DEF Datetime

\* A row that may still be inserted has not expired: the skew outlasts the
\* deadline of the insert.
LEMMA InsertedInTime ==
    ASSUME ReplayInv, NEW w \in Servers, server[w].pc = "verified",
           now <= server[w].at + SigTimeout
    PROVE  ~(RowExpiry(server[w].sig) < Datetime(now))
<1> DEFINE s == server[w].sig
           at == server[w].at
<1>1. s \in Signatures /\ at \in Nat /\ now \in Nat /\ at <= now
  BY DEF ReplayInv, ReplayTypeOK, Server, VerifiedWasFresh
<1>2. Stamp[s] \in Int /\ SigWindow \in Nat /\ SigSkew \in Nat /\ SigTimeout \in Nat
  BY <1>1, StampAssumption, SigWindowAssumption
<1>3. Datetime(at) - Stamp[s] <= SigWindow
  BY DEF ReplayInv, VerifiedWasFresh
<1>4. at + SigSkew * TicksPerSecond \in Nat /\ now <= at + SigSkew * TicksPerSecond
  BY <1>1, <1>2, SkewAssumption, TicksPerSecondAssumption
<1> HIDE DEF s, at
<1>5. Datetime(now) <= Datetime(at + SigSkew * TicksPerSecond)
  BY <1>1, <1>4, DatetimeMonotone
<1>6. Datetime(at + SigSkew * TicksPerSecond) = Datetime(at) + SigSkew
  BY <1>1, <1>2, DatetimeShift
<1>7. Datetime(now) \in Int /\ Datetime(at) \in Int
  BY <1>1, DatetimeType
<1>8. Stamp[s] + SigWindow + SigSkew >= Datetime(now)
  BY <1>2, <1>3, <1>5, <1>6, <1>7
<1>9. QED
  BY <1>2, <1>7, <1>8 DEF RowExpiry, s

LEMMA ReplayInvInit == ReplayInit => ReplayInv
BY EndOfTimeAssumption DEF ReplayInit, ReplayInv, ReplayTypeOK, ForgottenIsStale, VerifiedWasFresh, Server, Free

LEMMA ReplayInvStep == ReplayInv /\ [ReplayNext]_replayVars => ReplayInv'
<1> SUFFICES ASSUME ReplayInv, [ReplayNext]_replayVars
             PROVE  ReplayInv'
  OBVIOUS
<1> USE StampAssumption, SigWindowAssumption
<1>1. ASSUME NEW w \in Servers, NEW s \in Signatures, Verify(w, s)
      PROVE  ReplayInv'
  <2>1. now \in Nat /\ now' = now /\ consumed' = consumed /\ honoured' = honoured
    BY <1>1 DEF Verify, ReplayInv, ReplayTypeOK
  <2>2. server' \in [Servers -> Server]
    BY <1>1, <2>1 DEF Verify, ReplayInv, ReplayTypeOK, Server
  <2>3. VerifiedWasFresh'
    <3> SUFFICES ASSUME NEW v \in Servers, server'[v].pc = "verified"
                 PROVE  /\ server'[v].at <= now
                        /\ Datetime(server'[v].at) - Stamp[server'[v].sig] <= SigWindow
      BY <2>1 DEF VerifiedWasFresh
    <3>1. CASE v = w
      <4>1. server'[w].at = now /\ server'[w].sig = s
        BY <1>1 DEF Verify, ReplayInv, ReplayTypeOK
      <4>2. QED
        BY <3>1, <4>1, <1>1, <2>1 DEF Verify, Fresh
    <3>2. CASE v # w
      BY <3>2, <1>1 DEF Verify, ReplayInv, ReplayTypeOK, VerifiedWasFresh
    <3>3. QED
      BY <3>1, <3>2
  <2>4. QED
    BY <2>1, <2>2, <2>3 DEF ReplayInv, ReplayTypeOK, ForgottenIsStale, RowExpiry
<1>2. ASSUME NEW w \in Servers, Consume(w)
      PROVE  ReplayInv'
  <2> DEFINE s == server[w].sig
  <2>1. s \in Signatures /\ now' = now /\ now \in Nat
    BY <1>2 DEF Consume, ReplayInv, ReplayTypeOK, Server
  <2>2. honoured[s] = 0
    <3>1. s \notin consumed
      BY <1>2 DEF Consume
    <3>2. ~(RowExpiry(s) < Datetime(now))
      BY <1>2, InsertedInTime DEF Consume
    <3>3. QED
      BY <2>1, <3>1, <3>2 DEF ReplayInv, ForgottenIsStale
  <2>3. /\ server' = [server EXCEPT ![w] = [pc |-> "admitted", sig |-> s]]
        /\ consumed' = consumed \cup {s}
        /\ honoured' = [honoured EXCEPT ![s] = @ + 1]
    BY <1>2 DEF Consume
  <2> HIDE DEF s
  <2>4. ReplayTypeOK'
    BY <2>1, <2>3 DEF ReplayInv, ReplayTypeOK, Server
  <2>5. honoured'[s] = 1 /\ \A x \in Signatures \ {s} : honoured'[x] = honoured[x]
    BY <2>1, <2>2, <2>3 DEF ReplayInv, ReplayTypeOK
  <2>6. ForgottenIsStale'
    BY <2>1, <2>3, <2>5 DEF ReplayInv, ForgottenIsStale, RowExpiry
  <2>7. VerifiedWasFresh'
    BY <2>1, <2>3 DEF ReplayInv, ReplayTypeOK, VerifiedWasFresh
  <2>8. QED
    BY <2>4, <2>6, <2>7 DEF ReplayInv
<1>3. ASSUME NEW w \in Servers, Refuse(w) \/ Serve(w)
      PROVE  ReplayInv'
  <2>1. server' = [server EXCEPT ![w] = Free] /\ UNCHANGED <<now, consumed, honoured>>
    BY <1>3 DEF Refuse, Serve
  <2>2. QED
    BY <2>1 DEF ReplayInv, ReplayTypeOK, ForgottenIsStale, VerifiedWasFresh, Server, Free, RowExpiry
<1>4. CASE Cleanup
  BY <1>4 DEF Cleanup, ReplayInv, ReplayTypeOK, ForgottenIsStale, VerifiedWasFresh, RowExpiry
<1>5. CASE ReplayTick
  <2>1. now \in Nat /\ now' = now + 1 /\ consumed' = consumed /\ server' = server /\ honoured' = honoured
    BY <1>5 DEF ReplayTick, ReplayInv, ReplayTypeOK
  <2>2. Datetime(now) <= Datetime(now') /\ Datetime(now) \in Int /\ Datetime(now') \in Int
    BY <2>1, DatetimeMonotone, DatetimeType
  <2>3. \A s \in Signatures : RowExpiry(s) \in Int /\ RowExpiry(s)' = RowExpiry(s)
    BY DEF RowExpiry
  <2>4. ForgottenIsStale'
    <3> SUFFICES ASSUME NEW s \in Signatures
                 PROVE  /\ s \in consumed => honoured[s] = 1
                        /\ s \notin consumed =>
                              \/ honoured[s] = 0
                              \/ honoured[s] = 1 /\ RowExpiry(s) < Datetime(now')
      BY <2>1, <2>3 DEF ForgottenIsStale, Datetime
    <3>1. QED
      BY <2>2, <2>3 DEF ReplayInv, ForgottenIsStale
  <2>5. ReplayTypeOK'
    BY <2>1 DEF ReplayInv, ReplayTypeOK
  <2>6. VerifiedWasFresh'
    <3> SUFFICES ASSUME NEW w \in Servers, server[w].pc = "verified"
                 PROVE  /\ server[w].at <= now'
                        /\ Datetime(server[w].at) - Stamp[server[w].sig] <= SigWindow
      BY <2>1 DEF VerifiedWasFresh
    <3>1. server[w].at \in Nat
      BY DEF ReplayInv, ReplayTypeOK, Server
    <3>2. QED
      BY <2>1, <3>1 DEF ReplayInv, VerifiedWasFresh
  <2>7. QED
    BY <2>4, <2>5, <2>6 DEF ReplayInv
<1>6. CASE ReplayCrash
  BY <1>6 DEF ReplayCrash, ReplayInv, ReplayTypeOK, ForgottenIsStale, VerifiedWasFresh, Server, Free, RowExpiry
<1>7. CASE UNCHANGED replayVars
  BY <1>7 DEF replayVars, ReplayInv, ReplayTypeOK, ForgottenIsStale, VerifiedWasFresh, RowExpiry
<1>8. QED
  BY <1>1, <1>2, <1>3, <1>4, <1>5, <1>6, <1>7 DEF ReplayNext

LEMMA ReplayInvGivesHonouredOnce == ReplayInv => HonouredOnce
BY DEF ReplayInv, ReplayTypeOK, ForgottenIsStale, HonouredOnce

LEMMA ReplayInvHolds == ReplaySpec => []ReplayInv
BY ReplayInvInit, ReplayInvStep, PTL DEF ReplaySpec

\* A signed request gets past consumeSignatureOrReject at most once, whatever the
\* cleanup job, restarts and copies in flight do.
THEOREM NoReplay == ReplaySpec => []HonouredOnce
BY ReplayInvHolds, ReplayInvGivesHonouredOnce, PTL

-----------------------------------------------------------------------------
(* The replay check inside registration *)

LEMMA NextIsReplay == [Next]_vars => [ReplayNext]_replayVars
<1> SUFFICES ASSUME [Next]_vars
             PROVE  [ReplayNext]_replayVars
  OBVIOUS
<1>1. ASSUME NEW w \in Servers, NEW s \in Signatures, Receive(w, s)
      PROVE  ReplayNext
  BY <1>1 DEF Receive, ReplayNext
<1>2. ASSUME NEW w \in Servers, Admit(w) \/ Reject(w) \/ Answer(w)
      PROVE  ReplayNext
  BY <1>2 DEF Admit, Reject, Answer, ReplayNext
<1>3. ASSUME NEW w \in Servers, NEW a \in AgentIds, Redeem(w, a)
      PROVE  ReplayNext
  BY <1>2, <1>3 DEF Redeem
<1>4. ASSUME NEW w \in Servers, RedeemFails(w) \/ AttemptRefused(w) \/ RegisterVerified(w)
      PROVE  ReplayNext
  BY <1>2, <1>4 DEF RedeemFails, AttemptRefused, RegisterVerified
<1>5. ASSUME NEW w \in Servers, Compare(w)
      PROVE  [ReplayNext]_replayVars
  BY <1>2, <1>5 DEF Compare
<1>6. ASSUME NEW w \in Servers, CountAttempt(w)
      PROVE  UNCHANGED replayVars
  BY <1>6 DEF CountAttempt
<1>7. ASSUME NEW c \in Creators, CountInvites(c) \/ CreateBusy(c) \/ \E i \in InviteIds : CreateInvite(c, i)
      PROVE  UNCHANGED replayVars
  BY <1>7 DEF CountInvites, CreateBusy, CreateInvite
<1>8. ASSUME NEW a \in AgentIds, RegisterAgent(a) \/ DeactivateAgent(a)
      PROVE  UNCHANGED replayVars
  BY <1>8 DEF RegisterAgent, DeactivateAgent
<1>9. CASE Sweep \/ Tick \/ Crash
  BY <1>9 DEF Sweep, Tick, Crash, ReplayNext
<1>10. CASE UNCHANGED vars
  BY <1>10 DEF vars
<1>11. QED
  BY <1>1, <1>2, <1>3, <1>4, <1>5, <1>6, <1>7, <1>8, <1>9, <1>10 DEF Next

\* Registration, seen by the replay check alone, is what SignatureReplay
\* specifies: its handlers only take the steps of consumeSignatureOrReject.
THEOREM RegistrationUsesReplay == Spec => ReplaySpec
<1>1. Init => ReplayInit
  BY DEF Init
<1>2. QED
  BY <1>1, NextIsReplay, PTL DEF Spec, ReplaySpec

\* No registration or verification is worked on twice for one signed request
\* (handleRegisterAgent, handleVerifyRegistration behind the replay check).
THEOREM SignedRequestsCountOnce == Spec => []HonouredOnce
BY RegistrationUsesReplay, NoReplay, PTL

-----------------------------------------------------------------------------
(* Types *)

LEMMA RegistrationInvInit == Init => RegistrationInv
BY ReplayInvInit, RegistrationAssumption
   DEF Init, RegistrationInv, TypeOK, TasksAreVerifications, Invite, Agent, ReplayInv

LEMMA AgentStatus ==
    ASSUME NEW r \in Agent, NEW st \in {"absent", "pending", "registered", "deactivated"}
    PROVE  [r EXCEPT !.status = st] \in Agent
BY DEF Agent

LEMMA AgentAttempts ==
    ASSUME NEW r \in Agent
    PROVE  [r EXCEPT !.attempts = @ + 1] \in Agent
BY DEF Agent

LEMMA InviteStatus ==
    ASSUME NEW r \in Invite
    PROVE  [r EXCEPT !.status = "consumed"] \in Invite
BY DEF Invite

\* What a server works on.
LEMMA AsksIsBody ==
    ASSUME TypeOK, NEW w \in Servers, server[w].pc = "admitted"
    PROVE  /\ Asks(w) \in RegisterBody \cup VerifyBody
           /\ Asks(w).kind = "register" => Asks(w).invite \in InviteIds
           /\ Asks(w).kind = "verify" => Asks(w).agent \in AgentIds
<1>1. server[w].sig \in Signatures
  BY DEF TypeOK, ReplayTypeOK, Server
<1>2. Asks(w) \in RegisterBody \cup VerifyBody
  BY <1>1, BodyAssumption DEF Asks
<1>3. QED
  BY <1>2 DEF RegisterBody, VerifyBody

\* An answer leaves the server free and its task empty.
LEMMA AnswerFrees ==
    ASSUME TypeOK, TasksAreVerifications, NEW w \in Servers, Answer(w)
    PROVE  /\ task' \in [Servers -> {"none", "compare", "register"}]
           /\ TasksAreVerifications'
           /\ server[w].pc = "admitted"
<1>1. /\ server' = [server EXCEPT ![w] = Free]
      /\ task' = [task EXCEPT ![w] = "none"]
      /\ server[w].pc = "admitted"
  BY DEF Answer, Serve
<1>2. QED
  BY <1>1 DEF TypeOK, ReplayTypeOK, TasksAreVerifications, Asks

LEMMA CommitType ==
    ASSUME TypeOK, Commit
    PROVE  creator' \in [Creators -> {"idle", "counted", "outdated"}]
BY DEF TypeOK, Commit

\* Every step keeps types, and tasks of admitted verifications only.
LEMMA RegistrationInvStep ==
    TypeOK /\ ReplayInv /\ ReplayInv' /\ TasksAreVerifications /\ [Next]_vars => RegistrationInv'
<1> SUFFICES ASSUME TypeOK, ReplayInv', TasksAreVerifications, [Next]_vars
             PROVE  RegistrationInv'
  OBVIOUS
<1>0. ReplayTypeOK'
  BY DEF ReplayInv
<1> USE RegistrationAssumption
<1>1. ASSUME NEW c \in Creators, CountInvites(c) \/ CreateBusy(c)
      PROVE  RegistrationInv'
  BY <1>0, <1>1 DEF CountInvites, CreateBusy, RegistrationInv, TypeOK, TasksAreVerifications, Asks, replayVars
<1>2. ASSUME NEW c \in Creators, NEW i \in InviteIds, CreateInvite(c, i)
      PROVE  RegistrationInv'
  <2>1. [status |-> "active", expires |-> now + InviteTTL, created |-> now] \in Invite
    BY DEF TypeOK, ReplayTypeOK, Invite
  <2>2. invites' \in [InviteIds -> Invite]
    BY <1>2, <2>1 DEF CreateInvite, TypeOK
  <2>3. QED
    BY <1>0, <1>2, <2>2 DEF CreateInvite, RegistrationInv, TypeOK, TasksAreVerifications, Asks, replayVars
<1>3. ASSUME NEW w \in Servers, NEW s \in Signatures, Receive(w, s)
      PROVE  RegistrationInv'
  <2>1. /\ server' = [server EXCEPT ![w] = [pc |-> "verified", sig |-> s, at |-> now]]
        /\ server[w] = Free
        /\ UNCHANGED regVars
    BY <1>3 DEF Receive, Verify
  <2>2. TasksAreVerifications'
    BY <2>1 DEF TypeOK, ReplayTypeOK, TasksAreVerifications, Asks, regVars, Free
  <2>3. QED
    BY <1>0, <2>1, <2>2 DEF RegistrationInv, TypeOK, regVars
<1>4. ASSUME NEW w \in Servers, Admit(w)
      PROVE  RegistrationInv'
  <2>1. /\ server' = [server EXCEPT ![w] = [pc |-> "admitted", sig |-> server[w].sig]]
        /\ server[w].pc = "verified"
        /\ UNCHANGED <<invites, agents, task, guesses>>
        /\ Commit
    BY <1>4 DEF Admit, Consume
  <2>2. TasksAreVerifications'
    BY <2>1 DEF TypeOK, ReplayTypeOK, TasksAreVerifications, Asks
  <2>3. QED
    BY <1>0, <2>1, <2>2, CommitType DEF RegistrationInv, TypeOK
<1>5. ASSUME NEW w \in Servers, Reject(w)
      PROVE  RegistrationInv'
  <2>1. /\ server' = [server EXCEPT ![w] = Free]
        /\ server[w].pc = "verified"
        /\ UNCHANGED regVars
    BY <1>5 DEF Reject, Refuse
  <2>2. TasksAreVerifications'
    BY <2>1 DEF TypeOK, ReplayTypeOK, TasksAreVerifications, Asks, regVars
  <2>3. QED
    BY <1>0, <2>1, <2>2 DEF RegistrationInv, TypeOK, regVars
<1>6. ASSUME NEW w \in Servers, NEW a \in AgentIds, Redeem(w, a)
      PROVE  RegistrationInv'
  <2> DEFINE i == Asks(w).invite
  <2>1. i \in InviteIds
    BY <1>6, AsksIsBody DEF Redeem
  <2>2. /\ invites' = [invites EXCEPT ![i].status = "consumed"]
        /\ agents' = [agents EXCEPT ![a] = [status |-> "pending", expires |-> now + RegisterTTL,
                                            attempts |-> 0, invite |-> i]]
        /\ guesses' = guesses
        /\ Commit
        /\ Answer(w)
    BY <1>6 DEF Redeem
  <2> HIDE DEF i
  <2>3. [invites[i] EXCEPT !.status = "consumed"] \in Invite
    BY <2>1, InviteStatus DEF TypeOK
  <2>4. [status |-> "pending", expires |-> now + RegisterTTL, attempts |-> 0, invite |-> i] \in Agent
    BY <2>1 DEF TypeOK, ReplayTypeOK, Agent
  <2>5. invites' \in [InviteIds -> Invite] /\ agents' \in [AgentIds -> Agent]
    BY <2>2, <2>3, <2>4 DEF TypeOK
  <2>6. QED
    BY <1>0, <2>2, <2>5, CommitType, AnswerFrees DEF RegistrationInv, TypeOK
<1>7. ASSUME NEW w \in Servers, RedeemFails(w) \/ AttemptRefused(w)
      PROVE  RegistrationInv'
  <2>1. Answer(w) /\ UNCHANGED <<invites, agents, creator, guesses>>
    BY <1>7 DEF RedeemFails, AttemptRefused
  <2>2. QED
    BY <1>0, <2>1, AnswerFrees DEF RegistrationInv, TypeOK
<1>8. ASSUME NEW w \in Servers, CountAttempt(w)
      PROVE  RegistrationInv'
  <2> DEFINE a == Asks(w).agent
  <2>1. /\ server[w].pc = "admitted"
        /\ Asks(w).kind = "verify"
        /\ agents' = [agents EXCEPT ![a].attempts = @ + 1]
        /\ task' = [task EXCEPT ![w] = "compare"]
        /\ Commit
        /\ UNCHANGED <<replayVars, invites, guesses>>
    BY <1>8 DEF CountAttempt
  <2>2. a \in AgentIds
    BY <2>1, AsksIsBody
  <2> HIDE DEF a
  <2>3. [agents[a] EXCEPT !.attempts = @ + 1] \in Agent
    BY <2>2, AgentAttempts DEF TypeOK
  <2>4. agents' \in [AgentIds -> Agent]
    BY <2>1, <2>2, <2>3 DEF TypeOK
  <2>5. TasksAreVerifications'
    BY <2>1 DEF TypeOK, TasksAreVerifications, Asks, replayVars
  <2>6. task' \in [Servers -> {"none", "compare", "register"}]
    BY <2>1 DEF TypeOK
  <2>7. QED
    BY <1>0, <2>1, <2>4, <2>5, <2>6, CommitType DEF RegistrationInv, TypeOK
<1>9. ASSUME NEW w \in Servers, Compare(w)
      PROVE  RegistrationInv'
  <2> DEFINE a == Asks(w).agent
  <2>1. task[w] = "compare" /\ guesses' = [guesses EXCEPT ![a] = @ + 1]
        /\ UNCHANGED <<invites, agents, creator>>
    BY <1>9 DEF Compare
  <2>2. a \in AgentIds
    BY <2>1, AsksIsBody DEF TasksAreVerifications
  <2> HIDE DEF a
  <2>3. guesses' \in [AgentIds -> Nat]
    BY <2>1, <2>2 DEF TypeOK
  <2>4. CASE task' = [task EXCEPT ![w] = "register"] /\ UNCHANGED replayVars
    BY <1>0, <2>1, <2>3, <2>4 DEF RegistrationInv, TypeOK, TasksAreVerifications, Asks, replayVars
  <2>5. CASE Answer(w)
    BY <1>0, <2>1, <2>3, <2>5, AnswerFrees DEF RegistrationInv, TypeOK
  <2>6. QED
    BY <1>9, <2>4, <2>5 DEF Compare
<1>10. ASSUME NEW w \in Servers, RegisterVerified(w)
       PROVE  RegistrationInv'
  <2> DEFINE a == Asks(w).agent
  <2>1. /\ task[w] = "register"
        /\ \/ agents' = [agents EXCEPT ![a].status = "registered"] /\ Commit
           \/ UNCHANGED <<agents, creator>>
        /\ Answer(w)
        /\ UNCHANGED <<invites, guesses>>
    BY <1>10 DEF RegisterVerified
  <2>2. a \in AgentIds
    BY <2>1, AsksIsBody DEF TasksAreVerifications
  <2> HIDE DEF a
  <2>3. [agents[a] EXCEPT !.status = "registered"] \in Agent
    BY <2>2, AgentStatus DEF TypeOK
  <2>4. agents' \in [AgentIds -> Agent]
    BY <2>1, <2>2, <2>3 DEF TypeOK
  <2>5. creator' \in [Creators -> {"idle", "counted", "outdated"}]
    BY <2>1, CommitType DEF TypeOK
  <2>6. QED
    BY <1>0, <2>1, <2>4, <2>5, AnswerFrees DEF RegistrationInv, TypeOK
<1>11. ASSUME NEW a \in AgentIds, RegisterAgent(a) \/ DeactivateAgent(a)
       PROVE  RegistrationInv'
  <2>1. PICK st \in {"registered", "deactivated"} :
            /\ agents' = [agents EXCEPT ![a].status = st]
            /\ Commit
            /\ UNCHANGED <<replayVars, invites, task, guesses>>
    BY <1>11 DEF RegisterAgent, DeactivateAgent
  <2>2. [agents[a] EXCEPT !.status = st] \in Agent
    BY AgentStatus DEF TypeOK
  <2>3. agents' \in [AgentIds -> Agent]
    BY <2>1, <2>2 DEF TypeOK
  <2>4. QED
    BY <1>0, <2>1, <2>3, CommitType DEF RegistrationInv, TypeOK, TasksAreVerifications, Asks, replayVars
<1>12. CASE Sweep
  <2>1. server' = server /\ Commit /\ UNCHANGED <<invites, agents, task, guesses>>
    BY <1>12 DEF Sweep, Cleanup
  <2>2. QED
    BY <1>0, <2>1, CommitType DEF RegistrationInv, TypeOK, TasksAreVerifications, Asks
<1>13. CASE Tick
  <2>1. server' = server /\ UNCHANGED regVars
    BY <1>13 DEF Tick, ReplayTick
  <2>2. QED
    BY <1>0, <2>1 DEF RegistrationInv, TypeOK, TasksAreVerifications, Asks, regVars
<1>14. CASE Crash
  BY <1>0, <1>14 DEF Crash, RegistrationInv, TypeOK, TasksAreVerifications
<1>15. CASE UNCHANGED vars
  BY <1>0, <1>15 DEF vars, regVars, replayVars, RegistrationInv, TypeOK, TasksAreVerifications, Asks
<1>16. QED
  BY <1>1, <1>2, <1>3, <1>4, <1>5, <1>6, <1>7, <1>8, <1>9, <1>10, <1>11, <1>12, <1>13, <1>14, <1>15
     DEF Next

LEMMA RegistrationInvHolds == Spec => [](RegistrationInv /\ ReplayInv)
<1>1. RegistrationInv /\ ReplayInv /\ [Next]_vars => (RegistrationInv /\ ReplayInv)'
  BY NextIsReplay, ReplayInvStep, RegistrationInvStep DEF RegistrationInv
<1>2. Init => RegistrationInv /\ ReplayInv
  BY RegistrationInvInit, ReplayInvInit DEF Init
<1>3. QED
  BY <1>1, <1>2, PTL DEF Spec

-----------------------------------------------------------------------------
(* Agents and invites *)

\* The agent a step of a goroutine is about, and how its row changes.
LEMMA AgentSteps ==
    ASSUME RegistrationInv, [Next]_vars, NEW a \in AgentIds
    PROVE  \/ agents'[a] = agents[a]
           \/ /\ agents[a].status = "absent" /\ agents'[a].status = "pending"
              /\ \E w \in Servers : Redeem(w, a)
           \/ /\ agents'[a].invite = agents[a].invite
              /\ agents[a].status = "pending" /\ agents'[a].status \in {"pending", "registered", "deactivated"}
           \/ /\ agents'[a].invite = agents[a].invite
              /\ agents[a].status = "registered" /\ agents'[a].status = "deactivated"
<1> DEFINE G == \/ agents'[a] = agents[a]
                \/ /\ agents[a].status = "absent" /\ agents'[a].status = "pending"
                   /\ \E w \in Servers : Redeem(w, a)
                \/ /\ agents'[a].invite = agents[a].invite
                   /\ agents[a].status = "pending" /\ agents'[a].status \in {"pending", "registered", "deactivated"}
                \/ /\ agents'[a].invite = agents[a].invite
                   /\ agents[a].status = "registered" /\ agents'[a].status = "deactivated"
<1>0. agents \in [AgentIds -> Agent] /\ agents[a] \in Agent
  BY DEF RegistrationInv, TypeOK
<1>1. ASSUME NEW w \in Servers, NEW b \in AgentIds, Redeem(w, b)
      PROVE  G
  <2>1. CASE a = b
    BY <1>0, <1>1, <2>1 DEF Redeem
  <2>2. CASE a # b
    BY <1>0, <1>1, <2>2 DEF Redeem
  <2>3. QED
    BY <2>1, <2>2
<1>2. ASSUME NEW w \in Servers, CountAttempt(w)
      PROVE  G
  <2> DEFINE b == Asks(w).agent
  <2>1. agents' = [agents EXCEPT ![b].attempts = @ + 1] /\ agents[b].status = "pending"
    BY <1>2 DEF CountAttempt, MayAttempt
  <2> HIDE DEF b
  <2>2. CASE a = b
    BY <1>0, <2>1, <2>2 DEF Agent
  <2>3. CASE a # b
    BY <1>0, <2>1, <2>3
  <2>4. QED
    BY <2>2, <2>3
<1>3. ASSUME NEW w \in Servers, RegisterVerified(w)
      PROVE  G
  <2> DEFINE b == Asks(w).agent
  <2>1. \/ agents' = [agents EXCEPT ![b].status = "registered"] /\ agents[b].status = "pending"
        \/ agents' = agents
    BY <1>3 DEF RegisterVerified
  <2> HIDE DEF b
  <2>2. CASE a = b
    BY <1>0, <2>1, <2>2 DEF Agent
  <2>3. CASE a # b
    BY <1>0, <2>1, <2>3
  <2>4. QED
    BY <2>2, <2>3
<1>4. ASSUME NEW b \in AgentIds, RegisterAgent(b) \/ DeactivateAgent(b)
      PROVE  G
  <2>1. CASE a = b
    BY <1>0, <1>4, <2>1 DEF RegisterAgent, DeactivateAgent, Agent
  <2>2. CASE a # b
    BY <1>0, <1>4, <2>2 DEF RegisterAgent, DeactivateAgent
  <2>3. QED
    BY <2>1, <2>2
<1>5. ASSUME UNCHANGED agents
      PROVE  G
  BY <1>5
<1>6. ASSUME NEW c \in Creators, CountInvites(c) \/ CreateBusy(c) \/ \E i \in InviteIds : CreateInvite(c, i)
      PROVE  UNCHANGED agents
  BY <1>6 DEF CountInvites, CreateBusy, CreateInvite
<1>7. ASSUME NEW w \in Servers,
             \/ Admit(w) \/ Reject(w) \/ RedeemFails(w) \/ AttemptRefused(w) \/ Compare(w)
             \/ \E s \in Signatures : Receive(w, s)
      PROVE  UNCHANGED agents
  BY <1>7 DEF Admit, Reject, RedeemFails, AttemptRefused, Compare, Receive, regVars
<1>8. Sweep \/ Tick \/ Crash \/ UNCHANGED vars => UNCHANGED agents
  BY DEF Sweep, Tick, Crash, vars, regVars
<1>9. G
  BY <1>1, <1>2, <1>3, <1>4, <1>5, <1>6, <1>7, <1>8 DEF Next
<1>10. QED
  BY <1>9

LEMMA Advances ==
    RegistrationInv /\ [Next]_vars =>
        [\A a \in AgentIds : Stage[agents'[a].status] >= Stage[agents[a].status]]_vars
<1> SUFFICES ASSUME RegistrationInv, [Next]_vars, NEW a \in AgentIds
             PROVE  Stage[agents'[a].status] >= Stage[agents[a].status]
  OBVIOUS
<1>1. agents[a].status \in {"absent", "pending", "registered", "deactivated"}
  BY DEF RegistrationInv, TypeOK, Agent
<1>2. QED
  BY <1>1, AgentSteps DEF Stage

\* No interleaving of verifications, dashboard clicks and deactivations takes an
\* agent back to an earlier stage (VerifyAgentConfirmationCode, RegisterAgent,
\* DeactivateAgent).
THEOREM OnlyForward == Spec => AgentsOnlyAdvance
BY RegistrationInvHolds, Advances, PTL DEF Spec, AgentsOnlyAdvance

\* How an invite's row changes.
LEMMA InviteSteps ==
    ASSUME RegistrationInv, [Next]_vars, NEW i \in InviteIds
    PROVE  \/ invites'[i].status = invites[i].status
           \/ invites[i].status = "absent" /\ invites'[i].status = "active"
           \/ \E w \in Servers, a \in AgentIds : Redeem(w, a) /\ Asks(w).invite = i
<1> DEFINE G == \/ invites'[i].status = invites[i].status
                \/ invites[i].status = "absent" /\ invites'[i].status = "active"
                \/ \E w \in Servers, a \in AgentIds : Redeem(w, a) /\ Asks(w).invite = i
<1>0. invites \in [InviteIds -> Invite]
  BY DEF RegistrationInv, TypeOK
<1>1. ASSUME NEW w \in Servers, NEW a \in AgentIds, Redeem(w, a)
      PROVE  G
  <2>1. CASE Asks(w).invite = i
    BY <1>1, <2>1
  <2>2. CASE Asks(w).invite # i
    BY <1>0, <1>1, <2>2 DEF Redeem
  <2>3. QED
    BY <2>1, <2>2
<1>2. ASSUME NEW c \in Creators, NEW j \in InviteIds, CreateInvite(c, j)
      PROVE  G
  BY <1>0, <1>2 DEF CreateInvite
<1>3. ASSUME NEW c \in Creators, CountInvites(c) \/ CreateBusy(c)
      PROVE  UNCHANGED invites
  BY <1>3 DEF CountInvites, CreateBusy
<1>4. ASSUME NEW w \in Servers,
             \/ Admit(w) \/ Reject(w) \/ RedeemFails(w) \/ AttemptRefused(w) \/ Compare(w)
             \/ CountAttempt(w) \/ RegisterVerified(w)
             \/ \E s \in Signatures : Receive(w, s)
      PROVE  UNCHANGED invites
  BY <1>4 DEF Admit, Reject, RedeemFails, AttemptRefused, Compare, CountAttempt, RegisterVerified,
              Receive, regVars
<1>5. ASSUME NEW b \in AgentIds, RegisterAgent(b) \/ DeactivateAgent(b)
      PROVE  UNCHANGED invites
  BY <1>5 DEF RegisterAgent, DeactivateAgent
<1>6. Sweep \/ Tick \/ Crash \/ UNCHANGED vars => UNCHANGED invites
  BY DEF Sweep, Tick, Crash, vars, regVars
<1>7. UNCHANGED invites => G
  OBVIOUS
<1>8. G
  BY <1>1, <1>2, <1>3, <1>4, <1>5, <1>6, <1>7 DEF Next
<1>9. QED
  BY <1>8

LEMMA InviteInvStep == RegistrationInv /\ InviteInv /\ [Next]_vars => InviteInv'
<1> SUFFICES ASSUME RegistrationInv, InviteInv, [Next]_vars
             PROVE  InviteInv'
  OBVIOUS
<1>0. agents \in [AgentIds -> Agent] /\ invites \in [InviteIds -> Invite]
  BY DEF RegistrationInv, TypeOK
<1>1. ASSUME NEW w \in Servers, NEW b \in AgentIds, Redeem(w, b)
      PROVE  InviteInv'
  <2> DEFINE j == Asks(w).invite
  <2>1. /\ invites[j].status = "active"
        /\ invites' = [invites EXCEPT ![j].status = "consumed"]
        /\ agents[b].status = "absent"
        /\ agents' = [agents EXCEPT ![b] = [status |-> "pending", expires |-> now + RegisterTTL,
                                            attempts |-> 0, invite |-> j]]
    BY <1>1 DEF Redeem, Redeemable
  <2>2. j \in InviteIds
    BY <1>1, AsksIsBody DEF Redeem, RegistrationInv
  <2> HIDE DEF j
  <2>3. \A a \in AgentIds : agents[a].invite # j
    BY <2>1, <2>2 DEF InviteInv, InviteAdmitsOne
  <2>4. agents[b].invite = NoInvite /\ NoInvite \notin InviteIds
    BY <2>1, RegistrationAssumption DEF InviteInv, AbsentHasNoInvite
  <2>5. /\ agents'[b].invite = j /\ agents'[b].status = "pending"
        /\ \A a \in AgentIds \ {b} : agents'[a] = agents[a]
    BY <1>0, <2>1
  <2>6. invites'[j].status = "consumed" /\ \A i \in InviteIds \ {j} : invites'[i] = invites[i]
    BY <1>0, <2>1, <2>2 DEF Invite
  <2>7. AbsentHasNoInvite'
    BY <2>5 DEF InviteInv, AbsentHasNoInvite
  <2>8. ASSUME NEW i \in InviteIds
        PROVE  /\ \A a, c \in AgentIds : agents'[a].invite = i /\ agents'[c].invite = i => a = c
               /\ invites'[i].status = "consumed" <=> \E a \in AgentIds : agents'[a].invite = i
    <3>1. CASE i = j
      BY <2>3, <2>5, <2>6, <3>1
    <3>2. CASE i # j
      <4>1. \A a \in AgentIds : agents'[a].invite = i <=> agents[a].invite = i
        BY <2>4, <2>5, <3>2
      <4>2. invites'[i] = invites[i]
        BY <2>6, <3>2
      <4>3. QED
        BY <4>1, <4>2 DEF InviteInv, InviteAdmitsOne
    <3>3. QED
      BY <3>1, <3>2
  <2>9. InviteAdmitsOne'
    BY <2>8 DEF InviteAdmitsOne
  <2>10. QED
    BY <2>7, <2>9 DEF InviteInv
<1>2. ASSUME ~ \E w \in Servers, b \in AgentIds : Redeem(w, b)
      PROVE  InviteInv'
  <2>1. \A a \in AgentIds :
            /\ agents'[a].invite = agents[a].invite
            /\ agents'[a].status = "absent" => agents[a].status = "absent"
    BY <1>2, AgentSteps
  <2>2. \A i \in InviteIds : invites'[i].status = "consumed" <=> invites[i].status = "consumed"
    BY <1>2, InviteSteps
  <2>3. QED
    BY <2>1, <2>2 DEF InviteInv, InviteAdmitsOne, AbsentHasNoInvite
<1>3. QED
  BY <1>1, <1>2

LEMMA InviteInvInit == Init => InviteInv
BY RegistrationAssumption DEF Init, InviteInv, InviteAdmitsOne, AbsentHasNoInvite

\* An invite is consumed exactly when an agent has come of it, and only one
\* agent ever does, under retries, rollbacks and restarts (handleRegisterAgent).
THEOREM OneAgentPerInvite == Spec => []InviteAdmitsOne
<1>1. InviteInv => InviteAdmitsOne
  BY DEF InviteInv
<1>2. QED
  BY <1>1, RegistrationInvHolds, InviteInvInit, InviteInvStep, PTL DEF Spec

-----------------------------------------------------------------------------
(* The limit on invites *)

\* Only CreateInvite makes an invite recent; the clock never goes back.
LEMMA RecentShrinks ==
    ASSUME RegistrationInv, [Next]_vars,
           ~ \E c \in Creators, i \in InviteIds : CreateInvite(c, i)
    PROVE  RecentInvites' \subseteq RecentInvites
<1>0. now \in Nat /\ invites \in [InviteIds -> Invite]
  BY DEF RegistrationInv, TypeOK, ReplayTypeOK
<1>1. now' = now \/ now' = now + 1
  <2>1. [ReplayNext]_replayVars
    BY NextIsReplay
  <2>2. QED
    BY <2>1 DEF ReplayNext, Verify, Consume, Refuse, Serve, Cleanup, ReplayTick, ReplayCrash, replayVars
<1>2. ASSUME NEW w \in Servers, NEW a \in AgentIds, Redeem(w, a)
      PROVE  \A i \in InviteIds : /\ invites'[i].created = invites[i].created
                                  /\ invites'[i].status # "absent" => invites[i].status # "absent"
  <2> DEFINE j == Asks(w).invite
  <2>1. invites' = [invites EXCEPT ![j].status = "consumed"] /\ invites[j].status = "active"
    BY <1>2 DEF Redeem, Redeemable
  <2>2. j \in InviteIds
    BY <1>2, AsksIsBody DEF Redeem, RegistrationInv
  <2> HIDE DEF j
  <2>3. \A i \in InviteIds \ {j} : invites'[i] = invites[i]
    BY <1>0, <2>1
  <2>4. invites'[j].created = invites[j].created
    BY <1>0, <2>1, <2>2 DEF Invite
  <2>5. QED
    BY <2>1, <2>3, <2>4
<1>3. ASSUME ~ \E w \in Servers, a \in AgentIds : Redeem(w, a)
      PROVE  UNCHANGED invites
  <2>1. ASSUME NEW c \in Creators, CountInvites(c) \/ CreateBusy(c)
        PROVE  UNCHANGED invites
    BY <2>1 DEF CountInvites, CreateBusy
  <2>2. ASSUME NEW w \in Servers,
               \/ Admit(w) \/ Reject(w) \/ RedeemFails(w) \/ AttemptRefused(w) \/ Compare(w)
               \/ CountAttempt(w) \/ RegisterVerified(w)
               \/ \E s \in Signatures : Receive(w, s)
        PROVE  UNCHANGED invites
    BY <2>2 DEF Admit, Reject, RedeemFails, AttemptRefused, Compare, CountAttempt, RegisterVerified,
                Receive, regVars
  <2>3. ASSUME NEW b \in AgentIds, RegisterAgent(b) \/ DeactivateAgent(b)
        PROVE  UNCHANGED invites
    BY <2>3 DEF RegisterAgent, DeactivateAgent
  <2>4. Sweep \/ Tick \/ Crash \/ UNCHANGED vars => UNCHANGED invites
    BY DEF Sweep, Tick, Crash, vars, regVars
  <2>5. QED
    BY <1>3, <2>1, <2>2, <2>3, <2>4 DEF Next
<1>4. \A i \in InviteIds : /\ invites'[i].created = invites[i].created
                           /\ invites'[i].status # "absent" => invites[i].status # "absent"
  BY <1>2, <1>3
<1>5. \A i \in InviteIds : invites[i].created \in Nat
  BY <1>0 DEF Invite
<1>6. QED
  BY <1>0, <1>1, <1>4, <1>5, RegistrationAssumption DEF RecentInvites

\* A transaction is counted, or stays so, only while nobody else commits.
LEMMA CountedSteps ==
    ASSUME RegistrationInv, [Next]_vars, NEW c \in Creators, creator'[c] = "counted"
    PROVE  \/ CountInvites(c) \/ creator[c] = "counted"
<1>0. creator \in [Creators -> {"idle", "counted", "outdated"}]
  BY DEF RegistrationInv, TypeOK
<1>1. ASSUME NEW d \in Creators, CountInvites(d) \/ CreateBusy(d) \/ \E i \in InviteIds : CreateInvite(d, i)
      PROVE  CountInvites(c) \/ creator[c] = "counted"
  <2>1. CASE c = d
    BY <1>0, <1>1, <2>1 DEF CountInvites, CreateBusy, CreateInvite
  <2>2. CASE c # d
    BY <1>0, <1>1, <2>2 DEF CountInvites, CreateBusy, CreateInvite
  <2>3. QED
    BY <2>1, <2>2
<1>2. Commit \/ UNCHANGED creator => creator[c] = "counted"
  BY <1>0 DEF Commit
<1>3. ASSUME NEW w \in Servers,
             \/ Admit(w) \/ Reject(w) \/ RedeemFails(w) \/ AttemptRefused(w) \/ Compare(w)
             \/ CountAttempt(w) \/ RegisterVerified(w)
             \/ \E s \in Signatures : Receive(w, s)
             \/ \E a \in AgentIds : Redeem(w, a)
      PROVE  Commit \/ UNCHANGED creator
  BY <1>3 DEF Admit, Reject, RedeemFails, AttemptRefused, Compare, CountAttempt, RegisterVerified,
              Receive, Redeem, regVars
<1>4. ASSUME NEW b \in AgentIds, RegisterAgent(b) \/ DeactivateAgent(b)
      PROVE  Commit
  BY <1>4 DEF RegisterAgent, DeactivateAgent
<1>5. Sweep \/ Tick \/ UNCHANGED vars => Commit \/ UNCHANGED creator
  BY DEF Sweep, Tick, vars, regVars
<1>6. ~Crash
  BY DEF Crash
<1>7. QED
  BY <1>1, <1>2, <1>3, <1>4, <1>5, <1>6 DEF Next

LEMMA LimitInvStep == RegistrationInv /\ LimitInv /\ [Next]_vars => LimitInv'
<1> SUFFICES ASSUME RegistrationInv, LimitInv, [Next]_vars
             PROVE  LimitInv'
  OBVIOUS
<1>0. /\ IsFiniteSet(RecentInvites) /\ Cardinality(RecentInvites) \in Nat
      /\ IsFiniteSet(RecentInvites') /\ Cardinality(RecentInvites') \in Nat
      /\ RateLimit \in Nat
  <2>1. RecentInvites \subseteq InviteIds /\ RecentInvites' \subseteq InviteIds
    BY DEF RecentInvites
  <2>2. IsFiniteSet(InviteIds) /\ RateLimit \in Nat
    BY RegistrationAssumption
  <2>3. QED
    BY <2>1, <2>2, FS_Subset, FS_CardinalityType
<1>1. ASSUME NEW c \in Creators, NEW i \in InviteIds, CreateInvite(c, i)
      PROVE  LimitInv'
  <2>1. creator \in [Creators -> {"idle", "counted", "outdated"}] /\ invites \in [InviteIds -> Invite]
    BY DEF RegistrationInv, TypeOK
  <2>2. Cardinality(RecentInvites) < RateLimit
    BY <1>1 DEF CreateInvite, LimitInv, CountIsTrue
  <2>3. \A d \in Creators : creator'[d] # "counted"
    BY <1>1, <2>1 DEF CreateInvite
  <2>4. RecentInvites' \subseteq RecentInvites \cup {i}
    <3>1. now' = now /\ \A j \in InviteIds \ {i} : invites'[j] = invites[j]
      BY <1>1, <2>1 DEF CreateInvite, replayVars
    <3>2. QED
      BY <3>1 DEF RecentInvites
  <2>5. IsFiniteSet(RecentInvites \cup {i}) /\ Cardinality(RecentInvites \cup {i}) <= Cardinality(RecentInvites) + 1
    <3>1. /\ IsFiniteSet(RecentInvites \cup {i})
          /\ Cardinality(RecentInvites \cup {i}) =
                IF i \in RecentInvites THEN Cardinality(RecentInvites) ELSE Cardinality(RecentInvites) + 1
      BY <1>0, FS_AddElement, Zenon
    <3>2. QED
      BY <1>0, <3>1
  <2>6. Cardinality(RecentInvites \cup {i}) \in Nat
    BY <2>5, FS_CardinalityType
  <2>7. Cardinality(RecentInvites') <= Cardinality(RecentInvites \cup {i})
    BY <2>4, <2>5, FS_Subset
  <2>8. Cardinality(RecentInvites') <= RateLimit
    BY <1>0, <2>2, <2>5, <2>6, <2>7
  <2>9. QED
    BY <2>3, <2>8 DEF LimitInv, InviteLimitHolds, CountIsTrue
<1>2. ASSUME ~ \E c \in Creators, i \in InviteIds : CreateInvite(c, i)
      PROVE  LimitInv'
  <2>1. Cardinality(RecentInvites') <= Cardinality(RecentInvites)
    <3>1. RecentInvites' \in SUBSET RecentInvites
      BY <1>2, RecentShrinks
    <3>2. QED
      BY <1>0, <3>1, FS_Subset
  <2>2. ASSUME NEW c \in Creators, creator'[c] = "counted"
        PROVE  Cardinality(RecentInvites) < RateLimit
    <3>1. CountInvites(c) \/ creator[c] = "counted"
      BY <2>2, CountedSteps
    <3>2. QED
      BY <3>1 DEF CountInvites, LimitInv, CountIsTrue
  <2>3. InviteLimitHolds'
    <3>1. Cardinality(RecentInvites') <= RateLimit
      BY <1>0, <2>1 DEF LimitInv, InviteLimitHolds
    <3>2. QED
      BY <3>1 DEF InviteLimitHolds
  <2>4. ASSUME NEW c \in Creators, creator'[c] = "counted"
        PROVE  Cardinality(RecentInvites') < RateLimit
    BY <1>0, <2>1, <2>2, <2>4
  <2>5. CountIsTrue'
    BY <2>4 DEF CountIsTrue
  <2>6. QED
    BY <2>3, <2>5 DEF LimitInv
<1>3. QED
  BY <1>1, <1>2

LEMMA LimitInvInit == Init => LimitInv
<1> SUFFICES ASSUME Init
             PROVE  LimitInv
  OBVIOUS
<1>1. RecentInvites = {}
  BY DEF Init, RecentInvites
<1>2. Cardinality(RecentInvites) = 0
  BY <1>1, FS_EmptySet
<1>3. QED
  BY <1>2, RegistrationAssumption DEF Init, LimitInv, InviteLimitHolds, CountIsTrue

\* No user gets past inviteRateLimit, although counting and inserting are two
\* statements and nothing locks: a snapshot somebody has written past cannot be
\* written from (CreateRegistrationInviteIfUnderLimit).
THEOREM InvitesAreLimited == Spec => []InviteLimitHolds
<1>1. LimitInv => InviteLimitHolds
  BY DEF LimitInv
<1>2. QED
  BY <1>1, RegistrationInvHolds, LimitInvInit, LimitInvStep, PTL DEF Spec

-----------------------------------------------------------------------------
(* The limit on guesses *)

\* The sets of GuessSound have a size.
LEMMA GuessSizes ==
    ASSUME RegistrationInv, NEW a \in AgentIds, GuessSound(a)
    PROVE  /\ IsFiniteSet(Comparing(a))
           /\ Cardinality(Comparing(a)) \in Nat
           /\ Cardinality(Guessing(a)) \in Nat
           /\ Cardinality(HonouredFor(a)) \in Nat
           /\ guesses[a] \in Nat /\ agents[a].attempts \in Nat /\ MaxAttempts \in Nat
<1>1. guesses[a] \in Nat /\ agents[a].attempts \in Nat
  BY DEF RegistrationInv, TypeOK, Agent
<1>2. IsFiniteSet(Guessing(a)) /\ IsFiniteSet(HonouredFor(a))
  BY DEF GuessSound
<1>3. Comparing(a) \in SUBSET Guessing(a)
  BY DEF Comparing
<1>4. IsFiniteSet(Comparing(a))
  BY <1>2, <1>3, FS_Subset
<1>5. MaxAttempts \in Nat
  BY RegistrationAssumption
<1>6. QED
  BY <1>1, <1>2, <1>4, <1>5, FS_CardinalityType

\* A step in which nobody starts to wait or to compare, and no code is compared.
LEMMA GuessIdle ==
    ASSUME RegistrationInv, NEW a \in AgentIds, GuessSound(a),
           Guessing(a)' \subseteq Guessing(a), Comparing(a)' \subseteq Comparing(a),
           HonouredFor(a)' = HonouredFor(a), guesses'[a] = guesses[a],
           agents'[a].attempts = agents[a].attempts,
           agents'[a].status = "absent" => agents[a].status = "absent"
    PROVE  GuessSound(a)'
<1>1. /\ IsFiniteSet(Comparing(a)) /\ Cardinality(Comparing(a)) \in Nat
      /\ IsFiniteSet(Guessing(a)) /\ Cardinality(Guessing(a)) \in Nat
      /\ Cardinality(HonouredFor(a)) \in Nat
      /\ guesses[a] \in Nat /\ agents[a].attempts \in Nat
  BY GuessSizes DEF GuessSound
<1>2. /\ IsFiniteSet(Guessing(a)') /\ Cardinality(Guessing(a)') <= Cardinality(Guessing(a))
      /\ IsFiniteSet(Comparing(a)') /\ Cardinality(Comparing(a)') <= Cardinality(Comparing(a))
  BY <1>1, FS_Subset
<1>3. Cardinality(Guessing(a)') \in Nat /\ Cardinality(Comparing(a)') \in Nat
  BY <1>2, FS_CardinalityType
<1>4. /\ guesses[a] + Cardinality(Comparing(a)') <= agents[a].attempts
      /\ guesses[a] + Cardinality(Guessing(a)') <= Cardinality(HonouredFor(a))
  BY <1>1, <1>2, <1>3 DEF GuessSound
<1>5. QED
  BY <1>2, <1>4 DEF GuessSound

\* Who waits for which agent, after a step of the replay check's state.
LEMMA GuessingMembers ==
    ASSUME NEW a \in AgentIds
    PROVE  /\ \A w \in Servers : w \in Guessing(a)' <=>
                /\ server'[w].pc = "admitted" /\ Body[server'[w].sig].kind = "verify"
                /\ Body[server'[w].sig].agent = a /\ task'[w] # "register"
           /\ \A w \in Servers : w \in Guessing(a) <=>
                /\ server[w].pc = "admitted" /\ Body[server[w].sig].kind = "verify"
                /\ Body[server[w].sig].agent = a /\ task[w] # "register"
           /\ Guessing(a) \subseteq Servers /\ Guessing(a)' \subseteq Servers
BY DEF Guessing, Asks

\* Servers that are as they were, or free, add nobody.
LEMMA NobodyNewWaits ==
    ASSUME NEW a \in AgentIds,
           \A w \in Servers : \/ server'[w].pc # "admitted"
                              \/ server'[w] = server[w] /\ task'[w] = task[w]
    PROVE  Guessing(a)' \subseteq Guessing(a) /\ Comparing(a)' \subseteq Comparing(a)
<1>1. ASSUME NEW w \in Guessing(a)' PROVE w \in Guessing(a) /\ task'[w] = task[w]
  BY <1>1, GuessingMembers
<1>2. QED
  BY <1>1 DEF Comparing

\* The replay check admits a request: it is the first copy, so the number of
\* honoured requests grows with the number of those who wait.
LEMMA AdmitGuess ==
    ASSUME RegistrationInv, ReplayInv, NEW a \in AgentIds, GuessSound(a), NEW w \in Servers, Admit(w)
    PROVE  GuessSound(a)'
<1> DEFINE s == server[w].sig
<1>1. /\ server[w].pc = "verified"
      /\ now <= server[w].at + SigTimeout
      /\ s \notin consumed
      /\ honoured' = [honoured EXCEPT ![s] = @ + 1]
      /\ server' = [server EXCEPT ![w] = [pc |-> "admitted", sig |-> s]]
      /\ UNCHANGED <<invites, agents, task, guesses>>
  BY DEF Admit, Consume
<1>2. s \in Signatures
  BY <1>1 DEF RegistrationInv, TypeOK, ReplayTypeOK, Server
<1>3. honoured[s] = 0
  <2>1. ~(RowExpiry(s) < Datetime(now))
    BY <1>1, InsertedInTime
  <2>2. QED
    BY <1>1, <1>2, <2>1 DEF ReplayInv, ForgottenIsStale
<1>4. task[w] = "none"
  BY <1>1 DEF RegistrationInv, TasksAreVerifications
<1> HIDE DEF s
<1>5. /\ honoured'[s] = 1
      /\ \A t \in Signatures \ {s} : honoured'[t] = honoured[t]
  BY <1>1, <1>2, <1>3 DEF RegistrationInv, TypeOK, ReplayTypeOK
<1>6. /\ server'[w].pc = "admitted" /\ server'[w].sig = s
      /\ \A v \in Servers \ {w} : server'[v] = server[v]
  BY <1>1 DEF RegistrationInv, TypeOK, ReplayTypeOK
<1>7. /\ IsFiniteSet(Comparing(a)) /\ Cardinality(Comparing(a)) \in Nat
      /\ IsFiniteSet(Guessing(a)) /\ Cardinality(Guessing(a)) \in Nat
      /\ IsFiniteSet(HonouredFor(a)) /\ Cardinality(HonouredFor(a)) \in Nat
      /\ guesses[a] \in Nat
  BY GuessSizes DEF GuessSound
<1>8. CASE Body[s].kind = "verify" /\ Body[s].agent = a
  <2>1. w \notin Guessing(a) /\ s \notin HonouredFor(a)
    BY <1>1, <1>3 DEF Guessing, HonouredFor
  <2>2. Guessing(a)' = Guessing(a) \cup {w}
    <3>1. \A v \in Servers : v \in Guessing(a)' <=> v \in Guessing(a) \cup {w}
      BY <1>1, <1>4, <1>6, <1>8, GuessingMembers
    <3>2. QED
      BY <3>1, GuessingMembers
  <2>3. HonouredFor(a)' = HonouredFor(a) \cup {s}
    BY <1>2, <1>5, <1>8 DEF HonouredFor
  <2>4. Comparing(a)' = Comparing(a)
    BY <1>1, <1>4, <2>2 DEF Comparing
  <2>5. /\ IsFiniteSet(Guessing(a)') /\ Cardinality(Guessing(a)') = Cardinality(Guessing(a)) + 1
        /\ IsFiniteSet(HonouredFor(a)') /\ Cardinality(HonouredFor(a)') = Cardinality(HonouredFor(a)) + 1
    <3>1. /\ IsFiniteSet(Guessing(a) \cup {w})
          /\ Cardinality(Guessing(a) \cup {w}) =
                IF w \in Guessing(a) THEN Cardinality(Guessing(a)) ELSE Cardinality(Guessing(a)) + 1
      BY <1>7, FS_AddElement, Zenon
    <3>2. /\ IsFiniteSet(HonouredFor(a) \cup {s})
          /\ Cardinality(HonouredFor(a) \cup {s}) =
                IF s \in HonouredFor(a) THEN Cardinality(HonouredFor(a)) ELSE Cardinality(HonouredFor(a)) + 1
      BY <1>7, FS_AddElement, Zenon
    <3>3. QED
      BY <2>1, <2>2, <2>3, <3>1, <3>2
  <2>6. guesses[a] + Cardinality(Guessing(a)') <= Cardinality(HonouredFor(a)')
    BY <1>7, <2>5 DEF GuessSound
  <2>7. QED
    BY <1>1, <2>4, <2>5, <2>6 DEF GuessSound
<1>9. CASE ~(Body[s].kind = "verify" /\ Body[s].agent = a)
  <2>1. HonouredFor(a)' = HonouredFor(a)
    BY <1>5, <1>9 DEF HonouredFor
  <2>2. Guessing(a)' \subseteq Guessing(a)
    <3>1. \A v \in Servers : v \in Guessing(a)' => v \in Guessing(a)
      BY <1>1, <1>6, <1>9, GuessingMembers
    <3>2. QED
      BY <3>1, GuessingMembers
  <2>3. Comparing(a)' \subseteq Comparing(a)
    BY <1>1, <2>2 DEF Comparing
  <2>4. QED
    BY <1>1, <2>1, <2>2, <2>3, GuessIdle
<1>10. QED
  BY <1>8, <1>9

\* The attempt is counted before the code is compared: attempts stay ahead.
LEMMA CountGuess ==
    ASSUME RegistrationInv, NEW a \in AgentIds, GuessSound(a), NEW w \in Servers, CountAttempt(w)
    PROVE  GuessSound(a)'
<1> DEFINE b == Asks(w).agent
<1>1. /\ server[w].pc = "admitted"
      /\ Asks(w).kind = "verify"
      /\ task[w] = "none"
      /\ agents[b].status = "pending"
      /\ agents[b].attempts < MaxAttempts
      /\ agents' = [agents EXCEPT ![b].attempts = @ + 1]
      /\ task' = [task EXCEPT ![w] = "compare"]
      /\ UNCHANGED <<replayVars, invites, guesses>>
  BY DEF CountAttempt, MayAttempt
<1>2. b \in AgentIds
  BY <1>1, AsksIsBody DEF RegistrationInv
<1>3. /\ \A v \in Servers \ {w} : task'[v] = task[v]
      /\ task'[w] = "compare"
      /\ server' = server /\ honoured' = honoured
  BY <1>1 DEF RegistrationInv, TypeOK, replayVars
<1>4. Guessing(a)' = Guessing(a) /\ HonouredFor(a)' = HonouredFor(a)
  <2>1. \A v \in Servers : v \in Guessing(a)' <=> v \in Guessing(a)
    BY <1>1, <1>3, GuessingMembers
  <2>2. QED
    BY <1>3, <2>1, GuessingMembers DEF HonouredFor
<1>5. w \in Guessing(a) <=> a = b
  BY <1>1 DEF Guessing
<1> HIDE DEF b
<1>6. /\ agents'[b].attempts = agents[b].attempts + 1 /\ agents'[b].status = "pending"
      /\ \A c \in AgentIds \ {b} : agents'[c] = agents[c]
  <2>1. agents \in [AgentIds -> Agent] /\ agents[b] \in Agent
    BY <1>2 DEF RegistrationInv, TypeOK
  <2>2. QED
    BY <1>1, <1>2, <2>1 DEF Agent
<1>7. CASE a = b
  <2>1. Comparing(a)' = Comparing(a) \cup {w} /\ w \notin Comparing(a)
    BY <1>1, <1>3, <1>4, <1>5, <1>7 DEF Comparing, Guessing
  <2>2. /\ IsFiniteSet(Comparing(a)) /\ Cardinality(Comparing(a)) \in Nat
        /\ guesses[a] \in Nat /\ agents[a].attempts \in Nat /\ MaxAttempts \in Nat
    BY GuessSizes
  <2>3. Cardinality(Comparing(a)') = Cardinality(Comparing(a)) + 1
    <3>1. Cardinality(Comparing(a) \cup {w}) =
            IF w \in Comparing(a) THEN Cardinality(Comparing(a)) ELSE Cardinality(Comparing(a)) + 1
      BY <2>2, FS_AddElement, Zenon
    <3>2. QED
      BY <2>1, <3>1
  <2>4. /\ guesses[a] + Cardinality(Comparing(a)') <= agents'[a].attempts
        /\ agents'[a].attempts <= MaxAttempts
    BY <1>1, <1>6, <1>7, <2>2, <2>3 DEF GuessSound
  <2>5. QED
    BY <1>1, <1>4, <1>6, <1>7, <2>4 DEF GuessSound
<1>8. CASE a # b
  <2>1. ASSUME NEW v, v \in Comparing(a)'
        PROVE  v \in Comparing(a)
    <3>1. v \in Guessing(a)' /\ task'[v] = "compare"
      BY <2>1 DEF Comparing
    <3>2. v \in Guessing(a) /\ v \in Servers /\ v # w
      BY <1>4, <1>5, <1>8, <3>1 DEF Guessing
    <3>3. QED
      BY <1>3, <3>1, <3>2 DEF Comparing
  <2>2. Comparing(a)' \subseteq Comparing(a)
    BY <2>1
  <2>3. QED
    BY <1>1, <1>4, <1>6, <1>8, <2>2, GuessIdle
<1>9. QED
  BY <1>7, <1>8

\* A comparison uses up the attempt that was counted for it.
LEMMA CompareGuess ==
    ASSUME RegistrationInv, NEW a \in AgentIds, GuessSound(a), NEW w \in Servers, Compare(w)
    PROVE  GuessSound(a)'
<1> DEFINE b == Asks(w).agent
<1>1. /\ task[w] = "compare"
      /\ guesses' = [guesses EXCEPT ![b] = @ + 1]
      /\ UNCHANGED <<invites, agents, creator>>
      /\ server[w].pc = "admitted" /\ Asks(w).kind = "verify"
  BY DEF Compare, RegistrationInv, TasksAreVerifications
<1>2. b \in AgentIds
  BY <1>1, AsksIsBody DEF RegistrationInv
<1>3. /\ honoured' = honoured
      /\ \A v \in Servers \ {w} : server'[v] = server[v] /\ task'[v] = task[v]
      /\ server'[w].pc # "admitted" \/ task'[w] = "register"
  <2>1. CASE task' = [task EXCEPT ![w] = "register"] /\ UNCHANGED replayVars
    BY <2>1 DEF RegistrationInv, TypeOK, replayVars
  <2>2. CASE Answer(w)
    BY <2>2 DEF Answer, Serve, Free, RegistrationInv, TypeOK, ReplayTypeOK
  <2>3. QED
    BY <2>1, <2>2 DEF Compare
<1>4. HonouredFor(a)' = HonouredFor(a)
  BY <1>3 DEF HonouredFor
<1>5. Guessing(a)' = Guessing(a) \ {w}
  <2>1. \A v \in Servers : v \in Guessing(a)' <=> v \in Guessing(a) \ {w}
    BY <1>3, GuessingMembers
  <2>2. QED
    BY <2>1, GuessingMembers
<1>6. Comparing(a)' = Comparing(a) \ {w}
  BY <1>3, <1>5, GuessingMembers DEF Comparing
<1>7. w \in Guessing(a) <=> a = b
  BY <1>1 DEF Guessing
<1> HIDE DEF b
<1>8. CASE a = b
  <2>1. w \in Guessing(a) /\ w \in Comparing(a)
    BY <1>1, <1>7, <1>8 DEF Comparing
  <2>2. /\ IsFiniteSet(Comparing(a)) /\ Cardinality(Comparing(a)) \in Nat
        /\ IsFiniteSet(Guessing(a)) /\ Cardinality(Guessing(a)) \in Nat
        /\ Cardinality(HonouredFor(a)) \in Nat
        /\ guesses[a] \in Nat /\ agents[a].attempts \in Nat
    BY GuessSizes DEF GuessSound
  <2>3. /\ IsFiniteSet(Guessing(a)') /\ Cardinality(Guessing(a)') = Cardinality(Guessing(a)) - 1
        /\ Cardinality(Comparing(a)') = Cardinality(Comparing(a)) - 1
    <3>1. /\ IsFiniteSet(Guessing(a) \ {w})
          /\ Cardinality(Guessing(a) \ {w}) =
                IF w \in Guessing(a) THEN Cardinality(Guessing(a)) - 1 ELSE Cardinality(Guessing(a))
      BY <2>2, FS_RemoveElement, Zenon
    <3>2. Cardinality(Comparing(a) \ {w}) =
                IF w \in Comparing(a) THEN Cardinality(Comparing(a)) - 1 ELSE Cardinality(Comparing(a))
      BY <2>2, FS_RemoveElement, Zenon
    <3>3. QED
      BY <1>5, <1>6, <2>1, <3>1, <3>2
  <2>4. guesses'[a] = guesses[a] + 1
    BY <1>1, <1>2, <1>8 DEF RegistrationInv, TypeOK
  <2>5. /\ guesses'[a] + Cardinality(Comparing(a)') <= agents[a].attempts
        /\ guesses'[a] + Cardinality(Guessing(a)') <= Cardinality(HonouredFor(a))
    BY <2>2, <2>3, <2>4 DEF GuessSound
  <2>6. QED
    BY <1>1, <1>4, <2>3, <2>5 DEF GuessSound
<1>9. CASE a # b
  <2>1. guesses'[a] = guesses[a]
    BY <1>1, <1>9 DEF RegistrationInv, TypeOK
  <2>2. QED
    BY <1>1, <1>4, <1>5, <1>6, <2>1, GuessIdle
<1>10. QED
  BY <1>8, <1>9

\* How the attempts of an agent change.
LEMMA AttemptSteps ==
    ASSUME RegistrationInv, [Next]_vars, NEW a \in AgentIds, GuessSound(a),
           ~ \E w \in Servers : CountAttempt(w)
    PROVE  /\ agents'[a].attempts = agents[a].attempts
           /\ agents'[a].status = "absent" => agents[a].status = "absent"
<1> DEFINE G == agents'[a].attempts = agents[a].attempts
<1>0. agents \in [AgentIds -> Agent] /\ agents[a] \in Agent
  BY DEF RegistrationInv, TypeOK
<1>1. ASSUME NEW w \in Servers, NEW b \in AgentIds, Redeem(w, b)
      PROVE  G
  <2>1. agents[b].status = "absent" /\ agents'[b].attempts = 0
        /\ \A c \in AgentIds \ {b} : agents'[c] = agents[c]
    BY <1>0, <1>1 DEF Redeem
  <2>2. QED
    BY <2>1 DEF GuessSound
<1>2. ASSUME NEW w \in Servers, RegisterVerified(w)
      PROVE  G
  <2> DEFINE b == Asks(w).agent
  <2>1. agents' = [agents EXCEPT ![b].status = "registered"] \/ agents' = agents
    BY <1>2 DEF RegisterVerified
  <2> HIDE DEF b
  <2>2. CASE a = b
    BY <1>0, <2>1, <2>2 DEF Agent
  <2>3. CASE a # b
    BY <1>0, <2>1, <2>3
  <2>4. QED
    BY <2>2, <2>3
<1>3. ASSUME NEW b \in AgentIds, RegisterAgent(b) \/ DeactivateAgent(b)
      PROVE  G
  <2>1. CASE a = b
    BY <1>0, <1>3, <2>1 DEF RegisterAgent, DeactivateAgent, Agent
  <2>2. CASE a # b
    BY <1>0, <1>3, <2>2 DEF RegisterAgent, DeactivateAgent
  <2>3. QED
    BY <2>1, <2>2
<1>4. ASSUME NEW c \in Creators, CountInvites(c) \/ CreateBusy(c) \/ \E i \in InviteIds : CreateInvite(c, i)
      PROVE  UNCHANGED agents
  BY <1>4 DEF CountInvites, CreateBusy, CreateInvite
<1>5. ASSUME NEW w \in Servers,
             \/ Admit(w) \/ Reject(w) \/ RedeemFails(w) \/ AttemptRefused(w) \/ Compare(w)
             \/ \E s \in Signatures : Receive(w, s)
      PROVE  UNCHANGED agents
  BY <1>5 DEF Admit, Reject, RedeemFails, AttemptRefused, Compare, Receive, regVars
<1>6. Sweep \/ Tick \/ Crash \/ UNCHANGED vars => UNCHANGED agents
  BY DEF Sweep, Tick, Crash, vars, regVars
<1>7. UNCHANGED agents => G
  OBVIOUS
<1>8. G
  BY <1>1, <1>2, <1>3, <1>4, <1>5, <1>6, <1>7 DEF Next
<1>9. agents'[a].status = "absent" => agents[a].status = "absent"
  BY AgentSteps
<1>10. QED
  BY <1>8, <1>9

LEMMA GuessStep ==
    ASSUME RegistrationInv, ReplayInv, [Next]_vars, NEW a \in AgentIds, GuessSound(a)
    PROVE  GuessSound(a)'
<1>1. ASSUME NEW w \in Servers, Admit(w) PROVE GuessSound(a)'
  BY <1>1, AdmitGuess
<1>2. ASSUME NEW w \in Servers, CountAttempt(w) PROVE GuessSound(a)'
  BY <1>2, CountGuess
<1>3. ASSUME NEW w \in Servers, Compare(w) PROVE GuessSound(a)'
  BY <1>3, CompareGuess
<1>4. ASSUME ~ \E w \in Servers : Admit(w) \/ CountAttempt(w) \/ Compare(w)
      PROVE  GuessSound(a)'
  <2>1. ASSUME NEW w \in Servers, Answer(w)
        PROVE  /\ honoured' = honoured
               /\ \A v \in Servers : \/ server'[v].pc # "admitted"
                                     \/ server'[v] = server[v] /\ task'[v] = task[v]
    BY <2>1 DEF Answer, Serve, Free, RegistrationInv, TypeOK, ReplayTypeOK
  <2>2. /\ honoured' = honoured /\ guesses' = guesses
        /\ \A v \in Servers : \/ server'[v].pc # "admitted"
                              \/ server'[v] = server[v] /\ task'[v] = task[v]
    <3> DEFINE G == /\ honoured' = honoured /\ guesses' = guesses
                    /\ \A v \in Servers : \/ server'[v].pc # "admitted"
                                          \/ server'[v] = server[v] /\ task'[v] = task[v]
    <3>1. ASSUME NEW c \in Creators, CountInvites(c) \/ CreateBusy(c) \/ \E i \in InviteIds : CreateInvite(c, i)
          PROVE  G
      BY <3>1 DEF CountInvites, CreateBusy, CreateInvite, replayVars
    <3>2. ASSUME NEW w \in Servers, NEW s \in Signatures, Receive(w, s) PROVE G
      BY <3>2 DEF Receive, Verify, regVars, RegistrationInv, TypeOK, ReplayTypeOK
    <3>3. ASSUME NEW w \in Servers, Reject(w) PROVE G
      BY <3>3 DEF Reject, Refuse, Free, regVars, RegistrationInv, TypeOK, ReplayTypeOK
    <3>4. ASSUME NEW w \in Servers,
                 (\E b \in AgentIds : Redeem(w, b)) \/ RedeemFails(w) \/ AttemptRefused(w) \/ RegisterVerified(w)
          PROVE  G
      <4>1. Answer(w) /\ guesses' = guesses
        BY <3>4 DEF Redeem, RedeemFails, AttemptRefused, RegisterVerified
      <4>2. QED
        BY <2>1, <4>1
    <3>5. ASSUME NEW b \in AgentIds, RegisterAgent(b) \/ DeactivateAgent(b) PROVE G
      BY <3>5 DEF RegisterAgent, DeactivateAgent, replayVars
    <3>6. CASE Sweep \/ Tick \/ UNCHANGED vars
      BY <3>6 DEF Sweep, Cleanup, Tick, ReplayTick, vars, regVars, replayVars
    <3>7. CASE Crash
      BY <3>7 DEF Crash, ReplayCrash, Free
    <3>8. QED
      BY <1>4, <3>1, <3>2, <3>3, <3>4, <3>5, <3>6, <3>7 DEF Next
  <2>3. Guessing(a)' \subseteq Guessing(a) /\ Comparing(a)' \subseteq Comparing(a)
    BY <2>2, NobodyNewWaits
  <2>4. HonouredFor(a)' = HonouredFor(a) /\ guesses'[a] = guesses[a]
    BY <2>2 DEF HonouredFor
  <2>5. /\ agents'[a].attempts = agents[a].attempts
        /\ agents'[a].status = "absent" => agents[a].status = "absent"
    BY <1>4, AttemptSteps
  <2>6. QED
    BY <2>3, <2>4, <2>5, GuessIdle
<1>5. QED
  BY <1>1, <1>2, <1>3, <1>4

LEMMA GuessInit ==
    ASSUME Init, NEW a \in AgentIds
    PROVE  GuessSound(a)
<1>1. Guessing(a) = {} /\ HonouredFor(a) = {}
  BY DEF Init, ReplayInit, Guessing, HonouredFor, Free
<1>2. Comparing(a) = {}
  BY <1>1 DEF Comparing
<1>3. IsFiniteSet({}) /\ Cardinality({}) = 0
  BY FS_EmptySet
<1>4. agents[a].attempts = 0 /\ guesses[a] = 0 /\ MaxAttempts \in Nat
  BY RegistrationAssumption DEF Init
<1>5. QED
  BY <1>1, <1>2, <1>3, <1>4 DEF GuessSound

\* However many verifications race, are delivered twice or are cut off by a
\* restart, an agent's code is compared at most maxVerificationAttempts times,
\* and each time for a signed request of its own (VerifyAgentConfirmationCode
\* behind consumeSignatureOrReject).
THEOREM GuessesBounded == Spec => []GuessesAreBounded
<1> DEFINE Inv == \A a \in AgentIds : GuessSound(a)
<1>1. Init => Inv
  BY GuessInit
<1>2. RegistrationInv /\ ReplayInv /\ Inv /\ [Next]_vars => Inv'
  BY GuessStep
<1>3. RegistrationInv /\ Inv => GuessesAreBounded
  <2> SUFFICES ASSUME RegistrationInv, Inv, NEW a \in AgentIds
               PROVE  guesses[a] <= MaxAttempts /\ guesses[a] <= Cardinality(HonouredFor(a))
    BY DEF GuessesAreBounded
  <2>1. /\ Cardinality(Comparing(a)) \in Nat
        /\ Cardinality(Guessing(a)) \in Nat
        /\ Cardinality(HonouredFor(a)) \in Nat
        /\ guesses[a] \in Nat /\ agents[a].attempts \in Nat /\ MaxAttempts \in Nat
    BY GuessSizes
  <2>2. QED
    BY <2>1 DEF GuessSound
<1>4. QED
  BY <1>1, <1>2, <1>3, RegistrationInvHolds, PTL DEF Spec
=============================================================================
