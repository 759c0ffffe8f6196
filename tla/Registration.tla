---------------------------- MODULE Registration ----------------------------
(***************************************************************************)
(* How an agent comes to be registered: the user creates an invite, the    *)
(* agent redeems it with a signed request and becomes pending, and is      *)
(* registered by a confirmation code it sends in another signed request,   *)
(* or by the user's click.  The user may deactivate it at any time.        *)
(*                                                                         *)
(* Signed requests pass the replay check of SignatureReplay first; what    *)
(* their handlers do once admitted is task.  Invites are created in a      *)
(* deferred transaction that counts before it inserts; there is no         *)
(* advisory lock on SQLite, and what keeps the count true is that a        *)
(* transaction whose snapshot is outdated cannot become a writer.          *)
(***************************************************************************)
EXTENDS SignatureReplay

CONSTANTS
    Body,          \* what each signed request asks for
    InviteIds,
    AgentIds,
    Creators,      \* goroutines creating invites
    InviteTTL,     \* ticks an invite lives
    RegisterTTL,   \* ticks a pending agent has to verify
    RateWindow,    \* inviteRateWindow, in ticks
    RateLimit,     \* inviteRateLimit
    MaxAttempts,   \* maxVerificationAttempts
    NoInvite

RegisterBody == [kind : {"register"}, invite : InviteIds]
VerifyBody == [kind : {"verify"}, agent : AgentIds, right : BOOLEAN]

ASSUME BodyAssumption == Body \in [Signatures -> RegisterBody \cup VerifyBody]
ASSUME RegistrationAssumption ==
    /\ {InviteTTL, RegisterTTL, RateWindow, RateLimit, MaxAttempts} \subseteq Nat
    /\ NoInvite \notin InviteIds
    /\ IsFiniteSet(InviteIds)

VARIABLES
    invites,  \* registration_invites
    agents,   \* agents
    creator,  \* the invite transactions: idle, counted, or outdated
    task,     \* what a server does for an admitted request
    guesses   \* codes compared with each agent's

regVars == <<invites, agents, creator, task, guesses>>
vars == <<replayVars, regVars>>

Invite == [status : {"absent", "active", "consumed"}, expires : Nat, created : Nat]
Agent == [status : {"absent", "pending", "registered", "deactivated"},
          expires : Nat, attempts : Nat, invite : InviteIds \cup {NoInvite}]

TypeOK ==
    /\ ReplayTypeOK
    /\ invites \in [InviteIds -> Invite]
    /\ agents \in [AgentIds -> Agent]
    /\ creator \in [Creators -> {"idle", "counted", "outdated"}]
    /\ task \in [Servers -> {"none", "compare", "register"}]
    /\ guesses \in [AgentIds -> Nat]

Init ==
    /\ ReplayInit
    /\ invites = [i \in InviteIds |-> [status |-> "absent", expires |-> 0, created |-> 0]]
    /\ agents = [a \in AgentIds |->
           [status |-> "absent", expires |-> 0, attempts |-> 0, invite |-> NoInvite]]
    /\ creator = [c \in Creators |-> "idle"]
    /\ task = [w \in Servers |-> "none"]
    /\ guesses = [a \in AgentIds |-> 0]

\* Any commit makes the snapshot of an open transaction too old to write from.
Commit == creator' = [c \in Creators |-> IF creator[c] = "counted" THEN "outdated" ELSE creator[c]]

-----------------------------------------------------------------------------
(* Invites *)

\* SELECT COUNT(*) ... created_at > now - window, in milliseconds both.
RecentInvites ==
    {i \in InviteIds : invites[i].status # "absent" /\ invites[i].created > now - RateWindow}

\* CreateRegistrationInviteIfUnderLimit up to its count, which fixes the
\* snapshot.  At the limit the handler answers 429.
CountInvites(c) ==
    /\ creator[c] = "idle"
    /\ Cardinality(RecentInvites) < RateLimit
    /\ creator' = [creator EXCEPT ![c] = "counted"]
    /\ UNCHANGED <<replayVars, invites, agents, task, guesses>>

\* Mutant: the count and the insert are two statements of their own.
CreateInviteUnlocked(c, i) ==
    /\ creator[c] # "idle"
    /\ invites[i].status = "absent"
    /\ invites' = [invites EXCEPT ![i] = [status |-> "active", expires |-> now + InviteTTL, created |-> now]]
    /\ creator' = [d \in Creators |-> IF d = c THEN "idle"
                                      ELSE IF creator[d] = "counted" THEN "outdated" ELSE creator[d]]
    /\ UNCHANGED <<replayVars, agents, task, guesses>>

\* The insert and the commit: the transaction becomes the writer.
CreateInvite(c, i) ==
    /\ creator[c] = "counted"
    /\ invites[i].status = "absent"
    /\ invites' = [invites EXCEPT ![i] = [status |-> "active", expires |-> now + InviteTTL, created |-> now]]
    /\ creator' = [d \in Creators |-> IF d = c THEN "idle"
                                      ELSE IF creator[d] = "counted" THEN "outdated" ELSE creator[d]]
    /\ UNCHANGED <<replayVars, agents, task, guesses>>

\* SQLITE_BUSY: another commit came between, and the handler answers 500.
CreateBusy(c) ==
    /\ creator[c] = "outdated"
    /\ creator' = [creator EXCEPT ![c] = "idle"]
    /\ UNCHANGED <<replayVars, invites, agents, task, guesses>>

-----------------------------------------------------------------------------
(* Signed requests *)

\* A verification is looked up by its agent, whose key must be known; a
\* registration carries its own key.
Receive(w, s) ==
    /\ Verify(w, s)
    /\ Body[s].kind = "verify" => agents[Body[s].agent].status # "absent"
    /\ UNCHANGED regVars

\* The replay check's insert.
Admit(w) == Consume(w) /\ Commit /\ UNCHANGED <<invites, agents, task, guesses>>

Reject(w) == Refuse(w) /\ UNCHANGED regVars

Asks(w) == Body[server[w].sig]

\* The handler answers.
Answer(w) ==
    /\ Serve(w)
    /\ task' = [task EXCEPT ![w] = "none"]

\* ConsumeInvite: julianday() keeps the milliseconds.
Redeemable(i) == invites[i].status = "active" /\ invites[i].expires > now

\* Mutant: the invite is consumed in a transaction of its own.
RedeemUnrolled(w, a) ==
    /\ server[w].pc = "admitted"
    /\ Asks(w).kind = "register"
    /\ Redeemable(Asks(w).invite)
    /\ agents[a].status = "absent"
    /\ invites' = [invites EXCEPT ![Asks(w).invite].status = "consumed"]
    /\ Commit
    /\ Answer(w)
    /\ UNCHANGED <<agents, guesses>>

\* handleRegisterAgent's transaction: ConsumeInvite, InsertPendingAgent and
\* the audit event.  It writes first, so it is alone.
Redeem(w, a) ==
    /\ server[w].pc = "admitted"
    /\ Asks(w).kind = "register"
    /\ Redeemable(Asks(w).invite)
    /\ agents[a].status = "absent"
    /\ invites' = [invites EXCEPT ![Asks(w).invite].status = "consumed"]
    /\ agents' = [agents EXCEPT ![a] = [status |-> "pending", expires |-> now + RegisterTTL,
                                        attempts |-> 0, invite |-> Asks(w).invite]]
    /\ Commit
    /\ Answer(w)
    /\ UNCHANGED guesses

\* 404, 409, 410 or 423, or a step of the transaction failed and it was rolled
\* back.
RedeemFails(w) ==
    /\ server[w].pc = "admitted"
    /\ Asks(w).kind = "register"
    /\ ~Redeemable(Asks(w).invite) \/ "rollback" \in SigFaults
    /\ Answer(w)
    /\ UNCHANGED <<invites, agents, creator, guesses>>

-----------------------------------------------------------------------------
(* Confirmation codes *)

\* The UPDATE of VerifyAgentConfirmationCode that counts the attempt.
MayAttempt(a) ==
    /\ agents[a].status = "pending"
    /\ ~SQLExpired(agents[a].expires, now)
    /\ agents[a].attempts < MaxAttempts

\* Mutant: the attempt is only counted when the code turns out wrong.
CountAttemptWrong(w) ==
    LET a == Asks(w).agent IN
    /\ server[w].pc = "admitted"
    /\ Asks(w).kind = "verify"
    /\ task[w] = "none"
    /\ MayAttempt(a)
    /\ task' = [task EXCEPT ![w] = "compare"]
    /\ UNCHANGED <<replayVars, invites, agents, creator, guesses>>

\* It counts before the code is compared.
CountAttempt(w) ==
    LET a == Asks(w).agent IN
    /\ server[w].pc = "admitted"
    /\ Asks(w).kind = "verify"
    /\ task[w] = "none"
    /\ MayAttempt(a)
    /\ agents' = [agents EXCEPT ![a].attempts = @ + 1]
    /\ task' = [task EXCEPT ![w] = "compare"]
    /\ Commit
    /\ UNCHANGED <<replayVars, invites, guesses>>

\* diagnosePendingAgent: 404, 409 or 410.
AttemptRefused(w) ==
    /\ server[w].pc = "admitted"
    /\ Asks(w).kind = "verify"
    /\ task[w] = "none"
    /\ ~MayAttempt(Asks(w).agent)
    /\ Answer(w)
    /\ UNCHANGED <<invites, agents, creator, guesses>>

\* ConstantTimeCompare.  A wrong code is answered with 401.
Compare(w) ==
    /\ task[w] = "compare"
    /\ guesses' = [guesses EXCEPT ![Asks(w).agent] = @ + 1]
    /\ \/ /\ Asks(w).right
          /\ task' = [task EXCEPT ![w] = "register"]
          /\ UNCHANGED replayVars
       \/ /\ ~Asks(w).right
          /\ Answer(w)
    /\ UNCHANGED <<invites, agents, creator>>

\* Mutant: the second UPDATE forgets status = 'pending'.
RegisterVerifiedAnyStatus(w) ==
    /\ task[w] = "register"
    /\ agents' = [agents EXCEPT ![Asks(w).agent].status = "registered"]
    /\ Commit
    /\ Answer(w)
    /\ UNCHANGED <<invites, guesses>>

\* The second UPDATE, WHERE status = 'pending', and the best-effort audit
\* event; 409 if the agent is no longer pending.
RegisterVerified(w) ==
    LET a == Asks(w).agent IN
    /\ task[w] = "register"
    /\ \/ /\ agents[a].status = "pending"
          /\ agents' = [agents EXCEPT ![a].status = "registered"]
          /\ Commit
       \/ /\ agents[a].status # "pending"
          /\ UNCHANGED <<agents, creator>>
    /\ Answer(w)
    /\ UNCHANGED <<invites, guesses>>

-----------------------------------------------------------------------------
(* The dashboard *)

\* handleRegisterAgentDashboard: no code, no attempt limit, no expiry.
RegisterAgent(a) ==
    /\ agents[a].status = "pending"
    /\ agents' = [agents EXCEPT ![a].status = "registered"]
    /\ Commit
    /\ UNCHANGED <<replayVars, invites, task, guesses>>

\* handleDeactivateAgent.  (What it does to standing approvals is an action of
\* StandingApprovals.)
DeactivateAgent(a) ==
    /\ agents[a].status \in {"pending", "registered"}
    /\ agents' = [agents EXCEPT ![a].status = "deactivated"]
    /\ Commit
    /\ UNCHANGED <<replayVars, invites, task, guesses>>

-----------------------------------------------------------------------------

\* The cleanup job deletes rows; the clock ticks; a restart loses every goroutine.
Sweep == Cleanup /\ Commit /\ UNCHANGED <<invites, agents, task, guesses>>
Tick == ReplayTick /\ UNCHANGED regVars
Crash ==
    /\ ReplayCrash
    /\ creator' = [c \in Creators |-> "idle"]
    /\ task' = [w \in Servers |-> "none"]
    /\ UNCHANGED <<invites, agents, guesses>>

Next ==
    \/ \E c \in Creators :
          \/ CountInvites(c)
          \/ \E i \in InviteIds : CreateInvite(c, i)
          \/ CreateBusy(c)
    \/ \E w \in Servers :
          \/ \E s \in Signatures : Receive(w, s)
          \/ Admit(w)
          \/ Reject(w)
          \/ \E a \in AgentIds : Redeem(w, a)
          \/ RedeemFails(w)
          \/ CountAttempt(w)
          \/ AttemptRefused(w)
          \/ Compare(w)
          \/ RegisterVerified(w)
    \/ \E a \in AgentIds : RegisterAgent(a) \/ DeactivateAgent(a)
    \/ Sweep
    \/ Tick
    \/ Crash

Spec == Init /\ [][Next]_vars

-----------------------------------------------------------------------------
(* Properties *)

\* An invite and the agent it admitted come together or not at all, and an
\* invite admits one agent (the transaction of handleRegisterAgent).
InviteAdmitsOne ==
    \A i \in InviteIds :
        LET admitted == {a \in AgentIds : agents[a].invite = i}
        IN  /\ \A a, b \in admitted : a = b
            /\ invites[i].status = "consumed" <=> admitted # {}

\* No user ever has more recent invites than the limit, although counting and
\* inserting are separate and nothing locks (CreateRegistrationInviteIfUnderLimit).
InviteLimitHolds == Cardinality(RecentInvites) <= RateLimit

\* The signed requests for agent a whose codes may have been compared.
HonouredFor(a) ==
    {s \in Signatures : Body[s].kind = "verify" /\ Body[s].agent = a /\ honoured[s] > 0}

\* However many verifications race, an agent's code is compared with at most
\* MaxAttempts others, and a request delivered twice costs one of them at most
\* (VerifyAgentConfirmationCode behind consumeSignatureOrReject).
GuessesAreBounded ==
    \A a \in AgentIds : guesses[a] <= MaxAttempts /\ guesses[a] <= Cardinality(HonouredFor(a))

Stage == [absent |-> 0, pending |-> 1, registered |-> 2, deactivated |-> 3]

\* An agent never goes back: a verification that has passed its comparison when
\* the user deactivates the agent does not register it.
AgentsOnlyAdvance ==
    [][\A a \in AgentIds : Stage[agents'[a].status] >= Stage[agents[a].status]]_vars

-----------------------------------------------------------------------------
(* The inductive form *)

\* Only a verification that was admitted is worked on.
TasksAreVerifications ==
    \A w \in Servers : task[w] # "none" => server[w].pc = "admitted" /\ Asks(w).kind = "verify"

AbsentHasNoInvite == \A a \in AgentIds : agents[a].status = "absent" => agents[a].invite = NoInvite

\* What was counted in a snapshot that may still be written from is true.
CountIsTrue == \A c \in Creators : creator[c] = "counted" => Cardinality(RecentInvites) < RateLimit

\* The verifications of agent a that were admitted and have yet to compare
\* their code, and those of them that have counted their attempt.
Guessing(a) ==
    {w \in Servers : server[w].pc = "admitted" /\ Asks(w).kind = "verify" /\ Asks(w).agent = a
                     /\ task[w] # "register"}
Comparing(a) == {w \in Guessing(a) : task[w] = "compare"}

\* Every comparison, made or still to come, has its attempt and its own signed
\* request.
GuessSound(a) ==
    /\ guesses[a] + Cardinality(Comparing(a)) <= agents[a].attempts
    /\ agents[a].attempts <= MaxAttempts
    /\ agents[a].status = "absent" => agents[a].attempts = 0
    /\ guesses[a] + Cardinality(Guessing(a)) <= Cardinality(HonouredFor(a))
    /\ IsFiniteSet(Guessing(a)) /\ IsFiniteSet(HonouredFor(a))
=============================================================================
