------------------------------ MODULE AgentWake ------------------------------
(***************************************************************************)
(* How the agent learns that an approval was resolved.  Three layers:      *)
(*   push    a wake POSTed by the handler that decided, or by the expiry   *)
(*           job, retried a few times;                                     *)
(*   sweep   the agent lists its approvals on every heartbeat;             *)
(*   watch   a detached CLI process that polls one approval.               *)
(* The approvals themselves are those of Approvals, reduced to the columns *)
(* these layers read.                                                      *)
(***************************************************************************)
EXTENDS SQLiteTime, FiniteSets

CONSTANTS
    ApprovalIds,
    TTLs,          \* lifetimes, in ticks
    TicksPerDay,
    Window,        \* the sweep's default look-back (24 h)
    SinceModes,    \* "window": that default; "last": the agent passes its last sweep
    Heartbeat,     \* the agent sweeps at least this often
    Limit,         \* rows the expiry job lists per run (50)
    MaxAttempts,   \* POSTs per wake (5)
    Fallback,      \* how long a watcher that knows no expiry waits (24 h)
    MaxNow,        \* bound: the last instant
    Faults,        \* which failures the environment may produce
    Layers         \* which of the layers are in use

ASSUME LimitAssumption == Limit \in Nat \ {0}
ASSUME MaxAttemptsAssumption == MaxAttempts \in Nat \ {0}
ASSUME DayAssumption == TicksPerDay \in Nat \ {0}
\* The default window exceeds the heartbeat by a second at least (24 h).
ASSUME HeartbeatAssumption ==
    /\ Heartbeat \in Nat /\ Window \in Nat
    /\ Heartbeat + TicksPerSecond <= Window
ASSUME LifetimeAssumption == TTLs \subseteq Nat /\ MaxNow \in Nat /\ Fallback \in Nat

VARIABLES
    now,         \* the wall clock, of server and agent
    row,         \* the approvals table
    owed,        \* <<approval, status>> decided, its handler still to send a wake
    job,         \* approvals the running expiry job has yet to look at
    dispatched,  \* expiryWakeDispatched, in memory
    wakes,       \* wakes being delivered
    sent,        \* wakes started for each approval since the process started
    received,    \* <<approval, status>> the agent was woken with
    lastBeat,    \* when the agent last swept
    swept,       \* <<approval, status>> learnt by sweeping
    watcher,     \* the CLI processes
    notified     \* <<approval, status>> a watcher announced

serverVars == <<owed, job, dispatched, wakes, sent, received>>
agentVars == <<lastBeat, swept, watcher, notified>>
vars == <<now, row, serverVars, agentVars>>

Resolutions == {"approved", "denied", "cancelled"}
Statuses == {"pending", "expired"} \cup Resolutions

Row == [status : {"absent", "pending"} \cup Resolutions, expires : Nat, resolved : Nat]
Wake == [id : ApprovalIds, status : Statuses, attempt : 1..MaxAttempts]
Answers == {"error", "not_found"} \cup Statuses
\* until: effectiveExpiresAt
Watcher == [pc : {"off", "poll", "judge", "done"}, seen : {"none"} \cup Answers, until : Nat]

TypeOK ==
    /\ now \in Nat
    /\ row \in [ApprovalIds -> Row]
    /\ owed \in SUBSET (ApprovalIds \X Resolutions)
    /\ job \in SUBSET ApprovalIds
    /\ dispatched \in SUBSET ApprovalIds
    /\ wakes \in SUBSET Wake
    /\ sent \in [ApprovalIds -> Nat]
    /\ received \in SUBSET (ApprovalIds \X Statuses)
    /\ lastBeat \in Nat
    /\ swept \in SUBSET (ApprovalIds \X Statuses)
    /\ watcher \in [ApprovalIds -> Watcher]
    /\ notified \in SUBSET (ApprovalIds \X Answers)

NothingYet ==
    /\ row = [a \in ApprovalIds |-> [status |-> "absent", expires |-> 0, resolved |-> 0]]
    /\ owed = {} /\ job = {} /\ dispatched = {} /\ wakes = {}
    /\ sent = [a \in ApprovalIds |-> 0]
    /\ received = {} /\ swept = {} /\ notified = {}
    /\ lastBeat = 0
    /\ watcher = [a \in ApprovalIds |-> [pc |-> "off", seen |-> "none", until |-> 0]]

Init == now = 0 /\ NothingYet

-----------------------------------------------------------------------------
(* The table *)

\* resolvedApprovalStatus
ResolvedStatus(a) ==
    IF row[a].status = "pending" /\ GoExpired(row[a].expires, now)
    THEN "expired"
    ELSE row[a].status

\* status = 'pending' AND datetime(expires_at) <= datetime('now')
ExpiredPending(a) ==
    /\ row[a].status = "pending"
    /\ SQLExpired(row[a].expires, now)

\* An approval is requested; its whole life is within the bound.
Request(a, ttl) ==
    /\ row[a].status = "absent"
    /\ now + ttl < MaxNow
    /\ row' = [row EXCEPT ![a].status = "pending", ![a].expires = now + ttl]
    /\ UNCHANGED <<now, serverVars, agentVars>>

\* Mutant: the UPDATE forgets the expiry.
DecideLate(a, status) ==
    /\ row[a].status = "pending"
    /\ row' = [row EXCEPT ![a].status = status, ![a].resolved = now]
    /\ owed' = owed \cup {<<a, status>>}
    /\ UNCHANGED <<now, job, dispatched, wakes, sent, received, agentVars>>

\* The UPDATE of resolveApproval, CancelApproval and the bulk denials.
Decide(a, status) ==
    /\ row[a].status = "pending"
    /\ ~SQLExpired(row[a].expires, now)
    /\ row' = [row EXCEPT ![a].status = status, ![a].resolved = now]
    /\ owed' = owed \cup {<<a, status>>}
    /\ UNCHANGED <<now, job, dispatched, wakes, sent, received, agentVars>>

-----------------------------------------------------------------------------
(* Push *)

\* notifyAgentWake starts a goroutine; the status is fixed here.
StartWake(a, status) ==
    /\ wakes' = wakes \cup {[id |-> a, status |-> status, attempt |-> 1]}
    /\ sent' = [sent EXCEPT ![a] = @ + 1]

\* notifyAgentApprovalResolved at the end of the deciding handler.
NotifyDecision(a, status) ==
    /\ <<a, status>> \in owed
    /\ owed' = owed \ {<<a, status>>}
    /\ StartWake(a, status)
    /\ UNCHANGED <<now, row, job, dispatched, received, agentVars>>

\* Mutant: the listing forgets status = 'pending'.
ListExpiredAnyStatus ==
    /\ "push" \in Layers
    /\ job = {}
    /\ \E ids \in SUBSET {a \in ApprovalIds : row[a].status # "absent" /\ SQLExpired(row[a].expires, now)} :
          job' = ids
    /\ UNCHANGED <<now, row, owed, dispatched, wakes, sent, received, agentVars>>

\* runApprovalExpiryWake, the listing: the Limit oldest expired approvals that
\* are still pending, which is what an expired approval stays.
ListExpired ==
    /\ "push" \in Layers
    /\ job = {}
    /\ \E ids \in SUBSET {a \in ApprovalIds : ExpiredPending(a)} :
          /\ Cardinality(ids) <= Limit
          /\ \A b \in ApprovalIds \ ids : ExpiredPending(b) =>
                /\ Cardinality(ids) = Limit
                /\ \A a \in ids : row[a].expires <= row[b].expires
          /\ job' = ids
    /\ UNCHANGED <<now, row, owed, dispatched, wakes, sent, received, agentVars>>

\* Mutant: a wake that would say "pending" is skipped, but stays marked.
ExpiryWakeSkipsPending(a) ==
    /\ a \in job
    /\ job' = job \ {a}
    /\ dispatched' = dispatched \cup {a}
    /\ IF a \in dispatched \/ ResolvedStatus(a) = "pending"
       THEN UNCHANGED <<wakes, sent>>
       ELSE StartWake(a, ResolvedStatus(a))
    /\ UNCHANGED <<now, row, owed, received, agentVars>>

\* One turn of the job's loop, oldest first: LoadOrStore, then the row is read
\* again.  If that read fails the approval stays marked.
ExpiryWake(a) ==
    /\ a \in job
    /\ \A b \in job : row[a].expires <= row[b].expires
    /\ job' = job \ {a}
    /\ dispatched' = dispatched \cup {a}
    /\ \/ /\ a \in dispatched \/ "read" \in Faults
          /\ UNCHANGED <<wakes, sent>>
       \/ /\ a \notin dispatched
          /\ StartWake(a, ResolvedStatus(a))
    /\ UNCHANGED <<now, row, owed, received, agentVars>>

\* buildAgentWakeDelivery: the webhook and its token cannot be read.
DropWake(w) ==
    /\ "credentials" \in Faults
    /\ w.attempt = 1
    /\ wakes' = wakes \ {w}
    /\ UNCHANGED <<now, row, owed, job, dispatched, sent, received, agentVars>>

\* Mutant: one attempt too many.
PostOnceMore(w) ==
    \E arrives, answered \in BOOLEAN :
        /\ ~arrives => "unreachable" \in Faults /\ ~answered
        /\ arrives /\ ~answered => "answer" \in Faults
        /\ received' = IF arrives THEN received \cup {<<w.id, w.status>>} ELSE received
        /\ wakes' = IF answered \/ w.attempt > MaxAttempts
                    THEN wakes \ {w}
                    ELSE (wakes \ {w}) \cup {[w EXCEPT !.attempt = @ + 1]}
        /\ UNCHANGED <<now, row, owed, job, dispatched, sent, agentVars>>

\* DeliverPOST, one attempt: it succeeds, arrives though the answer is lost, or
\* does not arrive.  The last two are retried until MaxAttempts.  Backoff and
\* timeouts add up to less than the two minutes the wake may take.
Post(w) ==
    \E arrives, answered \in BOOLEAN :
        /\ ~arrives => "unreachable" \in Faults /\ ~answered
        /\ arrives /\ ~answered => "answer" \in Faults
        /\ received' = IF arrives THEN received \cup {<<w.id, w.status>>} ELSE received
        /\ wakes' = IF answered \/ w.attempt = MaxAttempts
                    THEN wakes \ {w}
                    ELSE (wakes \ {w}) \cup {[w EXCEPT !.attempt = @ + 1]}
        /\ UNCHANGED <<now, row, owed, job, dispatched, sent, agentVars>>

-----------------------------------------------------------------------------
(* Sweep *)

\* The resolved_since of a sweep: the default, or the agent's own last sweep,
\* which it knows to the second.
Since(mode) ==
    IF mode = "window" THEN now - Window ELSE Datetime(lastBeat) * TicksPerSecond

\* COALESCE(approved_at, ...) >= $2 on text.  strftime always writes a fraction
\* and RFC3339Nano drops an empty one; '.' sorts before 'Z', so a whole-second
\* $2 is greater than every instant of its second.
StampAtLeast(t, since) ==
    /\ t >= since
    /\ since % TicksPerSecond = 0 => Datetime(t) > Datetime(since)

\* datetime(expires_at) >= $2 on text: datetime() puts a blank where RFC3339
\* has a 'T', so on the same date it is always smaller.
DatetimeAtLeast(t, since) == t \div TicksPerDay > since \div TicksPerDay

\* Mutant: approvals resolved at the last sweep are not listed.
SweptNarrow(since) ==
    {<<a, row[a].status>> : a \in {b \in ApprovalIds :
        row[b].status \in Resolutions /\ row[b].resolved >= now}}

\* The resolved half of ListAgentApprovalsForSweep.
Swept(since) ==
    LET listed == {a \in ApprovalIds :
            \/ row[a].status \in Resolutions /\ StampAtLeast(row[a].resolved, since)
            \/ ExpiredPending(a) /\ DatetimeAtLeast(row[a].expires, since)}
    IN  {<<a, ResolvedStatus(a)>> : a \in {b \in listed : ResolvedStatus(b) # "pending"}}

\* handleAgentApprovalSweep, on a heartbeat.
Sweep(mode) ==
    /\ "sweep" \in Layers
    /\ swept' = swept \cup Swept(Since(mode))
    /\ lastBeat' = now
    /\ UNCHANGED <<now, row, serverVars, watcher, notified>>

-----------------------------------------------------------------------------
(* Watch *)

\* permission-slip watch: it is given the expiry, or asks for it; if that fails it
\* will wait for Fallback, which is within the bound.
WatchStart(a) ==
    /\ "watch" \in Layers
    /\ row[a].status # "absent"
    /\ watcher[a].pc = "off"
    /\ \/ watcher' = [watcher EXCEPT ![a].pc = "poll", ![a].until = row[a].expires]
       \/ /\ {"error", "not_found"} \cap Faults # {}
          /\ now + Fallback <= MaxNow
          /\ watcher' = [watcher EXCEPT ![a].pc = "poll", ![a].until = now + Fallback]
    /\ UNCHANGED <<now, row, serverVars, lastBeat, swept, notified>>

\* opts.poll(): the server's answer, with the expiry; an error; or a 404.
WatchPoll(a) ==
    /\ watcher[a].pc = "poll"
    /\ \/ watcher' = [watcher EXCEPT ![a] =
              [pc |-> "judge", seen |-> ResolvedStatus(a), until |-> row[a].expires]]
       \/ \E fault \in {"error", "not_found"} \cap Faults :
              watcher' = [watcher EXCEPT ![a] =
                  [pc |-> "judge", seen |-> fault, until |-> watcher[a].until]]
    /\ UNCHANGED <<now, row, serverVars, lastBeat, swept, notified>>

\* Mutant: after an error the expiry is not looked at.
WatchJudgeForever(a) ==
    /\ watcher[a].pc = "judge"
    /\ IF watcher[a].seen = "error"
       THEN /\ watcher' = [watcher EXCEPT ![a].pc = "poll"]
            /\ UNCHANGED notified
       ELSE /\ watcher' = [watcher EXCEPT ![a].pc = "done"]
            /\ notified' = notified \cup {<<a, watcher[a].seen>>}
    /\ UNCHANGED <<now, row, serverVars, lastBeat, swept>>

\* runWatchLoop after the answer: announce a status that is not pending, or that
\* nothing was found; past the expiry announce "expired"; otherwise sleep and poll
\* again.
WatchJudge(a) ==
    LET seen == watcher[a].seen
        open == seen \in {"pending", "error"}
    IN
    /\ watcher[a].pc = "judge"
    /\ \/ /\ ~open
          /\ notified' = notified \cup {<<a, seen>>}
          /\ watcher' = [watcher EXCEPT ![a].pc = "done"]
       \/ /\ open
          /\ now >= watcher[a].until
          /\ notified' = notified \cup {<<a, "expired">>}
          /\ watcher' = [watcher EXCEPT ![a].pc = "done"]
       \/ /\ open
          /\ now < watcher[a].until
          /\ watcher' = [watcher EXCEPT ![a].pc = "poll"]
          /\ UNCHANGED notified
    /\ UNCHANGED <<now, row, serverVars, lastBeat, swept>>

-----------------------------------------------------------------------------

\* Time passes, but no heartbeat is skipped.
Tick ==
    /\ now < MaxNow
    /\ "sweep" \in Layers => now - lastBeat < Heartbeat
    /\ now' = now + 1
    /\ UNCHANGED <<row, serverVars, agentVars>>

\* The server restarts: goroutines and the dispatched map are gone.
Crash ==
    /\ "crash" \in Faults
    /\ owed' = {} /\ job' = {} /\ dispatched' = {} /\ wakes' = {}
    /\ sent' = [a \in ApprovalIds |-> 0]
    /\ UNCHANGED <<now, row, received, agentVars>>

\* The steps of the goroutines that serve one approval.
Deliver(a) ==
    \/ \E status \in Resolutions : NotifyDecision(a, status)
    \/ \E w \in wakes : w.id = a /\ Post(w)

WatchStep(a) == WatchPoll(a) \/ WatchJudge(a)

Next ==
    \/ \E a \in ApprovalIds, ttl \in TTLs : Request(a, ttl)
    \/ \E a \in ApprovalIds, status \in Resolutions : Decide(a, status)
    \/ ListExpired
    \/ \E a \in ApprovalIds : ExpiryWake(a) \/ Deliver(a)
    \/ \E w \in wakes : DropWake(w)
    \/ \E mode \in SinceModes : Sweep(mode)
    \/ \E a \in ApprovalIds : WatchStart(a) \/ WatchStep(a)
    \/ Tick
    \/ Crash

Spec == Init /\ [][Next]_vars

\* The clock runs, the job's ticker fires, goroutines and watchers go on.
Fairness ==
    /\ WF_vars(Tick)
    /\ WF_vars(ListExpired)
    /\ WF_vars(\E a \in ApprovalIds : ExpiryWake(a))
    /\ \A a \in ApprovalIds : WF_vars(Deliver(a)) /\ WF_vars(WatchStep(a))

FairSpec == Spec /\ Fairness

-----------------------------------------------------------------------------
(* Properties *)

\* A wake never contradicts the table: a decision it carries is the row's, and an
\* approval it calls expired can never be decided any more
\* (NotifyAgentApprovalResolvedSync).
PushTellsTruth ==
    \A a \in ApprovalIds :
        /\ \A s \in Resolutions : <<a, s>> \in received => row[a].status = s
        /\ <<a, "expired">> \in received => ExpiredPending(a)

\* What docs/integrations/openclaw.md says of a wake: its "status is approved,
\* denied, cancelled, expired, or test".
WakeStatusIsDocumented == \A a \in ApprovalIds : <<a, "pending">> \notin received

\* Handlers and the expiry job between them start one wake for an approval in
\* the life of the process (expiryWakeDispatched).
OneWakePerApproval == \A a \in ApprovalIds : sent[a] <= 1

\* A heartbeat that comes after a decision reports it, if every heartbeat is in
\* time (ListAgentApprovalsForSweep).
SweepCatchesDecisions ==
    \A a \in ApprovalIds :
        row[a].status \in Resolutions /\ row[a].resolved < lastBeat =>
            <<a, row[a].status>> \in swept

\* A heartbeat that comes after an expiry reports it.
SweepCatchesExpired ==
    \A a \in ApprovalIds :
        row[a].status = "pending" /\ GoExpired(row[a].expires, lastBeat) =>
            <<a, "expired">> \in swept

\* Every approval that expires is pushed to the agent, in a wake that calls it
\* expired or, within the second of its expiry, still pending.
ExpiryIsPushed ==
    \A a \in ApprovalIds : ExpiredPending(a) ~> (\E s \in Statuses : <<a, s>> \in received)

\* A watcher always returns, however many of its polls fail (runWatchLoop).
WatchReturns ==
    \A a \in ApprovalIds : (watcher[a].pc = "poll") ~> (watcher[a].pc = "done")

-----------------------------------------------------------------------------
(* The inductive form *)

\* What a wake with this status says of the approval is so, and stays so.
Holds(a, s) == IF s \in Resolutions THEN row[a].status = s ELSE ExpiredPending(a)

\* Wakes received, under way and owed tell the truth; the job and its marks
\* are about approvals that have expired; a wake was started only for an
\* approval whose handler has nothing left to send and, while it is pending,
\* only by the job.
WakeSound(a) ==
    /\ \A s \in Statuses : <<a, s>> \in received => Holds(a, s)
    /\ \A w \in wakes : w.id = a => Holds(a, w.status)
    /\ \A s \in Resolutions : <<a, s>> \in owed => row[a].status = s /\ sent[a] = 0
    /\ a \in job \cup dispatched => ExpiredPending(a)
    /\ sent[a] \in {0, 1}
    /\ sent[a] = 1 => row[a].status # "absent" /\ (row[a].status = "pending" => a \in dispatched)

\* A watcher was started for an approval that exists, and judges an answer.
WatchSound(a) ==
    /\ watcher[a].pc # "off" => row[a].status # "absent"
    /\ watcher[a].pc = "judge" => watcher[a].seen # "none"

AgentWakeInv == TypeOK /\ \A a \in ApprovalIds : WakeSound(a) /\ WatchSound(a)

\* No heartbeat is late and no decision lies in the future.
BeatSound ==
    /\ lastBeat <= now
    /\ "sweep" \in Layers => now - lastBeat <= Heartbeat
    /\ \A a \in ApprovalIds : row[a].status \in Resolutions => row[a].resolved <= now
=============================================================================
