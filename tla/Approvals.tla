------------------------------ MODULE Approvals ------------------------------
(***************************************************************************)
(* The life of one-off approvals: an agent asks (one action or a bulk      *)
(* group), the approver approves, denies, denies all, or decides a bulk    *)
(* group, the agent cancels or polls, time passes, the process crashes.    *)
(*                                                                         *)
(* Every database transaction is one step; what a handler does between two *)
(* transactions, and the connector call, are steps of their own, so that   *)
(* handlers interleave as their goroutines do.  One agent and its approver *)
(* are modelled: every query is scoped to one of them, and approvals of    *)
(* different owners never meet.                                            *)
(***************************************************************************)
EXTENDS SQLiteTime, Sequences, FiniteSets

CONSTANTS
    ApprovalIds,   \* ids generatePrefixedID may hand out
    RequestIds,    \* request_ids the agent may choose
    Fingerprints,  \* distinct actions, told apart by ComputeActionFingerprint
    Groups,        \* bulk group ids
    Handlers,      \* goroutines serving the approver, and the agent's cancels
    Requesters,    \* goroutines serving the agent's requests
    TTLs,          \* lifetimes an approval may be given, in ticks
    Cooldown,      \* the denial cooldown, in ticks
    MaxNow,        \* bound: the last instant
    MaxDecisions,  \* bound: the length of a bulk decision list
    Faults,        \* which failures the environment may produce
    None           \* "no approval", "no draft", "no group"

ASSUME TTLAssumption == TTLs \subseteq Nat
ASSUME CooldownAssumption == Cooldown \in Nat
ASSUME MaxNowAssumption == MaxNow \in Nat
ASSUME MaxDecisionsAssumption == MaxDecisions \in Nat
ASSUME NoneAssumption ==
    /\ None \notin ApprovalIds
    /\ None \notin Groups
    /\ None \notin RequestIds
    /\ None \notin Fingerprints

VARIABLES
    now,        \* the wall clock
    approvals,  \* the approvals table
    requestIds, \* the request_ids table
    handler,    \* approver-side goroutines
    draft,      \* agent-side request goroutines
    calls,      \* connector calls made for each approval
    outcome,    \* what the external service did for each approval
    audit,      \* audit_events rows <<approval, event>>
    told        \* terminal statuses <<approval, status>> the agent has been given

vars == <<now, approvals, requestIds, handler, draft, calls, outcome, audit, told>>

-----------------------------------------------------------------------------
(* Types *)

Resolutions == {"approved", "denied", "cancelled"}
ExecResults == {"success", "error"}

Row == [status : {"absent", "pending"} \cup Resolutions,
        expires : Nat,
        fingerprint : Fingerprints \cup {None},
        group : Groups \cup {None},
        request : RequestIds \cup {None},
        checked : Nat,               \* when the cooldown was looked up
        resolved : Nat,              \* approved_at / denied_at / cancelled_at
        exec : {"null"} \cup ExecResults]

Decision == [id : ApprovalIds, verdict : {"approve", "deny"}]

Handler == [pc : {"idle", "approved", "execute", "persist", "audit", "notify", "bulk"},
            id : ApprovalIds \cup {None},
            status : {"null"} \cup Resolutions, \* of the rows its UPDATE returned
            todo : SUBSET ApprovalIds,   \* rows of a batch still to be announced
            result : {"null"} \cup ExecResults,
            bulk : BOOLEAN,
            decisions : Seq(Decision),   \* bulk decisions still to be applied
            snapshot : SUBSET ApprovalIds] \* group rows read as pending

\* A request that passed its checks, and one whose rows are to be announced.
CheckedDraft == [stage : {"checked"},
                 request : RequestIds,
                 fingerprint : Fingerprints,
                 expires : Nat,
                 checked : Nat]

InsertedDraft == [stage : {"inserted"}, ids : SUBSET ApprovalIds]

TypeOK ==
    /\ now \in Nat
    /\ approvals \in [ApprovalIds -> Row]
    /\ requestIds \in SUBSET RequestIds
    /\ handler \in [Handlers -> Handler]
    /\ draft \in [Requesters -> CheckedDraft \cup InsertedDraft \cup {None}]
    /\ calls \in [ApprovalIds -> Nat]
    /\ outcome \in [ApprovalIds -> {"none"} \cup ExecResults]
    /\ audit \in SUBSET (ApprovalIds \X ({"requested"} \cup Resolutions))
    /\ told \in SUBSET (ApprovalIds \X ({"expired"} \cup Resolutions))

-----------------------------------------------------------------------------
(* Reading a row *)

NoRow == [status |-> "absent", expires |-> 0, fingerprint |-> None, group |-> None,
          request |-> None, checked |-> 0, resolved |-> 0, exec |-> "null"]

Idle == [pc |-> "idle", id |-> None, status |-> "null", todo |-> {}, result |-> "null",
         bulk |-> FALSE, decisions |-> <<>>, snapshot |-> {}]

\* resolvedApprovalStatus: the status every response shows.
ResolvedStatus(a) ==
    IF approvals[a].status = "pending" /\ GoExpired(approvals[a].expires, now)
    THEN "expired"
    ELSE approvals[a].status

\* Mutant: the WHERE clause forgets status = 'pending'.
ResolvableAnyStatus(a) ==
    /\ approvals[a].status # "absent"
    /\ ~SQLExpired(approvals[a].expires, now)

\* Mutant: the WHERE clause forgets the expiry.
ResolvableForever(a) == approvals[a].status = "pending"

\* WHERE status = 'pending' AND datetime(expires_at) > datetime('now')
Resolvable(a) ==
    /\ approvals[a].status = "pending"
    /\ ~SQLExpired(approvals[a].expires, now)

\* Mutant: the lookup only sees standalone approvals.
RecentlyDeniedStandalone(fp) ==
    \E a \in ApprovalIds :
        /\ approvals[a].status = "denied"
        /\ approvals[a].fingerprint = fp
        /\ approvals[a].group = None
        /\ Datetime(approvals[a].resolved) > Datetime(now - Cooldown)

\* FindRecentDeniedApproval with since = now - cooldown.
RecentlyDenied(fp) ==
    \E a \in ApprovalIds :
        /\ approvals[a].status = "denied"
        /\ approvals[a].fingerprint = fp
        /\ Datetime(approvals[a].resolved) > Datetime(now - Cooldown)

\* BulkGroupAggregateStatus over the rows of group g.
GroupRows(g) == {a \in ApprovalIds : approvals[a].status # "absent" /\ approvals[a].group = g}

AggregateStatus(g) ==
    LET open == {a \in GroupRows(g) : ResolvedStatus(a) = "pending"}
    IN  CASE open = {} -> "resolved"
          [] open # {} /\ open = GroupRows(g) -> "pending"
          [] OTHER -> "partial"

Init ==
    /\ now = 0
    /\ approvals = [a \in ApprovalIds |-> NoRow]
    /\ requestIds = {}
    /\ handler = [h \in Handlers |-> Idle]
    /\ draft = [q \in Requesters |-> None]
    /\ calls = [a \in ApprovalIds |-> 0]
    /\ outcome = [a \in ApprovalIds |-> "none"]
    /\ audit = {}
    /\ told = {}

-----------------------------------------------------------------------------
(* The agent asks *)

\* handleAgentRequestApproval up to InsertApproval: the denial cooldown is
\* looked up and expires_at computed.  Resource details are then fetched from
\* the connector (up to 30 s) before the insert, so time may pass.  A request
\* that is recently denied is refused and leaves no trace.
CheckRequest(q, req, fp, ttl) ==
    /\ draft[q] = None
    /\ ~RecentlyDenied(fp)
    /\ draft' = [draft EXCEPT ![q] = [stage |-> "checked", request |-> req,
                                      fingerprint |-> fp, expires |-> now + ttl,
                                      checked |-> now]]
    /\ UNCHANGED <<now, approvals, requestIds, handler, calls, outcome, audit, told>>

NewRow(req, fp, exp, chk, g) ==
    [NoRow EXCEPT !.status = "pending", !.expires = exp, !.fingerprint = fp,
                  !.group = g, !.request = req, !.checked = chk]

\* Mutant: the insert ignores the request_ids table.
InsertApprovalTwice(q, a) ==
    /\ draft[q] # None
    /\ draft[q].stage = "checked"
    /\ approvals[a].status = "absent"
    /\ requestIds' = requestIds \cup {draft[q].request}
    /\ approvals' = [approvals EXCEPT ![a] =
           NewRow(draft[q].request, draft[q].fingerprint, draft[q].expires, draft[q].checked, None)]
    /\ draft' = [draft EXCEPT ![q] = [stage |-> "inserted", ids |-> {a}]]
    /\ UNCHANGED <<now, handler, calls, outcome, audit, told>>

\* InsertApproval: request_ids and approvals in one transaction.
InsertApproval(q, a) ==
    /\ draft[q] # None
    /\ draft[q].stage = "checked"
    /\ draft[q].request \notin requestIds
    /\ approvals[a].status = "absent"
    /\ requestIds' = requestIds \cup {draft[q].request}
    /\ approvals' = [approvals EXCEPT ![a] =
           NewRow(draft[q].request, draft[q].fingerprint, draft[q].expires, draft[q].checked, None)]
    /\ draft' = [draft EXCEPT ![q] = [stage |-> "inserted", ids |-> {a}]]
    /\ UNCHANGED <<now, handler, calls, outcome, audit, told>>

\* The early returns after the lookup: a duplicate request_id (409), a missing
\* profile, a failed id or insert (500).  Nothing is written.
RefuseRequest(q) ==
    /\ draft[q] # None
    /\ draft[q].stage = "checked"
    /\ draft[q].request \in requestIds \/ "insert" \in Faults
    /\ draft' = [draft EXCEPT ![q] = None]
    /\ UNCHANGED <<now, approvals, requestIds, handler, calls, outcome, audit, told>>

\* The rest of the request handlers: last_active_at, the approver's
\* notification, SSE, and the best-effort "approval.requested" events.
AnnounceRequest(q) ==
    /\ draft[q] # None
    /\ draft[q].stage = "inserted"
    /\ \/ audit' = audit \cup (draft[q].ids \X {"requested"})
       \/ "audit" \in Faults /\ audit' = audit
    /\ draft' = [draft EXCEPT ![q] = None]
    /\ UNCHANGED <<now, approvals, requestIds, handler, calls, outcome, told>>

\* Mutant: rows can join a group that is already being decided.
BulkRequestLate(q, g, request, fingerprint, ttl) ==
    LET ids == DOMAIN request IN
    /\ draft[q] = None
    /\ \A a \in ids : approvals[a].status = "absent" /\ request[a] \notin requestIds
    /\ \A a, b \in ids : request[a] = request[b] => a = b
    /\ requestIds' = requestIds \cup {request[a] : a \in ids}
    /\ approvals' = [a \in ApprovalIds |->
           IF a \in ids THEN NewRow(request[a], fingerprint[a], now + ttl, now, g)
                        ELSE approvals[a]]
    /\ UNCHANGED <<now, draft, handler, calls, outcome, audit, told>>

\* handleAgentBulkRequestApproval: the group, and one row for each item that
\* was not recently denied, in one transaction that holds the write lock from
\* its first insert.  request maps the new rows to request_ids; one that is
\* taken, by a row or by another item, rolls the whole group back.  expires_at
\* is computed a little earlier, which a shorter ttl stands for.
BulkRequest(q, g, request, fingerprint, ttl) ==
    LET ids == DOMAIN request IN
    /\ draft[q] = None
    /\ GroupRows(g) = {}
    /\ \A a \in ids :
          /\ approvals[a].status = "absent"
          /\ request[a] \notin requestIds
          /\ ~RecentlyDenied(fingerprint[a])
    /\ \A a, b \in ids : request[a] = request[b] => a = b
    /\ requestIds' = requestIds \cup {request[a] : a \in ids}
    /\ approvals' = [a \in ApprovalIds |->
           IF a \in ids THEN NewRow(request[a], fingerprint[a], now + ttl, now, g)
                        ELSE approvals[a]]
    /\ draft' = [draft EXCEPT ![q] = [stage |-> "inserted", ids |-> ids]]
    /\ UNCHANGED <<now, handler, calls, outcome, audit, told>>

-----------------------------------------------------------------------------
(* Resolving a row *)

\* The UPDATE of resolveApproval and CancelApproval, on the rows ids.
Resolve(ids, status) ==
    approvals' = [a \in ApprovalIds |->
        IF a \in ids THEN [approvals[a] EXCEPT !.status = status, !.resolved = now]
                     ELSE approvals[a]]

\* handleApproveApproval, first transaction: ApproveApproval.  Any row that is
\* not resolvable gives 404, 409 or 410 and changes nothing.
Approve(h, a) ==
    /\ handler[h].pc = "idle"
    /\ Resolvable(a)
    /\ Resolve({a}, "approved")
    /\ handler' = [handler EXCEPT ![h] = [Idle EXCEPT !.pc = "approved", !.id = a, !.status = "approved"]]
    /\ UNCHANGED <<now, requestIds, draft, calls, outcome, audit, told>>

\* The first transaction of the two handlers below, which share their next steps.
Close(h, a, status) ==
    /\ handler[h].pc = "idle"
    /\ Resolvable(a)
    /\ Resolve({a}, status)
    /\ handler' = [handler EXCEPT ![h] = [Idle EXCEPT !.pc = "audit", !.status = status, !.todo = {a}]]
    /\ UNCHANGED <<now, requestIds, draft, calls, outcome, audit, told>>

\* handleDenyApproval: the approver denies.
DenyApproval(h, a) == Close(h, a, "denied")

\* handleAgentCancelApproval: the agent withdraws its request.
CancelApproval(h, a) == Close(h, a, "cancelled")

\* DenyAllPendingStandaloneApprovals: one UPDATE over every resolvable row
\* outside bulk groups.
DenyAll(h) ==
    LET ids == {a \in ApprovalIds : Resolvable(a) /\ approvals[a].group = None} IN
    /\ handler[h].pc = "idle"
    /\ ids # {}
    /\ Resolve(ids, "denied")
    /\ handler' = [handler EXCEPT ![h] = [Idle EXCEPT !.pc = "audit", !.status = "denied", !.todo = ids]]
    /\ UNCHANGED <<now, requestIds, draft, calls, outcome, audit, told>>

\* handleDecideApprovalBulkGroup up to its loop: the group's rows are read once.
DecideBulkGroup(h, g, ds) ==
    /\ handler[h].pc = "idle"
    /\ GroupRows(g) # {}
    /\ handler' = [handler EXCEPT ![h] =
           [Idle EXCEPT !.pc = "bulk", !.bulk = TRUE, !.decisions = ds,
                        !.snapshot = {a \in GroupRows(g) : approvals[a].status = "pending"}]]
    /\ UNCHANGED <<now, approvals, requestIds, draft, calls, outcome, audit, told>>

\* One turn of its loop.  An item outside the group, or resolved in the
\* snapshot, is skipped; so is one whose UPDATE matches no row any more.
DecideItem(h) ==
    LET d  == Head(handler[h].decisions)
        ok == /\ d.id \in handler[h].snapshot
              /\ ~GoExpired(approvals[d.id].expires, now)
              /\ Resolvable(d.id)
        rest == [handler[h] EXCEPT !.decisions = Tail(@)]
    IN
    /\ handler[h].pc = "bulk"
    /\ handler[h].decisions # <<>>
    /\ \/ /\ ~ok
          /\ handler' = [handler EXCEPT ![h] = rest]
          /\ UNCHANGED approvals
       \/ /\ ok
          /\ d.verdict = "approve"
          /\ Resolve({d.id}, "approved")
          /\ handler' = [handler EXCEPT ![h] = [rest EXCEPT !.pc = "approved", !.id = d.id, !.status = "approved"]]
       \/ /\ ok
          /\ d.verdict = "deny"
          /\ Resolve({d.id}, "denied")
          /\ handler' = [handler EXCEPT ![h] = [rest EXCEPT !.pc = "audit", !.status = "denied", !.todo = {d.id}]]
    /\ UNCHANGED <<now, requestIds, draft, calls, outcome, audit, told>>

\* The bulk handler answers once every decision is applied.
DecideDone(h) ==
    /\ handler[h].pc = "bulk"
    /\ handler[h].decisions = <<>>
    /\ handler' = [handler EXCEPT ![h] = Idle]
    /\ UNCHANGED <<now, approvals, requestIds, draft, calls, outcome, audit, told>>

-----------------------------------------------------------------------------
(* After the approving transaction *)

\* generateConfirmationCodePlaintext.  Its failure ends handleApproveApproval
\* with a 500; approveBulkItem goes on without a code.
ConfirmationCode(h) ==
    /\ handler[h].pc = "approved"
    /\ \/ handler' = [handler EXCEPT ![h].pc = "execute"]
       \/ /\ "confirm" \in Faults
          /\ ~handler[h].bulk
          /\ handler' = [handler EXCEPT ![h] = Idle]
    /\ UNCHANGED <<now, approvals, requestIds, draft, calls, outcome, audit, told>>

\* Mutant: the expiry is checked again before the connector is called.
ExecuteActionUnlessExpired(h, result) ==
    /\ handler[h].pc = "execute"
    /\ ~GoExpired(approvals[handler[h].id].expires, now)
    /\ calls' = [calls EXCEPT ![handler[h].id] = @ + 1]
    /\ outcome' = [outcome EXCEPT ![handler[h].id] = result]
    /\ handler' = [handler EXCEPT ![h].pc = "persist", ![h].result = result]
    /\ UNCHANGED <<now, approvals, requestIds, draft, audit, told>>

\* executeApprovalAction: the connector call, detached from the request and
\* bounded by 30 s.
ExecuteAction(h, result) ==
    /\ handler[h].pc = "execute"
    /\ calls' = [calls EXCEPT ![handler[h].id] = @ + 1]
    /\ outcome' = [outcome EXCEPT ![handler[h].id] = result]
    /\ handler' = [handler EXCEPT ![h].pc = "persist", ![h].result = result]
    /\ UNCHANGED <<now, approvals, requestIds, draft, audit, told>>

\* Mutant: a failed call is stored as a success.
PersistResultOptimistic(h) ==
    LET a == handler[h].id IN
    /\ handler[h].pc = "persist"
    /\ approvals' = [approvals EXCEPT ![a].exec = "success"]
    /\ handler' = [handler EXCEPT ![h].pc = "audit", ![h].todo = {a}]
    /\ UNCHANGED <<now, requestIds, draft, calls, outcome, audit, told>>

\* UpdateApprovalExecution: best effort, and only on an approved row with no
\* result yet.
PersistResult(h) ==
    LET a == handler[h].id IN
    /\ handler[h].pc = "persist"
    /\ \/ /\ approvals[a].status = "approved"
          /\ approvals[a].exec = "null"
          /\ approvals' = [approvals EXCEPT ![a].exec = handler[h].result]
       \/ /\ approvals[a].status # "approved" \/ approvals[a].exec # "null" \/ "persist" \in Faults
          /\ UNCHANGED approvals
    /\ handler' = [handler EXCEPT ![h].pc = "audit", ![h].todo = {a}]
    /\ UNCHANGED <<now, requestIds, draft, calls, outcome, audit, told>>

\* emitApprovalAuditEvent for one row of the batch, with the status the
\* handler's UPDATE returned; best effort, under the request's own context.
EmitAudit(h, a) ==
    /\ handler[h].pc = "audit"
    /\ a \in handler[h].todo
    /\ \/ audit' = audit \cup {<<a, handler[h].status>>}
       \/ "audit" \in Faults /\ audit' = audit
    /\ handler' = [handler EXCEPT ![h].pc = "notify", ![h].id = a, ![h].todo = @ \ {a}]
    /\ UNCHANGED <<now, approvals, requestIds, draft, calls, outcome, told>>

\* notifyApprovalChange, notifyApprovalExecuted and notifyAgentApprovalResolved,
\* then the next row, the next bulk decision, or the response.
Notify(h) ==
    /\ handler[h].pc = "notify"
    /\ told' = told \cup {<<handler[h].id, handler[h].status>>}
    /\ handler' = [handler EXCEPT ![h] =
           IF @.todo # {} THEN [@ EXCEPT !.pc = "audit", !.id = None]
           ELSE IF @.bulk THEN [@ EXCEPT !.pc = "bulk", !.id = None, !.status = "null", !.result = "null"]
           ELSE Idle]
    /\ UNCHANGED <<now, approvals, requestIds, draft, calls, outcome, audit>>

-----------------------------------------------------------------------------
(* Observers and the environment *)

\* Mutant: a pending approval is reported as if it were terminal.
PollStatusPending(a) ==
    /\ approvals[a].status # "absent"
    /\ told' = told \cup {<<a, ResolvedStatus(a)>>}
    /\ UNCHANGED <<now, approvals, requestIds, handler, draft, calls, outcome, audit>>

\* handleAgentApprovalStatus and the bulk status: the agent learns a status.
PollStatus(a) ==
    /\ approvals[a].status # "absent"
    /\ ResolvedStatus(a) # "pending"
    /\ told' = told \cup {<<a, ResolvedStatus(a)>>}
    /\ UNCHANGED <<now, approvals, requestIds, handler, draft, calls, outcome, audit>>

\* Time passes.
Tick ==
    /\ now < MaxNow
    /\ now' = now + 1
    /\ UNCHANGED <<approvals, requestIds, handler, draft, calls, outcome, audit, told>>

\* The process dies and restarts: every goroutine is lost, the database stays.
Crash ==
    /\ "crash" \in Faults
    /\ handler' = [h \in Handlers |-> Idle]
    /\ draft' = [q \in Requesters |-> None]
    /\ UNCHANGED <<now, approvals, requestIds, calls, outcome, audit, told>>

-----------------------------------------------------------------------------

DecisionLists == UNION {[1..n -> Decision] : n \in 1..MaxDecisions}

BulkRequests(q) ==
    \E g \in Groups, ids \in SUBSET ApprovalIds, ttl \in TTLs :
        \E request \in [ids -> RequestIds], fingerprint \in [ids -> Fingerprints] :
            BulkRequest(q, g, request, fingerprint, ttl)

HandlerStep(h) ==
    \/ DecideItem(h)
    \/ DecideDone(h)
    \/ ConfirmationCode(h)
    \/ \E result \in ExecResults : ExecuteAction(h, result)
    \/ PersistResult(h)
    \/ \E a \in ApprovalIds : EmitAudit(h, a)
    \/ Notify(h)

Next ==
    \/ \E q \in Requesters :
          \/ \E req \in RequestIds, fp \in Fingerprints, ttl \in TTLs : CheckRequest(q, req, fp, ttl)
          \/ \E a \in ApprovalIds : InsertApproval(q, a)
          \/ RefuseRequest(q)
          \/ AnnounceRequest(q)
          \/ BulkRequests(q)
    \/ \E h \in Handlers :
          \/ \E a \in ApprovalIds : Approve(h, a) \/ DenyApproval(h, a) \/ CancelApproval(h, a)
          \/ DenyAll(h)
          \/ \E g \in Groups, ds \in DecisionLists : DecideBulkGroup(h, g, ds)
          \/ HandlerStep(h)
    \/ \E a \in ApprovalIds : PollStatus(a)
    \/ Tick
    \/ Crash

Spec == Init /\ [][Next]_vars

\* A handler that was started runs on: every wait in it has a timeout (5 s for
\* the database, 30 s for the connector).  Nobody has to click or to ask.
Fairness == \A h \in Handlers : WF_vars(HandlerStep(h))

FairSpec == Spec /\ Fairness

-----------------------------------------------------------------------------
(* Properties *)

\* However many tabs, retries and crashes race, the connector is called at most
\* once for an approval (handleApproveApproval, approveBulkItem).
ExecutesAtMostOnce == \A a \in ApprovalIds : calls[a] <= 1

\* The connector has only been called for approvals whose row is, and still
\* is, approved: never for one that was denied, cancelled or left to expire.
OnlyApprovedExecutes ==
    \A a \in ApprovalIds : calls[a] > 0 => approvals[a].status = "approved"

\* A stored execution_status is the result of the one call that was made
\* (UpdateApprovalExecution).
RecordedResultIsReal ==
    \A a \in ApprovalIds : approvals[a].exec # "null" =>
        calls[a] = 1 /\ approvals[a].exec = outcome[a]

\* Polls and wakes never give the agent two different terminal statuses for one
\* approval, although polls use the Go clock and decisions the SQL clock.
ToldOneTerminalStatus ==
    \A a \in ApprovalIds : \A s, t \in {"expired"} \cup Resolutions :
        <<a, s>> \in told /\ <<a, t>> \in told => s = t

\* A decision in the audit trail is the decision in the row
\* (emitApprovalAuditEvent), so there is at most one.
AuditAgreesWithRow ==
    \A a \in ApprovalIds : \A s \in Resolutions :
        <<a, s>> \in audit => approvals[a].status = s

\* A request_id is never consumed without its approval row, and never by two
\* (InsertApproval's transaction, and the bulk transaction).
RequestIdsMatchRows ==
    /\ \A r \in requestIds : \E a \in ApprovalIds : approvals[a].request = r
    /\ \A a \in ApprovalIds : approvals[a].status # "absent" => approvals[a].request \in requestIds
    /\ \A a, b \in ApprovalIds :
          /\ approvals[a].status # "absent"
          /\ approvals[b].status # "absent"
          /\ approvals[a].request = approvals[b].request
          => a = b

\* No approval is created for an action that had been denied within the
\* cooldown when its request was checked (FindRecentDeniedApproval).
CheckedCooldownHolds ==
    \A a, b \in ApprovalIds :
        /\ approvals[a].status = "denied"
        /\ approvals[b].status # "absent"
        /\ approvals[a].fingerprint = approvals[b].fingerprint
        /\ approvals[a].resolved < approvals[b].checked
        => Datetime(approvals[a].resolved) <= Datetime(approvals[b].checked - Cooldown)

\* A decision is final, with its time, and so is a stored result.
ResolutionIsFinal ==
    [][\A a \in ApprovalIds :
          /\ approvals[a].status \in Resolutions =>
                /\ approvals'[a].status = approvals[a].status
                /\ approvals'[a].resolved = approvals[a].resolved
          /\ approvals[a].exec # "null" => approvals'[a].exec = approvals[a].exec]_vars

Progress == [resolved |-> 2, partial |-> 1, pending |-> 0]

\* A bulk group's aggregate status only moves pending, partial, resolved
\* (BulkGroupAggregateStatus).
GroupOnlyProgresses ==
    [][\A g \in Groups : GroupRows(g) # {} =>
          Progress[AggregateStatus(g)'] >= Progress[AggregateStatus(g)]]_vars

\* An approval that was granted reaches the connector.
ApprovedReachesConnector ==
    \A a \in ApprovalIds : (approvals[a].status = "approved") ~> (calls[a] > 0)

-----------------------------------------------------------------------------
(* Refinement *)

\* The phase a row is in at time t: a pending row the SQL clock has passed is
\* expired, though its status column still says pending.
Phase(row, t) ==
    CASE row.status = "pending" /\ SQLExpired(row.expires, t) -> "expired"
      [] row.status = "pending" /\ ~SQLExpired(row.expires, t) -> "open"
      [] OTHER -> row.status

phase == [a \in ApprovalIds |-> Phase(approvals[a], now)]

Promise == INSTANCE ApprovalPromise WITH
    phase <- phase,
    calls <- calls,
    told <- told

\* The handlers, with their races, crashes and two clocks, implement the
\* promise.
KeepsPromise == Promise!Spec

=============================================================================
