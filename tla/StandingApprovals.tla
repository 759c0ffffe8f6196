-------------------------- MODULE StandingApprovals --------------------------
(***************************************************************************)
(* Standing approvals: grants that let an agent's action run without a     *)
(* prompt.  The approver creates, edits and revokes them, approves or      *)
(* denies the requests for them, and may run one by hand; an agent's       *)
(* request, single or bulk, is matched against them and either runs at     *)
(* once or falls through to the pending flow of Approvals.                 *)
(*                                                                         *)
(* One agent and one approver.  Every autocommitted statement and every    *)
(* transaction is one step, except the bulk request's, which keeps the     *)
(* write lock of the database (writer) over many steps of its handler.     *)
(* Constraints are the set of parameters they admit.                       *)
(***************************************************************************)
EXTENDS SQLiteTime, FiniteSets

CONSTANTS
    SAIds,       \* standing approval ids
    Requests,    \* ids of requests for a standing approval
    RequestIds,  \* request_ids of the agent's action requests
    Params,      \* parameters of an action, as far as constraints tell them apart
    Grants,      \* constraints in use: sets of parameters
    Scopes,      \* "exact": one action type; "any": the wildcard *
    Workers,     \* goroutines that run actions
    Editors,     \* goroutines that change grants
    TTLs,        \* lifetimes, in ticks
    Delays,      \* how far in the future starts_at may be, in ticks
    MaxRows,     \* bound: executions run by hand per grant
    MaxNow,      \* bound: the last instant
    Faults,      \* which failures the environment may produce
    None         \* no expiry, no id

ASSUME GrantAssumption == Grants \subseteq SUBSET Params
ASSUME TimeAssumption == TTLs \subseteq Nat /\ Delays \subseteq Nat /\ MaxNow \in Nat
ASSUME ScopesAssumption == "exact" \in Scopes
ASSUME WorkersAssumption == IsFiniteSet(Workers)
ASSUME NoIdAssumption ==
    None \notin SAIds \cup Requests \cup RequestIds \cup Params \cup Workers \cup Nat

VARIABLES
    now,      \* the wall clock
    agent,    \* the agent's status
    sas,      \* the standing_approvals table
    requests, \* the standing_approval_requests table
    ledger,   \* per <<grant, request_id>>: execution rows, connector calls, audit events
    pending,  \* request_ids handed to the pending flow
    writer,   \* the bulk handler holding the write lock
    job,      \* goroutines that run actions
    editor    \* goroutines that change grants

vars == <<now, agent, sas, requests, ledger, pending, writer, job, editor>>
tables == <<agent, sas, requests, ledger, pending>>

-----------------------------------------------------------------------------
(* Types *)

Key == SAIds \X (RequestIds \cup {None})

Grant == [status : {"absent", "active", "revoked"},
          scope : Scopes,
          allows : SUBSET Params,
          starts : Nat,
          expires : Nat \cup {None},
          created : Nat,                  \* created_at
          origin : Requests \cup {None}]  \* history: the request it was made for

Request == [status : {"absent", "pending", "approved", "denied"},
            allows : SUBSET Params,
            resulting : SAIds \cup {None}]

IdleJob == [pc : {"idle"}]
NewJob == [pc : {"begin", "find", "submit", "commit"}, kind : {"agent", "bulk"},
           request : RequestIds, param : Params,
           todo : SUBSET RequestIds,  \* bulk items not yet looked at
           fell : SUBSET RequestIds,  \* bulk items inserted as pending
           gone : SUBSET SAIds]       \* history: grants revoked before it began
GrantJob == [pc : {"record", "insert", "call", "audit"}, kind : {"agent", "bulk", "user"},
             sa : SAIds, request : RequestIds \cup {None}, param : Params,
             todo : SUBSET RequestIds, fell : SUBSET RequestIds, gone : SUBSET SAIds]

IdleEditor == [pc : {"idle"}]
Approving == [pc : {"approving"}, request : Requests, starts : Nat]
Updating == [pc : {"updating"}, sa : SAIds, allows : SUBSET Params,
             expires : Nat \cup {None}, omitted : BOOLEAN]

TypeOK ==
    /\ now \in Nat
    /\ agent \in {"registered", "deactivated"}
    /\ sas \in [SAIds -> Grant]
    /\ requests \in [Requests -> Request]
    /\ ledger \in [Key -> [rows : Nat, calls : Nat, events : Nat]]
    /\ pending \in SUBSET RequestIds
    /\ writer \in Workers \cup {None}
    /\ job \in [Workers -> IdleJob \cup NewJob \cup GrantJob]
    /\ editor \in [Editors -> IdleEditor \cup Approving \cup Updating]

Idle == [pc |-> "idle"]

Init ==
    /\ now = 0
    /\ agent = "registered"
    /\ sas = [s \in SAIds |-> [status |-> "absent", scope |-> CHOOSE c \in Scopes : TRUE,
                               allows |-> {}, starts |-> 0, expires |-> None, created |-> 0,
                               origin |-> None]]
    /\ requests = [q \in Requests |-> [status |-> "absent", allows |-> {}, resulting |-> None]]
    /\ ledger = [k \in Key |-> [rows |-> 0, calls |-> 0, events |-> 0]]
    /\ pending = {}
    /\ writer = None
    /\ job = [w \in Workers |-> Idle]
    /\ editor = [e \in Editors |-> Idle]

-----------------------------------------------------------------------------
(* Reading the table *)

Revoked == {s \in SAIds : sas[s].status = "revoked"}

Unexpired(s) == sas[s].expires = None \/ ~SQLExpired(sas[s].expires, now)

\* Mutant: the WHERE clauses forget the status.
InForceAnyStatus(s) == sas[s].status # "absent" /\ Unexpired(s)

\* status = 'active' AND (expires_at IS NULL OR datetime(expires_at) > datetime('now'))
InForce(s) == sas[s].status = "active" /\ Unexpired(s)

\* datetime(starts_at) <= datetime('now')
Started(s) == Datetime(sas[s].starts) <= Datetime(now)

\* FindActiveStandingApprovalsForAgent, then the constraints, over the rows it read.
Matching(p) == {s \in SAIds : InForce(s) /\ Started(s) /\ p \in sas[s].allows}

\* ORDER BY priority (exact before wildcard), created_at DESC.
Before(s, t) ==
    \/ sas[s].scope = "exact" /\ sas[t].scope # "exact"
    \/ sas[s].scope = sas[t].scope /\ sas[s].created >= sas[t].created

\* The rows of S that may come first: of rows created at one instant, ids, which
\* are random, decide.
First(S) == {s \in S : \A t \in S : Before(s, t)}

-----------------------------------------------------------------------------
(* Grants *)

\* The row CreateStandingApproval inserts; the agent's status is not looked at.
NewGrant(scope, allows, starts, expires, q) ==
    [status |-> "active", scope |-> scope, allows |-> allows, starts |-> starts,
     expires |-> expires, created |-> now, origin |-> q]

CreateSA(s, scope, allows, delay, ttl) ==
    /\ writer = None
    /\ sas[s].status = "absent"
    /\ sas' = [sas EXCEPT ![s] = NewGrant(scope, allows, now + delay,
                                          IF ttl = None THEN None ELSE now + delay + ttl, None)]
    /\ UNCHANGED <<now, agent, requests, ledger, pending, writer, job, editor>>

RevokeSA(s) ==
    /\ writer = None
    /\ sas[s].status = "active"
    /\ sas' = [sas EXCEPT ![s].status = "revoked"]
    /\ UNCHANGED <<now, agent, requests, ledger, pending, writer, job, editor>>

\* The agent is deactivated and all its grants revoked in one transaction.
DeactivateAgent ==
    /\ writer = None
    /\ agent = "registered"
    /\ agent' = "deactivated"
    /\ sas' = [s \in SAIds |-> IF sas[s].status = "active"
                               THEN [sas[s] EXCEPT !.status = "revoked"] ELSE sas[s]]
    /\ UNCHANGED <<now, requests, ledger, pending, writer, job, editor>>

\* handleUpdateStandingApproval reads the row; an omitted expires_at is taken from it.
UpdateRead(e, s, allows, ttl, omitted) ==
    /\ editor[e].pc = "idle"
    /\ sas[s].status = "active"
    /\ editor' = [editor EXCEPT ![e] =
           [pc |-> "updating", sa |-> s, allows |-> allows, omitted |-> omitted,
            expires |-> IF omitted THEN sas[s].expires
                        ELSE IF ttl = None THEN None ELSE now + ttl]]
    /\ UNCHANGED <<now, tables, writer, job>>

\* Mutant: the whole row that was read is written back, its status included.
UpdateCommitWholeRow(e) ==
    /\ writer = None
    /\ editor[e].pc = "updating"
    /\ sas' = [sas EXCEPT ![editor[e].sa].status = "active",
                          ![editor[e].sa].allows = editor[e].allows,
                          ![editor[e].sa].expires = editor[e].expires]
    /\ editor' = [editor EXCEPT ![e] = Idle]
    /\ UNCHANGED <<now, agent, requests, ledger, pending, writer, job>>

\* UpdateStandingApproval; a row that is no longer active is left alone.
UpdateCommit(e) ==
    /\ writer = None
    /\ editor[e].pc = "updating"
    /\ sas' = IF sas[editor[e].sa].status = "active"
              THEN [sas EXCEPT ![editor[e].sa].allows = editor[e].allows,
                               ![editor[e].sa].expires = editor[e].expires]
              ELSE sas
    /\ editor' = [editor EXCEPT ![e] = Idle]
    /\ UNCHANGED <<now, agent, requests, ledger, pending, writer, job>>

-----------------------------------------------------------------------------
(* Requests for a grant *)

\* Authentication and insert: nothing the insert depends on can change between them.
AskForGrant(q, allows) ==
    /\ writer = None
    /\ agent = "registered"
    /\ requests[q].status = "absent"
    /\ requests' = [requests EXCEPT ![q].status = "pending", ![q].allows = allows]
    /\ UNCHANGED <<now, agent, sas, ledger, pending, writer, job, editor>>

\* handleApproveStandingApprovalRequest reads the request outside its transaction.
ApproveRead(e, q) ==
    /\ editor[e].pc = "idle"
    /\ requests[q].status = "pending"
    /\ editor' = [editor EXCEPT ![e] = [pc |-> "approving", request |-> q, starts |-> now]]
    /\ UNCHANGED <<now, tables, writer, job>>

\* Mutant: the grant is created outside the transaction that is rolled back.
ApproveCommitUnrolled(e, s) ==
    LET q == editor[e].request IN
    /\ writer = None
    /\ editor[e].pc = "approving"
    /\ sas[s].status = "absent"
    /\ sas' = [sas EXCEPT ![s] = NewGrant("exact", requests[q].allows, editor[e].starts, None, q)]
    /\ requests' = IF requests[q].status = "pending"
                   THEN [requests EXCEPT ![q].status = "approved", ![q].resulting = s]
                   ELSE requests
    /\ editor' = [editor EXCEPT ![e] = Idle]
    /\ UNCHANGED <<now, agent, ledger, pending, writer, job>>

\* The transaction: insert a grant, then mark the request.  A request that was
\* approved meanwhile is returned as it is and the insert is committed; one that
\* was denied meanwhile rolls the insert back.
ApproveCommit(e, s) ==
    LET q == editor[e].request IN
    /\ writer = None
    /\ editor[e].pc = "approving"
    /\ sas[s].status = "absent"
    /\ sas' = IF requests[q].status = "denied" THEN sas
              ELSE [sas EXCEPT ![s] = NewGrant("exact", requests[q].allows, editor[e].starts,
                                               None, q)]
    /\ requests' = IF requests[q].status = "pending"
                   THEN [requests EXCEPT ![q].status = "approved", ![q].resulting = s]
                   ELSE requests
    /\ editor' = [editor EXCEPT ![e] = Idle]
    /\ UNCHANGED <<now, agent, ledger, pending, writer, job>>

\* DenyStandingApprovalRequest: UPDATE ... WHERE status = 'pending'.
DenyRequest(q) ==
    /\ writer = None
    /\ requests[q].status = "pending"
    /\ requests' = [requests EXCEPT ![q].status = "denied"]
    /\ UNCHANGED <<now, agent, sas, ledger, pending, writer, job, editor>>

-----------------------------------------------------------------------------
(* Running an action *)

\* RequireAgentSignature has found the agent registered.
StartAgent(w, r, p) ==
    /\ job[w].pc = "idle"
    /\ agent = "registered"
    /\ job' = [job EXCEPT ![w] = [pc |-> "find", kind |-> "agent", request |-> r, param |-> p,
                                  todo |-> {}, fell |-> {}, gone |-> Revoked]]
    /\ UNCHANGED <<now, tables, writer, editor>>

StartBulk(w, R, p) ==
    /\ job[w].pc = "idle"
    /\ agent = "registered"
    /\ \E r \in R :
           job' = [job EXCEPT ![w] = [pc |-> "begin", kind |-> "bulk", request |-> r, param |-> p,
                                      todo |-> R \ {r}, fell |-> {}, gone |-> Revoked]]
    /\ UNCHANGED <<now, tables, writer, editor>>

\* The bulk transaction begins with an INSERT and so holds the write lock.
BulkBegin(w) ==
    /\ job[w].pc = "begin"
    /\ writer = None
    /\ writer' = w
    /\ job' = [job EXCEPT ![w].pc = "find"]
    /\ UNCHANGED <<now, tables, editor>>

\* handleExecuteStandingApproval: the approver runs a grant by hand.
StartUser(w, s, p) ==
    /\ job[w].pc = "idle"
    /\ InForce(s) => ledger[<<s, None>>].rows < MaxRows
    /\ job' = [job EXCEPT ![w] = [pc |-> "record", kind |-> "user", sa |-> s, request |-> None,
                                  param |-> p, todo |-> {}, fell |-> {}, gone |-> Revoked]]
    /\ UNCHANGED <<now, tables, writer, editor>>

\* The job leaves the grant j.sa, if it had one, and is at pc.
Detached(j, pc) ==
    [pc |-> pc, kind |-> j.kind, request |-> j.request, param |-> j.param,
     todo |-> j.todo, fell |-> j.fell, gone |-> j.gone]

\* No grant runs this request: a single one is submitted for approval, a bulk item
\* is inserted as pending and the next one looked at, the approver gets an error.
FallThrough(j) ==
    CASE j.kind = "agent" -> Detached(j, "submit")
      [] j.kind = "user" -> Idle
      [] j.kind = "bulk" /\ j.todo = {} ->
             [Detached(j, "commit") EXCEPT !.fell = @ \cup {j.request}]
      [] OTHER -> LET r == CHOOSE r \in j.todo : TRUE
                  IN  [Detached(j, "find") EXCEPT !.fell = @ \cup {j.request},
                                                  !.request = r, !.todo = @ \ {r}]

\* The job goes on with grant s.
With(j, s) ==
    [pc |-> "record", kind |-> j.kind, sa |-> s, request |-> j.request, param |-> j.param,
     todo |-> j.todo, fell |-> j.fell, gone |-> j.gone]

\* Mutant: the candidate is not compared with nil.
FindUnchecked(w) ==
    /\ job[w].pc = "find"
    /\ \E s \in Matching(job[w].param) \cup {None} : job' = [job EXCEPT ![w] = With(job[w], s)]
    /\ UNCHANGED <<now, tables, writer, editor>>

\* Find the candidates and take the first whose constraints admit the parameters;
\* a candidate whose metadata cannot be resolved is skipped.
Find(w) ==
    /\ job[w].pc = "find"
    /\ \E skipped \in SUBSET Matching(job[w].param) :
           /\ skipped # {} => "metadata" \in Faults
           /\ \/ /\ skipped = Matching(job[w].param)
                 /\ job' = [job EXCEPT ![w] = FallThrough(job[w])]
              \/ \E s \in First(Matching(job[w].param) \ skipped) :
                    job' = [job EXCEPT ![w] = With(job[w], s)]
    /\ UNCHANGED <<now, tables, writer, editor>>

\* The SELECT of RecordStandingApprovalExecution(ByAgent): is it still in force?
RecordSelect(w) ==
    LET j == job[w] IN
    /\ j.pc = "record"
    /\ job' = [job EXCEPT ![w] =
           IF InForce(j.sa) /\ (j.kind = "user" \/ Started(j.sa))
           THEN [j EXCEPT !.pc = "insert"]
           ELSE FallThrough(j)]
    /\ UNCHANGED <<now, tables, writer, editor>>

\* Mutant: no unique index on (standing_approval_id, request_id).
RecordInsertAgain(w) ==
    LET j == job[w] IN
    /\ j.pc = "insert"
    /\ writer = None
    /\ ledger' = [ledger EXCEPT ![<<j.sa, j.request>>].rows = @ + 1]
    /\ job' = [job EXCEPT ![w].pc = "call"]
    /\ UNCHANGED <<now, agent, sas, requests, pending, writer, editor>>

\* The INSERT that follows it in a statement of its own; a request_id the grant
\* has already executed is refused with a conflict.
RecordInsert(w) ==
    LET j == job[w]
        k == <<j.sa, j.request>> IN
    /\ j.pc = "insert"
    /\ writer = None
    /\ IF j.kind = "agent" /\ ledger[k].rows > 0
       THEN job' = [job EXCEPT ![w] = Idle] /\ UNCHANGED ledger
       ELSE /\ ledger' = [ledger EXCEPT ![k].rows = @ + 1]
            /\ job' = [job EXCEPT ![w].pc = "call"]
    /\ UNCHANGED <<now, agent, sas, requests, pending, writer, editor>>

\* Mutant: a busy database is tried again until it answers.
RecordBusyRetried(w) ==
    /\ job[w].pc = "insert"
    /\ writer # None
    /\ job' = [job EXCEPT ![w].pc = "record"]
    /\ UNCHANGED <<now, tables, writer, editor>>

\* SQLITE_BUSY after busy_timeout: the write lock is held by a bulk request.  A
\* bulk request records through the pool, beside its own transaction, and so
\* waits for itself.
RecordBusy(w) ==
    /\ job[w].pc = "insert"
    /\ writer # None
    /\ job' = [job EXCEPT ![w] = FallThrough(job[w])]
    /\ UNCHANGED <<now, tables, writer, editor>>

\* executeConnectorAction, whatever it returns.
CallConnector(w) ==
    /\ job[w].pc = "call"
    /\ ledger' = [ledger EXCEPT ![<<job[w].sa, job[w].request>>].calls = @ + 1]
    /\ job' = [job EXCEPT ![w].pc = "audit"]
    /\ UNCHANGED <<now, agent, sas, requests, pending, writer, editor>>

\* emitStandingApprovalAuditEvent, best-effort, and the response.
EmitAudit(w) ==
    /\ job[w].pc = "audit"
    /\ \/ /\ writer = None
          /\ ledger' = [ledger EXCEPT ![<<job[w].sa, job[w].request>>].events = @ + 1]
       \/ /\ "audit" \in Faults \/ writer # None
          /\ UNCHANGED ledger
    /\ job' = [job EXCEPT ![w] = Idle]
    /\ UNCHANGED <<now, agent, sas, requests, pending, writer, editor>>

\* The pending flow of handleAgentRequestApproval; a known request_id is a conflict.
Submit(w) ==
    /\ job[w].pc = "submit"
    /\ writer = None
    /\ pending' = pending \cup {job[w].request}
    /\ job' = [job EXCEPT ![w] = Idle]
    /\ UNCHANGED <<now, agent, sas, requests, ledger, writer, editor>>

\* The bulk transaction ends; a known request_id among the items rolls it back.
BulkCommit(w) ==
    /\ job[w].pc = "commit"
    /\ pending' = IF job[w].fell \cap pending = {} THEN pending \cup job[w].fell ELSE pending
    /\ writer' = None
    /\ job' = [job EXCEPT ![w] = Idle]
    /\ UNCHANGED <<now, agent, sas, requests, ledger, editor>>

-----------------------------------------------------------------------------
(* Environment *)

Tick ==
    /\ now < MaxNow
    /\ now' = now + 1
    /\ UNCHANGED <<tables, writer, job, editor>>

\* The process stops; open transactions are rolled back.
Crash ==
    /\ "crash" \in Faults
    /\ job' = [w \in Workers |-> Idle]
    /\ editor' = [e \in Editors |-> Idle]
    /\ writer' = None
    /\ UNCHANGED <<now, tables>>

JobStep(w) ==
    \/ BulkBegin(w)
    \/ Find(w)
    \/ RecordSelect(w)
    \/ RecordInsert(w)
    \/ RecordBusy(w)
    \/ CallConnector(w)
    \/ EmitAudit(w)
    \/ Submit(w)
    \/ BulkCommit(w)

Next ==
    \/ \E s \in SAIds, scope \in Scopes, allows \in Grants, delay \in Delays,
          ttl \in TTLs \cup {None} : CreateSA(s, scope, allows, delay, ttl)
    \/ \E s \in SAIds : RevokeSA(s)
    \/ DeactivateAgent
    \/ \E e \in Editors, s \in SAIds, allows \in Grants, ttl \in TTLs \cup {None},
          omitted \in BOOLEAN : UpdateRead(e, s, allows, ttl, omitted)
    \/ \E e \in Editors : UpdateCommit(e)
    \/ \E q \in Requests, allows \in Grants : AskForGrant(q, allows)
    \/ \E e \in Editors, q \in Requests : ApproveRead(e, q)
    \/ \E e \in Editors, s \in SAIds : ApproveCommit(e, s)
    \/ \E q \in Requests : DenyRequest(q)
    \/ \E w \in Workers, r \in RequestIds, p \in Params : StartAgent(w, r, p)
    \/ \E w \in Workers, R \in SUBSET RequestIds, p \in Params :
          Cardinality(R) >= 2 /\ StartBulk(w, R, p)
    \/ \E w \in Workers, s \in SAIds, p \in Params : StartUser(w, s, p)
    \/ \E w \in Workers : JobStep(w)
    \/ Tick
    \/ Crash

Spec == Init /\ [][Next]_vars

\* A goroutine that can take a step eventually takes one.
Fairness == \A w \in Workers : WF_vars(JobStep(w))

FairSpec == Spec /\ Fairness

-----------------------------------------------------------------------------
(* Properties *)

\* The jobs at pc whose next step is booked under k.
At(k, pc) == {w \in Workers : job[w].pc = pc /\ <<job[w].sa, job[w].request>> = k}

\* Whatever the interleaving of requests, retries and crashes: an audit event of a
\* grant stands for a connector call, a call for an execution row written before
\* it (tryStandingApprovalAutoApprove, handleExecuteStandingApproval), counting the
\* calls and events still to come; one request_id runs at most once under one grant.
LedgerBalances ==
    \A k \in Key :
        /\ ledger[k].events + Cardinality(At(k, "audit")) <= ledger[k].calls
        /\ ledger[k].calls + Cardinality(At(k, "call")) <= ledger[k].rows
        /\ k[2] # None => ledger[k].rows <= 1

\* A request that begins after a grant was revoked (or its agent deactivated) is
\* never recorded against that grant, nor sent to the connector under it
\* (RevokeStandingApproval, DeactivateAgent against FindActiveStandingApprovals...).
RevocationStopsNewRequests ==
    \A w \in Workers : job[w].pc \in {"insert", "call", "audit"} => job[w].sa \notin job[w].gone

\* A revoked grant is never edited or made active again, though an editor that read
\* it while it was active may still be on its way to UpdateStandingApproval.
RevokedIsFrozen ==
    [][\A s \in SAIds : sas[s].status = "revoked" => sas'[s] = sas[s]]_vars

\* A denied request has produced no grant, though an approval of it may have been
\* under way when it was denied; an approved one links to a grant made for it
\* (handleApproveStandingApprovalRequest against DenyStandingApprovalRequest).
DecisionMatchesGrants ==
    \A q \in Requests :
        /\ requests[q].status = "denied" => \A s \in SAIds : sas[s].origin # q
        /\ requests[q].status = "approved" => sas[requests[q].resulting].origin = q

\* A bulk request that took the database's write lock gives it back: waiting for
\* itself (attemptStandingApprovalForBulk) ends with the busy timeout.
WriteLockIsReleased == \A w \in Workers : writer = w ~> writer # w

\* What the comment of ApproveStandingApprovalRequest says: approving again is
\* idempotent, so that a request leads to one grant.
OneGrantPerRequest ==
    \A s, t \in SAIds : sas[s].origin # None /\ sas[s].origin = sas[t].origin => s = t

\* What the API description says: standing approvals apply to each item of a bulk
\* request, so an item for which one is in force does not end up pending.
BulkAutoApproves ==
    [][\A w \in Workers :
           job[w].pc = "insert" /\ job[w].kind = "bulk" /\ job'[w].pc \in {"find", "commit"}
               => ~InForce(job[w].sa)]_vars
=============================================================================
