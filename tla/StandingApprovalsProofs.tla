----------------------- MODULE StandingApprovalsProofs -----------------------
(***************************************************************************)
(* Safety of StandingApprovals, for any sets of grants, requests and       *)
(* goroutines, any constraints, clock resolution and failures.             *)
(***************************************************************************)
EXTENDS StandingApprovals, FiniteSetTheorems, TLAPS

-----------------------------------------------------------------------------
(* The inductive invariant *)

\* What holds of a goroutine w that runs an action and is in state j, if lock holds
\* the write lock and gone are the revoked grants.  A bulk request past its begin
\* holds the lock; only a run by hand has no request_id; the grants it found
\* revoked stay revoked, and it records under none of them.
JobOK(j, w, lock, revoked) ==
    j.pc # "idle" =>
        /\ j.kind = "bulk" /\ j.pc # "begin" => lock = w
        /\ j.pc \in {"begin", "commit"} => j.kind = "bulk"
        /\ j.pc \in {"call", "audit"} => j.kind # "bulk"
        /\ j.kind = "user" <=> j.request = None
        /\ j.gone \subseteq revoked
        /\ j.pc \in {"insert", "call", "audit"} => j.sa \notin j.gone

JobInv == \A w \in Workers : JobOK(job[w], w, writer, Revoked)

\* A grant that was made for a request belongs to an approved one, and an
\* approved request links to a grant that exists and was made for it; an approver
\* under way has read an existing request.
RequestInv ==
    /\ \A s \in SAIds, q \in Requests :
          sas[s].origin = q => requests[q].status = "approved"
    /\ \A q \in Requests : requests[q].status = "approved" =>
          /\ requests[q].resulting \in SAIds
          /\ sas[requests[q].resulting].status # "absent"
          /\ sas[requests[q].resulting].origin = q
    /\ \A e \in Editors : editor[e].pc = "approving" =>
          requests[editor[e].request].status # "absent"

IInv == TypeOK /\ JobInv /\ RequestInv /\ LedgerBalances

-----------------------------------------------------------------------------
(* Type correctness *)

\* The value a goroutine has when it has nothing to do.
LEMMA IdleType == Idle \in IdleJob /\ Idle \in IdleEditor
  BY DEF Idle, IdleJob, IdleEditor

\* A job that is not idle has the fields the steps read.
LEMMA JobFields ==
    ASSUME NEW j \in IdleJob \cup NewJob \cup GrantJob
    PROVE  /\ j.pc \in {"begin", "find", "submit", "commit"} => j \in NewJob
           /\ j.pc \in {"record", "insert", "call", "audit"} => j \in GrantJob
           /\ j.pc = "idle" => j \in IdleJob
  BY DEF IdleJob, NewJob, GrantJob

\* Moving a job with a grant to another place keeps everything else.
LEMMA GrantJobMoves ==
    ASSUME NEW j \in GrantJob, NEW pc \in {"record", "insert", "call", "audit"}
    PROVE  /\ [j EXCEPT !.pc = pc] \in GrantJob
           /\ [j EXCEPT !.pc = pc].pc = pc
           /\ [j EXCEPT !.pc = pc].kind = j.kind
           /\ [j EXCEPT !.pc = pc].sa = j.sa
           /\ [j EXCEPT !.pc = pc].request = j.request
           /\ [j EXCEPT !.pc = pc].gone = j.gone
  BY DEF GrantJob

\* Giving a job a grant keeps its request.
LEMMA WithType ==
    ASSUME NEW j \in NewJob, NEW s \in SAIds
    PROVE  /\ With(j, s) \in GrantJob
           /\ With(j, s).pc = "record"
           /\ With(j, s).kind = j.kind
           /\ With(j, s).request = j.request
           /\ With(j, s).gone = j.gone
  BY DEF With, NewJob, GrantJob

\* A job that no grant serves goes on without one: it stops, is submitted, or
\* looks at the next item of its bulk request.
LEMMA FallThroughType ==
    ASSUME NEW j \in NewJob \cup GrantJob, j.kind # "user" => j.request \in RequestIds
    PROVE  \/ FallThrough(j) = Idle
           \/ /\ FallThrough(j) \in NewJob
              /\ FallThrough(j).pc \in {"submit", "commit", "find"}
              /\ FallThrough(j).kind = j.kind
              /\ FallThrough(j).kind # "user"
              /\ FallThrough(j).pc = "commit" => j.kind = "bulk"
              /\ FallThrough(j).gone = j.gone
<1>1. CASE j.kind = "user"
  BY <1>1 DEF FallThrough
<1>2. CASE j.kind = "agent"
  <2>1. FallThrough(j) = Detached(j, "submit")
    BY <1>2 DEF FallThrough
  <2> QED
    BY <1>2, <2>1 DEF Detached, NewJob, GrantJob
<1>3. CASE j.kind = "bulk" /\ j.todo = {}
  <2>1. FallThrough(j) = [Detached(j, "commit") EXCEPT !.fell = @ \cup {j.request}]
    BY <1>3 DEF FallThrough
  <2> QED
    BY <1>3, <2>1 DEF Detached, NewJob, GrantJob
<1>4. CASE j.kind = "bulk" /\ j.todo # {}
  <2> DEFINE r == CHOOSE r \in j.todo : TRUE
  <2>1. r \in j.todo
    BY <1>4
  <2>2. FallThrough(j) = [Detached(j, "find") EXCEPT !.fell = @ \cup {j.request},
                                                     !.request = r, !.todo = @ \ {r}]
    BY <1>4 DEF FallThrough
  <2> HIDE DEF r
  <2>3. FallThrough(j) = [pc |-> "find", kind |-> j.kind, request |-> r, param |-> j.param,
                          todo |-> j.todo \ {r}, fell |-> j.fell \cup {j.request},
                          gone |-> j.gone]
    BY <2>2 DEF Detached
  <2>4. r \in RequestIds /\ j.request \in RequestIds
    BY <1>4, <2>1 DEF NewJob, GrantJob
  <2> QED
    BY <1>4, <2>3, <2>4 DEF NewJob, GrantJob
<1> QED
  BY <1>1, <1>2, <1>3, <1>4 DEF NewJob, GrantJob

\* The tables are empty and nobody is working.
LEMMA InitType == Init => TypeOK
<1>1. (CHOOSE c \in Scopes : TRUE) \in Scopes
  BY ScopesAssumption
<1> QED
  BY <1>1, IdleType DEF Init, TypeOK, Grant, Request

\* A new grant is a grant.
LEMMA NewGrantType ==
    ASSUME now \in Nat, NEW scope \in Scopes, NEW allows \in SUBSET Params, NEW starts \in Nat,
           NEW expires \in Nat \cup {None}, NEW q \in Requests \cup {None}
    PROVE  NewGrant(scope, allows, starts, expires, q) \in Grant
  BY DEF NewGrant, Grant

\* An edited grant is a grant, and keeps its status and origin.
LEMMA EditedGrant ==
    ASSUME NEW g \in Grant, NEW allows \in SUBSET Params, NEW expires \in Nat \cup {None}
    PROVE  /\ [g EXCEPT !.allows = allows, !.expires = expires] \in Grant
           /\ [g EXCEPT !.allows = allows, !.expires = expires].status = g.status
           /\ [g EXCEPT !.allows = allows, !.expires = expires].origin = g.origin
  BY DEF Grant

\* An approved request is a request that links to its grant.
LEMMA ApprovedRequest ==
    ASSUME NEW r \in Request, NEW s \in SAIds
    PROVE  /\ [r EXCEPT !.status = "approved", !.resulting = s] \in Request
           /\ [r EXCEPT !.status = "approved", !.resulting = s].status = "approved"
           /\ [r EXCEPT !.status = "approved", !.resulting = s].resulting = s
  BY DEF Request

\* A job that is not run by hand has a request_id.
LEMMA JobRequest ==
    ASSUME TypeOK, JobInv, NEW w \in Workers, job[w].pc # "idle"
    PROVE  /\ job[w] \in NewJob \cup GrantJob
           /\ job[w].kind # "user" => job[w].request \in RequestIds
<1>1. job[w] \in IdleJob \cup NewJob \cup GrantJob /\ JobOK(job[w], w, writer, Revoked)
  BY DEF TypeOK, JobInv
<1>2. job[w] \in NewJob \cup GrantJob
  BY <1>1 DEF IdleJob
<1> QED
  BY <1>1, <1>2 DEF JobOK, NewJob, GrantJob

\* The steps that change grants and the requests for them keep the types.
LEMMA EditType ==
    ASSUME TypeOK,
           \/ \E s \in SAIds, scope \in Scopes, allows \in Grants, delay \in Delays,
                 ttl \in TTLs \cup {None} : CreateSA(s, scope, allows, delay, ttl)
           \/ \E s \in SAIds : RevokeSA(s)
           \/ DeactivateAgent
           \/ \E e \in Editors, s \in SAIds, allows \in Grants, ttl \in TTLs \cup {None},
                 omitted \in BOOLEAN : UpdateRead(e, s, allows, ttl, omitted)
           \/ \E e \in Editors : UpdateCommit(e)
           \/ \E q \in Requests, allows \in Grants : AskForGrant(q, allows)
           \/ \E e \in Editors, q \in Requests : ApproveRead(e, q)
           \/ \E e \in Editors, s \in SAIds : ApproveCommit(e, s)
           \/ \E q \in Requests : DenyRequest(q)
    PROVE  TypeOK'
<1>1. ASSUME NEW s \in SAIds, NEW scope \in Scopes, NEW allows \in Grants, NEW delay \in Delays,
             NEW ttl \in TTLs \cup {None}, CreateSA(s, scope, allows, delay, ttl)
      PROVE  TypeOK'
  <2> DEFINE exp == IF ttl = None THEN None ELSE now + delay + ttl
  <2>1. now \in Nat /\ delay \in Nat /\ now + delay \in Nat /\ exp \in Nat \cup {None}
    BY TimeAssumption DEF TypeOK
  <2>2. allows \in SUBSET Params
    BY GrantAssumption
  <2> HIDE DEF exp
  <2>3. NewGrant(scope, allows, now + delay, exp, None) \in Grant
    BY <2>1, <2>2, NewGrantType
  <2>4. sas' \in [SAIds -> Grant]
    BY <1>1, <2>3 DEF CreateSA, TypeOK, exp
  <2> QED
    BY <1>1, <2>4 DEF CreateSA, TypeOK
<1>2. ASSUME NEW s \in SAIds, RevokeSA(s)
      PROVE  TypeOK'
  <2>1. [sas[s] EXCEPT !.status = "revoked"] \in Grant
    BY DEF TypeOK, Grant
  <2>2. sas' \in [SAIds -> Grant]
    BY <1>2, <2>1 DEF RevokeSA, TypeOK
  <2> QED
    BY <1>2, <2>2 DEF RevokeSA, TypeOK
<1>3. ASSUME DeactivateAgent
      PROVE  TypeOK'
  <2>1. \A s \in SAIds : [sas[s] EXCEPT !.status = "revoked"] \in Grant
    BY DEF TypeOK, Grant
  <2>2. sas' \in [SAIds -> Grant]
    BY <1>3, <2>1 DEF DeactivateAgent, TypeOK
  <2> QED
    BY <1>3, <2>2 DEF DeactivateAgent, TypeOK
<1>4. ASSUME NEW e \in Editors, NEW s \in SAIds, NEW allows \in Grants, NEW ttl \in TTLs \cup {None},
             NEW omitted \in BOOLEAN, UpdateRead(e, s, allows, ttl, omitted)
      PROVE  TypeOK'
  <2> DEFINE exp == IF omitted THEN sas[s].expires ELSE IF ttl = None THEN None ELSE now + ttl
  <2>1. sas[s].expires \in Nat \cup {None}
    BY DEF TypeOK, Grant
  <2>2. exp \in Nat \cup {None}
    BY <2>1, TimeAssumption DEF TypeOK
  <2>3. allows \in SUBSET Params
    BY GrantAssumption
  <2> HIDE DEF exp
  <2>4. [pc |-> "updating", sa |-> s, allows |-> allows, omitted |-> omitted, expires |-> exp]
            \in Updating
    BY <2>2, <2>3 DEF Updating
  <2>5. editor' \in [Editors -> IdleEditor \cup Approving \cup Updating]
    BY <1>4, <2>4 DEF UpdateRead, TypeOK, exp
  <2> QED
    BY <1>4, <2>5 DEF UpdateRead, tables, TypeOK
<1>5. ASSUME NEW e \in Editors, UpdateCommit(e)
      PROVE  TypeOK'
  <2>1. editor[e] \in Updating
    BY <1>5 DEF UpdateCommit, TypeOK, IdleEditor, Approving
  <2>2. editor[e].sa \in SAIds /\ editor[e].allows \in SUBSET Params
           /\ editor[e].expires \in Nat \cup {None}
    BY <2>1 DEF Updating
  <2>3. [sas[editor[e].sa] EXCEPT !.allows = editor[e].allows, !.expires = editor[e].expires] \in Grant
    BY <2>2, EditedGrant DEF TypeOK
  <2>4. sas' \in [SAIds -> Grant]
    <3> DEFINE t == editor[e].sa
               g == [sas[t] EXCEPT !.allows = editor[e].allows, !.expires = editor[e].expires]
    <3>1. sas' = sas \/ sas' = [sas EXCEPT ![t] = g]
      BY <1>5, <2>2 DEF UpdateCommit, TypeOK
    <3> QED
      BY <2>2, <2>3, <3>1 DEF TypeOK
  <2>5. editor' \in [Editors -> IdleEditor \cup Approving \cup Updating]
    BY <1>5, IdleType DEF UpdateCommit, TypeOK
  <2> QED
    BY <1>5, <2>4, <2>5 DEF UpdateCommit, TypeOK
<1>6. ASSUME NEW q \in Requests, NEW allows \in Grants, AskForGrant(q, allows)
      PROVE  TypeOK'
  <2>1. allows \in SUBSET Params
    BY GrantAssumption
  <2>2. [requests[q] EXCEPT !.status = "pending", !.allows = allows] \in Request
    BY <2>1 DEF TypeOK, Request
  <2>3. requests' \in [Requests -> Request]
    BY <1>6, <2>2 DEF AskForGrant, TypeOK
  <2> QED
    BY <1>6, <2>3 DEF AskForGrant, TypeOK
<1>7. ASSUME NEW e \in Editors, NEW q \in Requests, ApproveRead(e, q)
      PROVE  TypeOK'
  <2>1. editor' \in [Editors -> IdleEditor \cup Approving \cup Updating]
    BY <1>7 DEF ApproveRead, TypeOK, Approving
  <2> QED
    BY <1>7, <2>1 DEF ApproveRead, tables, TypeOK
<1>8. ASSUME NEW e \in Editors, NEW s \in SAIds, ApproveCommit(e, s), "exact" \in Scopes
      PROVE  TypeOK'
  <2> DEFINE q == editor[e].request
             g == NewGrant("exact", requests[q].allows, editor[e].starts, None, q)
  <2>1. editor[e] \in Approving
    BY <1>8 DEF ApproveCommit, TypeOK, IdleEditor, Updating
  <2>2. q \in Requests /\ editor[e].starts \in Nat /\ requests[q].allows \in SUBSET Params
    BY <2>1 DEF Approving, TypeOK, Request
  <2>3. g \in Grant
    BY <1>8, <2>2, NewGrantType DEF TypeOK
  <2>4. [requests[q] EXCEPT !.status = "approved", !.resulting = s] \in Request
    BY <2>2, ApprovedRequest DEF TypeOK
  <2>5. sas' \in [SAIds -> Grant]
    BY <1>8, <2>3 DEF ApproveCommit, TypeOK
  <2>6. requests' \in [Requests -> Request]
    <3> DEFINE r == [requests[q] EXCEPT !.status = "approved", !.resulting = s]
    <3>1. requests' = requests \/ requests' = [requests EXCEPT ![q] = r]
      BY <1>8, <2>2 DEF ApproveCommit, TypeOK
    <3> QED
      BY <2>2, <2>4, <3>1 DEF TypeOK
  <2>7. editor' \in [Editors -> IdleEditor \cup Approving \cup Updating]
    BY <1>8, IdleType DEF ApproveCommit, TypeOK
  <2> QED
    BY <1>8, <2>5, <2>6, <2>7 DEF ApproveCommit, TypeOK
<1>9. ASSUME NEW q \in Requests, DenyRequest(q)
      PROVE  TypeOK'
  <2>1. [requests[q] EXCEPT !.status = "denied"] \in Request
    BY DEF TypeOK, Request
  <2>2. requests' \in [Requests -> Request]
    BY <1>9, <2>1 DEF DenyRequest, TypeOK
  <2> QED
    BY <1>9, <2>2 DEF DenyRequest, TypeOK
<1> QED
  BY <1>1, <1>2, <1>3, <1>4, <1>5, <1>6, <1>7, <1>8, <1>9, ScopesAssumption

-----------------------------------------------------------------------------
(* Goroutines that run actions *)

\* A step of one goroutine keeps JobInv if its own new state is in order and it
\* only takes the free lock or gives back its own.
LEMMA JobUpdate ==
    ASSUME TypeOK, JobInv, NEW w \in Workers, NEW x \in IdleJob \cup NewJob \cup GrantJob,
           job' = [job EXCEPT ![w] = x], sas' = sas,
           \/ writer' = writer
           \/ writer = None /\ writer' = w
           \/ writer = w /\ writer' = None,
           JobOK(x, w, writer', Revoked)
    PROVE  /\ job' \in [Workers -> IdleJob \cup NewJob \cup GrantJob]
           /\ writer' \in Workers \cup {None}
           /\ JobInv'
<1>1. job' \in [Workers -> IdleJob \cup NewJob \cup GrantJob] /\ writer' \in Workers \cup {None}
  BY DEF TypeOK
<1>2. Revoked' = Revoked
  BY DEF Revoked
<1>3. ASSUME NEW v \in Workers
      PROVE  JobOK(job'[v], v, writer', Revoked')
  <2>1. CASE v = w
    BY <1>2, <2>1 DEF TypeOK
  <2>2. CASE v # w
    <3>1. job'[v] = job[v] /\ JobOK(job[v], v, writer, Revoked)
      BY <2>2 DEF TypeOK, JobInv
    <3>2. None \notin Workers
      BY NoIdAssumption
    <3>3. writer = v => writer' = v
      BY <2>2, <3>2
    <3> QED
      BY <1>2, <3>1, <3>3 DEF JobOK
  <2> QED
    BY <2>1, <2>2
<1> QED
  BY <1>1, <1>3 DEF JobInv

\* A goroutine with nothing to do is in order.
LEMMA IdleOK == ASSUME NEW w, NEW lock, NEW revoked PROVE JobOK(Idle, w, lock, revoked)
  BY DEF JobOK, Idle

\* A goroutine that falls through is in order if it was.
LEMMA FallThroughOK ==
    ASSUME TypeOK, JobInv, NEW w \in Workers, job[w].pc \notin {"idle", "begin"}
    PROVE  /\ FallThrough(job[w]) \in IdleJob \cup NewJob \cup GrantJob
           /\ JobOK(FallThrough(job[w]), w, writer, Revoked)
<1> DEFINE j == job[w]
           x == FallThrough(j)
<1>1. /\ j \in NewJob \cup GrantJob
      /\ j.kind # "user" => j.request \in RequestIds
  BY JobRequest
<1>2. JobOK(j, w, writer, Revoked)
  BY DEF JobInv
<1> HIDE DEF j
<1>3. \/ x = Idle
      \/ /\ x \in NewJob
         /\ x.pc \in {"submit", "commit", "find"}
         /\ x.kind = j.kind
         /\ x.kind # "user"
         /\ x.pc = "commit" => j.kind = "bulk"
         /\ x.gone = j.gone
  BY <1>1, FallThroughType
<1>4. j.pc \notin {"idle", "begin"}
  BY DEF j
<1> HIDE DEF x
<1>5. x \in IdleJob \cup NewJob \cup GrantJob
  BY <1>3, IdleType
<1>6. JobOK(x, w, writer, Revoked)
  <2>1. CASE x = Idle
    BY <2>1, IdleOK
  <2>2. CASE x # Idle
    <3>1. x.request \in RequestIds /\ x.request # None
      BY <1>3, <2>2, NoIdAssumption DEF NewJob
    <3> QED
      BY <1>2, <1>3, <1>4, <2>2, <3>1 DEF JobOK
  <2> QED
    BY <2>1, <2>2
<1> QED
  BY <1>5, <1>6 DEF x, j

\* The beginning of a goroutine, and the steps that touch no table.
LEMMA StartInv ==
    ASSUME TypeOK, JobInv, NEW w \in Workers,
           \/ \E r \in RequestIds, p \in Params : StartAgent(w, r, p)
           \/ \E R \in SUBSET RequestIds, p \in Params : StartBulk(w, R, p)
           \/ \E s \in SAIds, p \in Params : StartUser(w, s, p)
    PROVE  TypeOK' /\ JobInv'
<1>1. Revoked \in SUBSET SAIds
  BY DEF Revoked
<1>2. PICK x \in NewJob \cup GrantJob :
          /\ job' = [job EXCEPT ![w] = x]
          /\ JobOK(x, w, writer, Revoked)
  <2>1. ASSUME NEW r \in RequestIds, NEW p \in Params, StartAgent(w, r, p)
        PROVE  \E x \in NewJob \cup GrantJob :
                   job' = [job EXCEPT ![w] = x] /\ JobOK(x, w, writer, Revoked)
    <3> DEFINE x == [pc |-> "find", kind |-> "agent", request |-> r, param |-> p,
                     todo |-> {}, fell |-> {}, gone |-> Revoked]
    <3>1. x \in NewJob
      BY <1>1 DEF NewJob
    <3>2. JobOK(x, w, writer, Revoked)
      BY NoIdAssumption DEF JobOK
    <3> QED
      BY <2>1, <3>1, <3>2 DEF StartAgent
  <2>2. ASSUME NEW R \in SUBSET RequestIds, NEW p \in Params, StartBulk(w, R, p)
        PROVE  \E x \in NewJob \cup GrantJob :
                   job' = [job EXCEPT ![w] = x] /\ JobOK(x, w, writer, Revoked)
    <3>1. PICK r \in R :
              job' = [job EXCEPT ![w] = [pc |-> "begin", kind |-> "bulk", request |-> r,
                                         param |-> p, todo |-> R \ {r}, fell |-> {},
                                         gone |-> Revoked]]
      BY <2>2 DEF StartBulk
    <3> DEFINE x == [pc |-> "begin", kind |-> "bulk", request |-> r, param |-> p,
                     todo |-> R \ {r}, fell |-> {}, gone |-> Revoked]
    <3>2. x \in NewJob
      BY <1>1 DEF NewJob
    <3>3. JobOK(x, w, writer, Revoked)
      BY NoIdAssumption DEF JobOK
    <3> QED
      BY <3>1, <3>2, <3>3
  <2>3. ASSUME NEW s \in SAIds, NEW p \in Params, StartUser(w, s, p)
        PROVE  \E x \in NewJob \cup GrantJob :
                   job' = [job EXCEPT ![w] = x] /\ JobOK(x, w, writer, Revoked)
    <3> DEFINE x == [pc |-> "record", kind |-> "user", sa |-> s, request |-> None, param |-> p,
                     todo |-> {}, fell |-> {}, gone |-> Revoked]
    <3>1. x \in GrantJob
      BY <1>1 DEF GrantJob
    <3>2. JobOK(x, w, writer, Revoked)
      BY DEF JobOK
    <3> QED
      BY <2>3, <3>1, <3>2 DEF StartUser
  <2> QED
    BY <2>1, <2>2, <2>3
<1>3. UNCHANGED <<now, tables, writer, editor>>
  BY DEF StartAgent, StartBulk, StartUser
<1> QED
  BY <1>2, <1>3, JobUpdate DEF tables, TypeOK

-----------------------------------------------------------------------------
(* The ledger *)

\* There are finitely many goroutines, so those at one place can be counted.
LEMMA AtCounts ==
    ASSUME NEW k, NEW pc
    PROVE  /\ IsFiniteSet(At(k, pc)) /\ Cardinality(At(k, pc)) \in Nat
           /\ IsFiniteSet(At(k, pc)') /\ Cardinality(At(k, pc)') \in Nat
<1>1. At(k, pc) \subseteq Workers /\ At(k, pc)' \subseteq Workers
  BY DEF At
<1> QED
  BY <1>1, WorkersAssumption, FS_Subset, FS_CardinalityType

\* A step that books nothing, and brings no goroutine to a place where it owes a
\* call or an event, keeps the balance.
LEMMA LedgerStill ==
    ASSUME TypeOK, LedgerBalances, ledger' = ledger,
           \A w \in Workers : job'[w].pc \in {"call", "audit"} => job'[w] = job[w]
    PROVE  LedgerBalances'
<1> SUFFICES ASSUME NEW k \in Key
             PROVE  /\ ledger[k].events + Cardinality(At(k, "audit")') <= ledger[k].calls
                    /\ ledger[k].calls + Cardinality(At(k, "call")') <= ledger[k].rows
                    /\ k[2] # None => ledger[k].rows <= 1
  BY DEF LedgerBalances
<1>1. /\ ledger[k].events + Cardinality(At(k, "audit")) <= ledger[k].calls
      /\ ledger[k].calls + Cardinality(At(k, "call")) <= ledger[k].rows
      /\ k[2] # None => ledger[k].rows <= 1
  BY DEF LedgerBalances
<1>2. At(k, "audit")' \subseteq At(k, "audit") /\ At(k, "call")' \subseteq At(k, "call")
  BY DEF At
<1>3. /\ Cardinality(At(k, "audit")') <= Cardinality(At(k, "audit"))
      /\ Cardinality(At(k, "call")') <= Cardinality(At(k, "call"))
  BY <1>2, AtCounts, FS_Subset
<1>4. ledger[k].events \in Nat /\ ledger[k].calls \in Nat /\ ledger[k].rows \in Nat
  BY DEF TypeOK
<1> QED
  BY <1>1, <1>3, <1>4, AtCounts

\* A goroutine's step from one place to another, as far as the counts see it.
LEMMA AtMoves ==
    ASSUME TypeOK, NEW w \in Workers, NEW k, NEW pc \in {"call", "audit"},
           NEW x, job' = [job EXCEPT ![w] = x],
           x.pc = "idle" \/ (x.sa = job[w].sa /\ x.request = job[w].request)
    PROVE  LET k0 == <<job[w].sa, job[w].request>> IN
           /\ k # k0 \/ (job[w].pc # pc /\ x.pc # pc) =>
                 Cardinality(At(k, pc)') <= Cardinality(At(k, pc))
           /\ k = k0 /\ job[w].pc = pc /\ x.pc # pc =>
                 Cardinality(At(k, pc)') = Cardinality(At(k, pc)) - 1
           /\ k = k0 /\ job[w].pc # pc /\ x.pc = pc =>
                 Cardinality(At(k, pc)') = Cardinality(At(k, pc)) + 1
<1> DEFINE k0 == <<job[w].sa, job[w].request>>
<1>1. job'[w] = x /\ \A v \in Workers \ {w} : job'[v] = job[v]
  BY DEF TypeOK
<1>2. x.pc = pc => <<x.sa, x.request>> = k0
  OBVIOUS
<1>3. k # k0 \/ (job[w].pc # pc /\ x.pc # pc) => At(k, pc)' \subseteq At(k, pc)
  BY <1>1, <1>2 DEF At
<1>4. k = k0 /\ job[w].pc = pc /\ x.pc # pc => w \in At(k, pc) /\ At(k, pc)' = At(k, pc) \ {w}
  BY <1>1 DEF At
<1>5. k = k0 /\ job[w].pc # pc /\ x.pc = pc => w \notin At(k, pc) /\ At(k, pc)' = At(k, pc) \cup {w}
  BY <1>1, <1>2 DEF At
<1> QED
  BY <1>3, <1>4, <1>5, AtCounts, FS_Subset, FS_AddElement, FS_RemoveElement

\* One more execution row under k0.
LEMMA RowsBooked ==
    ASSUME NEW L \in [Key -> [rows : Nat, calls : Nat, events : Nat]], NEW k0 \in Key, NEW M,
           M = [L EXCEPT ![k0].rows = @ + 1]
    PROVE  /\ M \in [Key -> [rows : Nat, calls : Nat, events : Nat]]
           /\ M[k0].rows = L[k0].rows + 1
           /\ M[k0].calls = L[k0].calls
           /\ M[k0].events = L[k0].events
           /\ \A k \in Key : k # k0 => M[k] = L[k]
  OBVIOUS

\* One more connector call under k0.
LEMMA CallsBooked ==
    ASSUME NEW L \in [Key -> [rows : Nat, calls : Nat, events : Nat]], NEW k0 \in Key, NEW M,
           M = [L EXCEPT ![k0].calls = @ + 1]
    PROVE  /\ M \in [Key -> [rows : Nat, calls : Nat, events : Nat]]
           /\ M[k0].rows = L[k0].rows
           /\ M[k0].calls = L[k0].calls + 1
           /\ M[k0].events = L[k0].events
           /\ \A k \in Key : k # k0 => M[k] = L[k]
  OBVIOUS

\* One more audit event under k0.
LEMMA EventsBooked ==
    ASSUME NEW L \in [Key -> [rows : Nat, calls : Nat, events : Nat]], NEW k0 \in Key, NEW M,
           M = [L EXCEPT ![k0].events = @ + 1]
    PROVE  /\ M \in [Key -> [rows : Nat, calls : Nat, events : Nat]]
           /\ M[k0].rows = L[k0].rows
           /\ M[k0].calls = L[k0].calls
           /\ M[k0].events = L[k0].events + 1
           /\ \A k \in Key : k # k0 => M[k] = L[k]
  OBVIOUS

-----------------------------------------------------------------------------
(* Steps of the goroutines *)

\* Steps that book nothing: looking for a grant, waiting, falling through, handing
\* over to the pending flow.
LEMMA QuietInv ==
    ASSUME IInv, NEW w \in Workers,
           \/ BulkBegin(w)
           \/ Find(w)
           \/ RecordSelect(w)
           \/ RecordBusy(w)
           \/ Submit(w)
           \/ BulkCommit(w)
    PROVE  TypeOK' /\ JobInv' /\ LedgerBalances'
<1> DEFINE j == job[w]
           Jobs == IdleJob \cup NewJob \cup GrantJob
<1>0. TypeOK /\ JobInv /\ JobOK(j, w, writer, Revoked) /\ j \in Jobs
  BY DEF IInv, JobInv, TypeOK
<1>1. PICK x \in Jobs :
          /\ job' = [job EXCEPT ![w] = x]
          /\ JobOK(x, w, writer', Revoked)
          /\ x.pc \notin {"call", "audit"}
  <2>1. CASE BulkBegin(w)
    <3>1. j \in NewJob
      BY <1>0, <2>1, JobFields DEF BulkBegin
    <3>2. /\ [j EXCEPT !.pc = "find"] \in NewJob
          /\ [j EXCEPT !.pc = "find"].pc = "find"
          /\ [j EXCEPT !.pc = "find"].kind = j.kind
          /\ [j EXCEPT !.pc = "find"].request = j.request
          /\ [j EXCEPT !.pc = "find"].gone = j.gone
      <4> HIDE DEF j
      <4> QED
        BY <3>1 DEF NewJob
    <3>3. JobOK([j EXCEPT !.pc = "find"], w, writer', Revoked)
      BY <1>0, <2>1, <3>2 DEF BulkBegin, JobOK
    <3>4. job' = [job EXCEPT ![w] = [j EXCEPT !.pc = "find"]]
      BY <2>1 DEF BulkBegin
    <3> HIDE DEF j
    <3> QED
      BY <3>2, <3>3, <3>4
  <2>2. CASE Find(w)
    <3>1. j \in NewJob /\ j.pc = "find"
      BY <1>0, <2>2, JobFields DEF Find
    <3>2. CASE job' = [job EXCEPT ![w] = FallThrough(j)]
      <4>1. /\ FallThrough(j) \in Jobs
            /\ JobOK(FallThrough(j), w, writer, Revoked)
        BY <1>0, <3>1, FallThroughOK
      <4>2. FallThrough(j) = Idle \/ FallThrough(j).pc \in {"submit", "commit", "find"}
        BY <1>0, <3>1, JobRequest, FallThroughType
      <4>3. FallThrough(j).pc \notin {"call", "audit"}
        BY <4>2 DEF Idle
      <4>4. writer' = writer
        BY <2>2 DEF Find
      <4> QED
        BY <3>2, <4>1, <4>3, <4>4
    <3>3. ASSUME NEW s \in SAIds, job' = [job EXCEPT ![w] = With(j, s)]
          PROVE  \E x \in Jobs : /\ job' = [job EXCEPT ![w] = x]
                                 /\ JobOK(x, w, writer', Revoked)
                                 /\ x.pc \notin {"call", "audit"}
      <4>1. /\ With(j, s) \in GrantJob
            /\ With(j, s).pc = "record"
            /\ With(j, s).kind = j.kind
            /\ With(j, s).request = j.request
            /\ With(j, s).gone = j.gone
        BY <3>1, WithType
      <4>2. writer' = writer
        BY <2>2 DEF Find
      <4>3. JobOK(With(j, s), w, writer', Revoked)
        BY <1>0, <3>1, <4>1, <4>2 DEF JobOK
      <4> QED
        BY <3>3, <4>1, <4>3
    <3>4. \/ job' = [job EXCEPT ![w] = FallThrough(j)]
          \/ \E s \in SAIds : job' = [job EXCEPT ![w] = With(j, s)]
      BY <2>2 DEF Find, First, Matching
    <3> QED
      BY <3>2, <3>3, <3>4
  <2>3. CASE RecordSelect(w) \/ RecordBusy(w)
    <3>1. j \in GrantJob /\ j.pc \in {"record", "insert"} /\ writer' = writer
      BY <1>0, <2>3, JobFields DEF RecordSelect, RecordBusy
    <3>2. CASE job' = [job EXCEPT ![w] = FallThrough(j)]
      <4>1. /\ FallThrough(j) \in Jobs
            /\ JobOK(FallThrough(j), w, writer, Revoked)
        BY <1>0, <3>1, FallThroughOK
      <4>2. FallThrough(j) = Idle \/ FallThrough(j).pc \in {"submit", "commit", "find"}
        BY <1>0, <3>1, JobRequest, FallThroughType
      <4>3. FallThrough(j).pc \notin {"call", "audit"}
        BY <4>2 DEF Idle
      <4> QED
        BY <3>1, <3>2, <4>1, <4>3
    <3>3. CASE InForce(j.sa) /\ j.pc = "record" /\ job' = [job EXCEPT ![w] = [j EXCEPT !.pc = "insert"]]
      <4>1. /\ [j EXCEPT !.pc = "insert"] \in GrantJob
            /\ [j EXCEPT !.pc = "insert"].pc = "insert"
            /\ [j EXCEPT !.pc = "insert"].kind = j.kind
            /\ [j EXCEPT !.pc = "insert"].sa = j.sa
            /\ [j EXCEPT !.pc = "insert"].request = j.request
            /\ [j EXCEPT !.pc = "insert"].gone = j.gone
        BY <3>1, GrantJobMoves
      <4>2. j.sa \notin Revoked
        BY <3>3 DEF InForce, Revoked
      <4>3. JobOK([j EXCEPT !.pc = "insert"], w, writer', Revoked)
        BY <1>0, <3>1, <3>3, <4>1, <4>2 DEF JobOK
      <4> HIDE DEF j
      <4> QED
        BY <3>3, <4>1, <4>3
    <3>4. \/ job' = [job EXCEPT ![w] = FallThrough(j)]
          \/ InForce(j.sa) /\ j.pc = "record" /\ job' = [job EXCEPT ![w] = [j EXCEPT !.pc = "insert"]]
      BY <2>3 DEF RecordSelect, RecordBusy
    <3> QED
      BY <3>2, <3>3, <3>4
  <2>4. CASE Submit(w) \/ BulkCommit(w)
    BY <2>4, IdleType, IdleOK DEF Submit, BulkCommit, Idle
  <2> QED
    BY <2>1, <2>2, <2>3, <2>4
<1>2. /\ sas' = sas /\ ledger' = ledger
      /\ UNCHANGED <<now, agent, requests, editor>>
      /\ pending' \in SUBSET RequestIds
  <2>1. CASE Submit(w)
    <3>1. j.request \in RequestIds
      BY <1>0, <2>1, JobFields DEF Submit, NewJob
    <3> QED
      BY <1>0, <2>1, <3>1 DEF Submit, TypeOK
  <2>2. CASE BulkCommit(w)
    <3>1. j.fell \in SUBSET RequestIds
      BY <1>0, <2>2, JobFields DEF BulkCommit, NewJob
    <3> QED
      BY <1>0, <2>2, <3>1 DEF BulkCommit, TypeOK
  <2> QED
    BY <1>0, <2>1, <2>2 DEF BulkBegin, Find, RecordSelect, RecordBusy, tables, TypeOK
<1>3. \/ writer' = writer
      \/ writer = None /\ writer' = w
      \/ writer = w /\ writer' = None
  <2>1. CASE BulkCommit(w)
    <3>1. j.pc = "commit"
      BY <2>1 DEF BulkCommit
    <3>2. writer = w
      BY <1>0, <3>1 DEF JobOK
    <3> QED
      BY <2>1, <3>2 DEF BulkCommit
  <2> QED
    BY <2>1 DEF BulkBegin, Find, RecordSelect, RecordBusy, Submit
<1>4. /\ job' \in [Workers -> Jobs]
      /\ writer' \in Workers \cup {None}
      /\ JobInv'
  BY <1>0, <1>1, <1>2, <1>3, JobUpdate
<1>5. TypeOK'
  BY <1>0, <1>2, <1>4 DEF TypeOK
<1>6. \A v \in Workers : job'[v].pc \in {"call", "audit"} => job'[v] = job[v]
  BY <1>0, <1>1 DEF TypeOK
<1>7. LedgerBalances'
  BY <1>0, <1>2, <1>6, LedgerStill DEF IInv
<1> QED
  BY <1>4, <1>5, <1>7

\* A step that adds to the ledger under the key of the goroutine that takes it.
LEMMA BookingInv ==
    ASSUME IInv, NEW w \in Workers,
           RecordInsert(w) \/ CallConnector(w) \/ EmitAudit(w)
    PROVE  TypeOK' /\ JobInv' /\ LedgerBalances'
<1> DEFINE j == job[w]
           Jobs == IdleJob \cup NewJob \cup GrantJob
           k0 == <<j.sa, j.request>>
<1>0. TypeOK /\ JobInv /\ LedgerBalances /\ JobOK(j, w, writer, Revoked)
  BY DEF IInv, JobInv
<1>1. j \in GrantJob
  BY <1>0, JobFields DEF RecordInsert, CallConnector, EmitAudit, TypeOK
<1>2. k0 \in Key
  BY <1>1 DEF GrantJob, Key
<1>3. /\ sas' = sas /\ writer' = writer
      /\ UNCHANGED <<now, agent, requests, pending, editor>>
  BY DEF RecordInsert, CallConnector, EmitAudit
<1>4. \A k \in Key : /\ ledger[k] \in [rows : Nat, calls : Nat, events : Nat]
                     /\ ledger[k].events + Cardinality(At(k, "audit")) <= ledger[k].calls
                     /\ ledger[k].calls + Cardinality(At(k, "call")) <= ledger[k].rows
                     /\ k[2] # None => ledger[k].rows <= 1
  BY <1>0 DEF TypeOK, LedgerBalances
<1>5. CASE ledger' = ledger
  <2>1. job' = [job EXCEPT ![w] = Idle]
    <3>1. CASE RecordInsert(w)
      <4>1. ledger[k0].rows \in Nat /\ ledger \in [Key -> [rows : Nat, calls : Nat, events : Nat]]
        BY <1>0, <1>2 DEF TypeOK
      <4>2. ledger' # [ledger EXCEPT ![k0].rows = @ + 1]
        BY <1>2, <1>5, <4>1
      <4> QED
        BY <3>1, <4>2 DEF RecordInsert
    <3>2. CASE CallConnector(w)
      <4>1. ledger[k0].calls \in Nat /\ ledger \in [Key -> [rows : Nat, calls : Nat, events : Nat]]
        BY <1>0, <1>2 DEF TypeOK
      <4>2. ledger' # [ledger EXCEPT ![k0].calls = @ + 1]
        BY <1>2, <1>5, <4>1
      <4> QED
        BY <3>2, <4>2 DEF CallConnector
    <3> QED
      BY <3>1, <3>2 DEF EmitAudit
  <2>2. JobOK(Idle, w, writer', Revoked)
    BY IdleOK
  <2>3. job' \in [Workers -> Jobs] /\ writer' \in Workers \cup {None} /\ JobInv'
    BY <1>0, <1>3, <2>1, <2>2, IdleType, JobUpdate
  <2>4. \A v \in Workers : job'[v].pc \in {"call", "audit"} => job'[v] = job[v]
    BY <1>0, <2>1 DEF TypeOK, Idle
  <2>5. LedgerBalances'
    BY <1>0, <1>5, <2>4, LedgerStill
  <2> QED
    BY <1>0, <1>3, <1>5, <2>3, <2>5 DEF TypeOK
<1>6. CASE RecordInsert(w) /\ ledger' # ledger
  <2> DEFINE x == [j EXCEPT !.pc = "call"]
  <2>1. /\ j.pc = "insert" /\ writer = None
        /\ ~(j.kind = "agent" /\ ledger[k0].rows > 0)
        /\ ledger' = [ledger EXCEPT ![k0].rows = @ + 1]
        /\ job' = [job EXCEPT ![w] = x]
    BY <1>6 DEF RecordInsert
  <2>2. /\ x \in GrantJob /\ x.pc = "call" /\ x.kind = j.kind /\ x.sa = j.sa
        /\ x.request = j.request /\ x.gone = j.gone
    BY <1>1, GrantJobMoves
  <2>3. j.kind \in {"agent", "user"}
    <3>1. writer # w /\ j.kind \in {"agent", "bulk", "user"}
      BY <1>1, <2>1, NoIdAssumption DEF GrantJob
    <3> QED
      BY <1>0, <2>1, <3>1 DEF JobOK
  <2>4. k0[2] # None => ledger[k0].rows = 0
    <3>1. ledger[k0].rows \in Nat
      BY <1>2, <1>4
    <3>2. k0[2] # None => j.kind # "user"
      BY <1>0, <2>1 DEF JobOK
    <3> QED
      BY <2>1, <2>3, <3>1, <3>2
  <2>5. JobOK(x, w, writer', Revoked)
    <3> HIDE DEF x
    <3> QED
      BY <1>0, <1>3, <2>1, <2>2, <2>3 DEF JobOK
  <2> HIDE DEF x
  <2>6. job' \in [Workers -> Jobs] /\ writer' \in Workers \cup {None} /\ JobInv'
    BY <1>0, <1>3, <2>1, <2>2, <2>5, JobUpdate
  <2>7. /\ ledger' \in [Key -> [rows : Nat, calls : Nat, events : Nat]]
        /\ ledger'[k0].rows = ledger[k0].rows + 1
        /\ ledger'[k0].calls = ledger[k0].calls
        /\ ledger'[k0].events = ledger[k0].events
        /\ \A k \in Key : k # k0 => ledger'[k] = ledger[k]
    <3>1. ledger \in [Key -> [rows : Nat, calls : Nat, events : Nat]]
      BY <1>0 DEF TypeOK
    <3>2. ledger' = [ledger EXCEPT ![k0].rows = @ + 1]
      BY <2>1
    <3> HIDE DEF k0
    <3> QED
      BY <1>2, <3>1, <3>2, RowsBooked
  <2>8. ASSUME NEW k \in Key
        PROVE  /\ ledger'[k].events + Cardinality(At(k, "audit")') <= ledger'[k].calls
               /\ ledger'[k].calls + Cardinality(At(k, "call")') <= ledger'[k].rows
               /\ k[2] # None => ledger'[k].rows <= 1
    <3>1. Cardinality(At(k, "audit")') <= Cardinality(At(k, "audit"))
      BY <1>0, <2>1, <2>2, AtMoves
    <3>2. k # k0 => Cardinality(At(k, "call")') <= Cardinality(At(k, "call"))
      BY <1>0, <2>1, <2>2, AtMoves
    <3>3. k = k0 => Cardinality(At(k, "call")') = Cardinality(At(k, "call")) + 1
      BY <1>0, <2>1, <2>2, AtMoves
    <3> HIDE DEF k0
    <3> QED
      BY <1>2, <1>4, <2>4, <2>7, <3>1, <3>2, <3>3, AtCounts
  <2>9. LedgerBalances'
    BY <2>8 DEF LedgerBalances
  <2> QED
    BY <1>0, <1>3, <2>6, <2>7, <2>9 DEF TypeOK
<1>7. CASE CallConnector(w) /\ ledger' # ledger
  <2> DEFINE x == [j EXCEPT !.pc = "audit"]
  <2>1. /\ j.pc = "call"
        /\ ledger' = [ledger EXCEPT ![k0].calls = @ + 1]
        /\ job' = [job EXCEPT ![w] = x]
    BY <1>7 DEF CallConnector
  <2>2. /\ x \in GrantJob /\ x.pc = "audit" /\ x.kind = j.kind /\ x.sa = j.sa
        /\ x.request = j.request /\ x.gone = j.gone
    BY <1>1, GrantJobMoves
  <2>3. JobOK(x, w, writer', Revoked)
    <3> HIDE DEF x
    <3> QED
      BY <1>0, <1>3, <2>1, <2>2 DEF JobOK
  <2> HIDE DEF x
  <2>4. job' \in [Workers -> Jobs] /\ writer' \in Workers \cup {None} /\ JobInv'
    BY <1>0, <1>3, <2>1, <2>2, <2>3, JobUpdate
  <2>5. /\ ledger' \in [Key -> [rows : Nat, calls : Nat, events : Nat]]
        /\ ledger'[k0].rows = ledger[k0].rows
        /\ ledger'[k0].calls = ledger[k0].calls + 1
        /\ ledger'[k0].events = ledger[k0].events
        /\ \A k \in Key : k # k0 => ledger'[k] = ledger[k]
    <3>1. ledger \in [Key -> [rows : Nat, calls : Nat, events : Nat]]
      BY <1>0 DEF TypeOK
    <3>2. ledger' = [ledger EXCEPT ![k0].calls = @ + 1]
      BY <2>1
    <3> HIDE DEF k0
    <3> QED
      BY <1>2, <3>1, <3>2, CallsBooked
  <2>6. ASSUME NEW k \in Key
        PROVE  /\ ledger'[k].events + Cardinality(At(k, "audit")') <= ledger'[k].calls
               /\ ledger'[k].calls + Cardinality(At(k, "call")') <= ledger'[k].rows
               /\ k[2] # None => ledger'[k].rows <= 1
    <3>1. k # k0 => /\ Cardinality(At(k, "audit")') <= Cardinality(At(k, "audit"))
                    /\ Cardinality(At(k, "call")') <= Cardinality(At(k, "call"))
      BY <1>0, <2>1, <2>2, AtMoves
    <3>2. k = k0 => Cardinality(At(k, "audit")') = Cardinality(At(k, "audit")) + 1
      BY <1>0, <2>1, <2>2, AtMoves
    <3>3. k = k0 => Cardinality(At(k, "call")') = Cardinality(At(k, "call")) - 1
      BY <1>0, <2>1, <2>2, AtMoves
    <3> HIDE DEF k0
    <3> QED
      BY <1>2, <1>4, <2>5, <3>1, <3>2, <3>3, AtCounts
  <2>7. LedgerBalances'
    BY <2>6 DEF LedgerBalances
  <2> QED
    BY <1>0, <1>3, <2>4, <2>5, <2>7 DEF TypeOK
<1>8. CASE EmitAudit(w) /\ ledger' # ledger
  <2>1. /\ j.pc = "audit"
        /\ ledger' = [ledger EXCEPT ![k0].events = @ + 1]
        /\ job' = [job EXCEPT ![w] = Idle]
    BY <1>8 DEF EmitAudit
  <2>2. Idle.pc = "idle"
    BY DEF Idle
  <2>3. job' \in [Workers -> Jobs] /\ writer' \in Workers \cup {None} /\ JobInv'
    BY <1>0, <1>3, <2>1, IdleType, IdleOK, JobUpdate
  <2>4. /\ ledger' \in [Key -> [rows : Nat, calls : Nat, events : Nat]]
        /\ ledger'[k0].rows = ledger[k0].rows
        /\ ledger'[k0].calls = ledger[k0].calls
        /\ ledger'[k0].events = ledger[k0].events + 1
        /\ \A k \in Key : k # k0 => ledger'[k] = ledger[k]
    <3>1. ledger \in [Key -> [rows : Nat, calls : Nat, events : Nat]]
      BY <1>0 DEF TypeOK
    <3>2. ledger' = [ledger EXCEPT ![k0].events = @ + 1]
      BY <2>1
    <3> HIDE DEF k0
    <3> QED
      BY <1>2, <3>1, <3>2, EventsBooked
  <2>5. ASSUME NEW k \in Key
        PROVE  /\ ledger'[k].events + Cardinality(At(k, "audit")') <= ledger'[k].calls
               /\ ledger'[k].calls + Cardinality(At(k, "call")') <= ledger'[k].rows
               /\ k[2] # None => ledger'[k].rows <= 1
    <3>1. k # k0 => Cardinality(At(k, "audit")') <= Cardinality(At(k, "audit"))
      BY <1>0, <2>1, <2>2, AtMoves
    <3>2. k = k0 => Cardinality(At(k, "audit")') = Cardinality(At(k, "audit")) - 1
      BY <1>0, <2>1, <2>2, AtMoves
    <3>3. Cardinality(At(k, "call")') <= Cardinality(At(k, "call"))
      BY <1>0, <2>1, <2>2, AtMoves
    <3> HIDE DEF k0
    <3> QED
      BY <1>2, <1>4, <2>4, <3>1, <3>2, <3>3, AtCounts
  <2>6. LedgerBalances'
    BY <2>5 DEF LedgerBalances
  <2> QED
    BY <1>0, <1>3, <2>3, <2>4, <2>6 DEF TypeOK
<1> QED
  BY <1>5, <1>6, <1>7, <1>8

-----------------------------------------------------------------------------
(* Grants and the requests for them *)

\* The steps of the approver and of the agent that asks for a grant.
Edit ==
    \/ \E s \in SAIds, scope \in Scopes, allows \in Grants, delay \in Delays,
          ttl \in TTLs \cup {None} : CreateSA(s, scope, allows, delay, ttl)
    \/ \E s \in SAIds : RevokeSA(s)
    \/ DeactivateAgent
    \/ \E e \in Editors, s \in SAIds, allows \in Grants, ttl \in TTLs \cup {None},
          omitted \in BOOLEAN : UpdateRead(e, s, allows, ttl, omitted)
    \/ \E e \in Editors : UpdateCommit(e)
    \/ \E q \in Requests, allows \in Grants : AskForGrant(q, allows)
    \/ \E e \in Editors, q \in Requests : ApproveRead(e, q)
    \/ \E e \in Editors, s \in SAIds : ApproveCommit(e, s)
    \/ \E q \in Requests : DenyRequest(q)

\* What such a step may do to one grant: create it, for a request that is then
\* approved or for none, or change an active one without changing its origin.
LEMMA EditGrant ==
    ASSUME IInv, Edit, NEW s \in SAIds
    PROVE  \/ sas'[s] = sas[s]
           \/ /\ sas[s].status = "absent" /\ sas'[s].status = "active"
              /\ \/ sas'[s].origin = None
                 \/ sas'[s].origin \in Requests /\ requests'[sas'[s].origin].status = "approved"
           \/ /\ sas[s].status = "active" /\ sas'[s].status \in {"active", "revoked"}
              /\ sas'[s].origin = sas[s].origin
<1>0. TypeOK /\ RequestInv /\ sas[s] \in Grant
  BY DEF IInv, TypeOK
<1>1. ASSUME NEW t \in SAIds, NEW scope \in Scopes, NEW allows \in Grants, NEW delay \in Delays,
             NEW ttl \in TTLs \cup {None}, CreateSA(t, scope, allows, delay, ttl)
      PROVE  \/ sas'[s] = sas[s]
             \/ sas[s].status = "absent" /\ sas'[s].status = "active" /\ sas'[s].origin = None
  BY <1>0, <1>1 DEF CreateSA, NewGrant, TypeOK
<1>2. ASSUME NEW t \in SAIds, RevokeSA(t)
      PROVE  \/ sas'[s] = sas[s]
             \/ /\ sas[s].status = "active" /\ sas'[s].status = "revoked"
                /\ sas'[s].origin = sas[s].origin
  BY <1>0, <1>2 DEF RevokeSA, TypeOK, Grant
<1>3. ASSUME DeactivateAgent
      PROVE  \/ sas'[s] = sas[s]
             \/ /\ sas[s].status = "active" /\ sas'[s].status = "revoked"
                /\ sas'[s].origin = sas[s].origin
  BY <1>0, <1>3 DEF DeactivateAgent, TypeOK, Grant
<1>4. ASSUME NEW e \in Editors, UpdateCommit(e)
      PROVE  \/ sas'[s] = sas[s]
             \/ /\ sas[s].status = "active" /\ sas'[s].status = "active"
                /\ sas'[s].origin = sas[s].origin
  <2> DEFINE t == editor[e].sa
             g == [sas[t] EXCEPT !.allows = editor[e].allows, !.expires = editor[e].expires]
  <2>1. editor[e] \in Updating
    BY <1>0, <1>4 DEF UpdateCommit, TypeOK, IdleEditor, Approving
  <2>2. t \in SAIds /\ editor[e].allows \in SUBSET Params /\ editor[e].expires \in Nat \cup {None}
    BY <2>1 DEF Updating
  <2>3. g.status = sas[t].status /\ g.origin = sas[t].origin
    <3> DEFINE r == sas[t]
               allows == editor[e].allows
               expires == editor[e].expires
    <3>1. r \in Grant
      BY <1>0, <2>2 DEF TypeOK
    <3>2. g = [r EXCEPT !.allows = allows, !.expires = expires]
      OBVIOUS
    <3> HIDE DEF g, r, allows, expires
    <3>3. g.status = r.status /\ g.origin = r.origin
      BY <3>1, <3>2 DEF Grant
    <3> QED
      BY <3>3 DEF r
  <2>4. sas' = sas \/ (sas[t].status = "active" /\ sas' = [sas EXCEPT ![t] = g])
    BY <1>0, <1>4, <2>2 DEF UpdateCommit, TypeOK
  <2> HIDE DEF g, t
  <2> QED
    BY <1>0, <2>2, <2>3, <2>4 DEF TypeOK
<1>5. ASSUME NEW e \in Editors, NEW t \in SAIds, ApproveCommit(e, t)
      PROVE  \/ sas'[s] = sas[s]
             \/ /\ sas[s].status = "absent" /\ sas'[s].status = "active"
                /\ sas'[s].origin \in Requests /\ requests'[sas'[s].origin].status = "approved"
  <2> DEFINE q == editor[e].request
  <2>1. editor[e] \in Approving
    BY <1>0, <1>5 DEF ApproveCommit, TypeOK, IdleEditor, Updating
  <2>2. q \in Requests /\ requests[q] \in Request /\ requests[q].status # "absent"
    BY <1>0, <2>1 DEF Approving, TypeOK, RequestInv
  <2>3. requests[q].status # "denied" => requests'[q].status = "approved"
    <3> DEFINE r == [requests[q] EXCEPT !.status = "approved", !.resulting = t]
    <3>1. r.status = "approved"
      BY <2>2, ApprovedRequest
    <3>2. \/ requests[q].status # "pending" /\ requests' = requests
          \/ requests' = [requests EXCEPT ![q] = r]
      BY <1>0, <1>5, <2>2 DEF ApproveCommit, TypeOK
    <3>3. requests[q].status \in {"absent", "pending", "approved", "denied"}
      BY <2>2 DEF Request
    <3> HIDE DEF r, q
    <3> QED
      BY <1>0, <2>2, <3>1, <3>2, <3>3 DEF TypeOK
  <2>4. \/ sas' = sas
        \/ /\ requests[q].status # "denied" /\ sas[t].status = "absent"
           /\ sas' = [sas EXCEPT ![t] = NewGrant("exact", requests[q].allows, editor[e].starts,
                                                 None, q)]
    BY <1>5 DEF ApproveCommit
  <2> QED
    BY <1>0, <2>2, <2>3, <2>4 DEF NewGrant, TypeOK
<1> QED
  BY <1>0, <1>1, <1>2, <1>3, <1>4, <1>5
     DEF Edit, UpdateRead, AskForGrant, ApproveRead, DenyRequest, tables

\* What such a step may do to a request: a decided one stays as it is.
LEMMA EditRequest ==
    ASSUME IInv, Edit, NEW q \in Requests
    PROVE  \/ requests'[q] = requests[q]
           \/ requests[q].status = "absent" /\ requests'[q].status = "pending"
           \/ requests[q].status = "pending" /\ requests'[q].status = "denied"
           \/ /\ requests[q].status = "pending" /\ requests'[q].status = "approved"
              /\ requests'[q].resulting \in SAIds
              /\ sas'[requests'[q].resulting].status = "active"
              /\ sas'[requests'[q].resulting].origin = q
<1>0. TypeOK /\ requests[q] \in Request
  BY DEF IInv, TypeOK
<1>1. ASSUME NEW p \in Requests, NEW allows \in Grants, AskForGrant(p, allows)
      PROVE  \/ requests'[q] = requests[q]
             \/ requests[q].status = "absent" /\ requests'[q].status = "pending"
  BY <1>0, <1>1 DEF AskForGrant, TypeOK, Request
<1>2. ASSUME NEW p \in Requests, DenyRequest(p)
      PROVE  \/ requests'[q] = requests[q]
             \/ requests[q].status = "pending" /\ requests'[q].status = "denied"
  BY <1>0, <1>2 DEF DenyRequest, TypeOK, Request
<1>3. ASSUME NEW e \in Editors, NEW t \in SAIds, ApproveCommit(e, t)
      PROVE  \/ requests'[q] = requests[q]
             \/ /\ requests[q].status = "pending" /\ requests'[q].status = "approved"
                /\ requests'[q].resulting \in SAIds
                /\ sas'[requests'[q].resulting].status = "active"
                /\ sas'[requests'[q].resulting].origin = q
  <2> DEFINE p == editor[e].request
             r == [requests[p] EXCEPT !.status = "approved", !.resulting = t]
             g == NewGrant("exact", requests[p].allows, editor[e].starts, None, p)
  <2>1. editor[e] \in Approving
    BY <1>0, <1>3 DEF ApproveCommit, TypeOK, IdleEditor, Updating
  <2>2. p \in Requests
    BY <2>1 DEF Approving
  <2>3. r.status = "approved" /\ r.resulting = t
    BY <1>0, <2>2, ApprovedRequest DEF TypeOK
  <2>4. \/ requests' = requests
        \/ /\ requests[p].status = "pending" /\ requests' = [requests EXCEPT ![p] = r]
           /\ sas' = [sas EXCEPT ![t] = g]
    BY <1>0, <1>3, <2>2 DEF ApproveCommit, TypeOK
  <2>5. g.status = "active" /\ g.origin = p
    BY DEF NewGrant
  <2> HIDE DEF r, g, p
  <2> QED
    BY <1>0, <2>2, <2>3, <2>4, <2>5 DEF TypeOK
<1> QED
  BY <1>1, <1>2, <1>3
     DEF Edit, CreateSA, RevokeSA, DeactivateAgent, UpdateRead, UpdateCommit, ApproveRead, tables

\* These steps keep the invariant.
LEMMA EditInv == ASSUME IInv, Edit PROVE IInv'
<1>0. TypeOK /\ JobInv /\ RequestInv /\ LedgerBalances
  BY DEF IInv
<1>1. TypeOK'
  BY <1>0, EditType DEF Edit
<1>2. job' = job /\ writer' = writer /\ ledger' = ledger
  BY DEF Edit, CreateSA, RevokeSA, DeactivateAgent, UpdateRead, UpdateCommit, AskForGrant,
         ApproveRead, ApproveCommit, DenyRequest, tables
<1>3. JobInv'
  <2>1. Revoked \subseteq Revoked'
    BY EditGrant DEF Revoked
  <2> QED
    BY <1>0, <1>2, <2>1 DEF JobInv, JobOK
<1>4. LedgerBalances'
  BY <1>0, <1>2, LedgerStill
<1>5. RequestInv'
  <2>1. ASSUME NEW s \in SAIds, NEW q \in Requests, sas'[s].origin = q
        PROVE  requests'[q].status = "approved"
    <3>1. None # q
      BY NoIdAssumption
    <3>2. CASE sas'[s].origin = sas[s].origin
      BY <1>0, <2>1, <3>2, EditRequest DEF RequestInv
    <3> QED
      BY <2>1, <3>1, <3>2, EditGrant
  <2>2. ASSUME NEW q \in Requests, requests'[q].status = "approved"
        PROVE  /\ requests'[q].resulting \in SAIds
               /\ sas'[requests'[q].resulting].status # "absent"
               /\ sas'[requests'[q].resulting].origin = q
    <3>1. CASE requests'[q] = requests[q]
      <4> DEFINE s == requests[q].resulting
      <4>1. s \in SAIds /\ sas[s].status # "absent" /\ sas[s].origin = q
        BY <1>0, <2>2, <3>1 DEF RequestInv
      <4>2. sas'[s].status # "absent" /\ sas'[s].origin = q
        BY <4>1, EditGrant
      <4> QED
        BY <3>1, <4>1, <4>2
    <3> QED
      BY <2>2, <3>1, EditRequest
  <2>3. ASSUME NEW e \in Editors, editor'[e].pc = "approving"
        PROVE  requests'[editor'[e].request].status # "absent"
    <3>1. \/ editor'[e] = editor[e]
          \/ editor'[e].pc # "approving"
          \/ \E q \in Requests : requests[q].status = "pending" /\ editor'[e].request = q
      <4>1. ASSUME NEW f \in Editors, NEW t \in SAIds, NEW allows \in Grants,
                   NEW ttl \in TTLs \cup {None}, NEW omitted \in BOOLEAN,
                   UpdateRead(f, t, allows, ttl, omitted)
            PROVE  editor'[e] = editor[e] \/ editor'[e].pc = "updating"
        BY <1>0, <4>1 DEF UpdateRead, TypeOK
      <4>2. ASSUME NEW f \in Editors, UpdateCommit(f) \/ \E t \in SAIds : ApproveCommit(f, t)
            PROVE  editor'[e] = editor[e] \/ editor'[e].pc = "idle"
        <5>1. editor' = [editor EXCEPT ![f] = Idle]
          BY <4>2 DEF UpdateCommit, ApproveCommit
        <5> QED
          BY <1>0, <5>1 DEF TypeOK, Idle
      <4>3. ASSUME NEW f \in Editors, NEW q \in Requests, ApproveRead(f, q)
            PROVE  \/ editor'[e] = editor[e]
                   \/ requests[q].status = "pending" /\ editor'[e].request = q
        BY <1>0, <4>3 DEF ApproveRead, TypeOK
      <4>4. \/ editor' = editor
            \/ \E f \in Editors, t \in SAIds, allows \in Grants, ttl \in TTLs \cup {None},
                  omitted \in BOOLEAN : UpdateRead(f, t, allows, ttl, omitted)
            \/ \E f \in Editors : UpdateCommit(f)
            \/ \E f \in Editors, t \in SAIds : ApproveCommit(f, t)
            \/ \E f \in Editors, q \in Requests : ApproveRead(f, q)
        BY DEF Edit, CreateSA, RevokeSA, DeactivateAgent, AskForGrant, DenyRequest
      <4> QED
        BY <4>1, <4>2, <4>3, <4>4
    <3>2. \A q \in Requests : requests[q].status # "absent" => requests'[q].status # "absent"
      BY EditRequest
    <3>3. editor'[e].request \in Requests
      BY <1>1, <2>3 DEF TypeOK, IdleEditor, Approving, Updating
    <3> QED
      BY <1>0, <2>3, <3>1, <3>2, <3>3 DEF RequestInv
  <2> QED
    BY <2>1, <2>2, <2>3 DEF RequestInv
<1> QED
  BY <1>1, <1>3, <1>4, <1>5 DEF IInv

-----------------------------------------------------------------------------
(* The invariant is inductive *)

\* The tables are empty and nobody is working.
LEMMA InitInv == Init => IInv
<1> SUFFICES ASSUME Init PROVE IInv
  OBVIOUS
<1>1. TypeOK
  BY InitType
<1>2. \A w \in Workers : job[w] = Idle
  BY DEF Init
<1>3. JobInv
  BY <1>2, IdleOK DEF JobInv
<1>4. RequestInv
  BY NoIdAssumption DEF Init, RequestInv, Idle
<1>5. LedgerBalances
  <2> SUFFICES ASSUME NEW k \in Key
               PROVE  /\ ledger[k].events + Cardinality(At(k, "audit")) <= ledger[k].calls
                      /\ ledger[k].calls + Cardinality(At(k, "call")) <= ledger[k].rows
                      /\ k[2] # None => ledger[k].rows <= 1
    BY DEF LedgerBalances
  <2>1. At(k, "audit") = {} /\ At(k, "call") = {}
    BY <1>2 DEF At, Idle
  <2>2. ledger[k].rows = 0 /\ ledger[k].calls = 0 /\ ledger[k].events = 0
    BY DEF Init
  <2> QED
    BY <2>1, <2>2, FS_EmptySet
<1> QED
  BY <1>1, <1>3, <1>4, <1>5 DEF IInv

\* Steps that leave grants, requests and editors alone do not disturb RequestInv.
LEMMA RequestStill ==
    ASSUME RequestInv, UNCHANGED <<sas, requests, editor>>
    PROVE  RequestInv'
  BY DEF RequestInv

\* Every step of the system keeps the invariant.
LEMMA NextInv == IInv /\ [Next]_vars => IInv'
<1> SUFFICES ASSUME IInv, [Next]_vars PROVE IInv'
  OBVIOUS
<1>0. TypeOK /\ JobInv /\ RequestInv /\ LedgerBalances
  BY DEF IInv
<1>1. CASE Edit
  BY <1>1, EditInv
<1>2. ASSUME NEW w \in Workers,
             \/ \E r \in RequestIds, p \in Params : StartAgent(w, r, p)
             \/ \E R \in SUBSET RequestIds, p \in Params : StartBulk(w, R, p)
             \/ \E s \in SAIds, p \in Params : StartUser(w, s, p)
      PROVE  IInv'
  <2>1. TypeOK' /\ JobInv'
    BY <1>0, <1>2, StartInv
  <2>2. UNCHANGED <<ledger, sas, requests, editor>>
    BY <1>2 DEF StartAgent, StartBulk, StartUser, tables
  <2>3. \A v \in Workers : job'[v].pc \in {"call", "audit"} => job'[v] = job[v]
    <3>1. DOMAIN job = Workers
      BY <1>0 DEF TypeOK
    <3>2. ASSUME NEW r \in RequestIds, NEW p \in Params, StartAgent(w, r, p)
          PROVE  job'[w].pc = "find" /\ \A v \in Workers \ {w} : job'[v] = job[v]
      BY <3>1, <3>2 DEF StartAgent
    <3>3. ASSUME NEW R \in SUBSET RequestIds, NEW p \in Params, StartBulk(w, R, p)
          PROVE  job'[w].pc = "begin" /\ \A v \in Workers \ {w} : job'[v] = job[v]
      BY <3>1, <3>3 DEF StartBulk
    <3>4. ASSUME NEW s \in SAIds, NEW p \in Params, StartUser(w, s, p)
          PROVE  job'[w].pc = "record" /\ \A v \in Workers \ {w} : job'[v] = job[v]
      BY <3>1, <3>4 DEF StartUser
    <3> QED
      BY <1>2, <3>2, <3>3, <3>4
  <2>4. LedgerBalances'
    BY <1>0, <2>2, <2>3, LedgerStill
  <2> QED
    BY <1>0, <2>1, <2>2, <2>4, RequestStill DEF IInv
<1>3. ASSUME NEW w \in Workers, JobStep(w)
      PROVE  IInv'
  <2>1. TypeOK' /\ JobInv' /\ LedgerBalances'
    BY <1>3, QuietInv, BookingInv DEF JobStep
  <2>2. UNCHANGED <<sas, requests, editor>>
    BY <1>3 DEF JobStep, BulkBegin, Find, RecordSelect, RecordInsert, RecordBusy, CallConnector,
                EmitAudit, Submit, BulkCommit, tables
  <2> QED
    BY <1>0, <2>1, <2>2, RequestStill DEF IInv
<1>4. CASE Tick
  <2>1. now' \in Nat /\ UNCHANGED <<tables, writer, job, editor>>
    BY <1>0, <1>4 DEF Tick, TypeOK
  <2>2. TypeOK'
    BY <1>0, <2>1 DEF tables, TypeOK
  <2>3. JobInv' /\ LedgerBalances' /\ RequestInv'
    BY <1>0, <2>1, LedgerStill, RequestStill DEF tables, JobInv, JobOK, Revoked
  <2> QED
    BY <2>2, <2>3 DEF IInv
<1>5. CASE Crash
  <2>1. /\ \A w \in Workers : job'[w] = Idle
        /\ \A e \in Editors : editor'[e] = Idle
        /\ UNCHANGED <<now, tables>>
    BY <1>5 DEF Crash
  <2>2. TypeOK'
    BY <1>0, <1>5, IdleType DEF Crash, tables, TypeOK
  <2>3. JobInv'
    BY <2>1, IdleOK DEF JobInv
  <2>4. LedgerBalances'
    BY <1>0, <2>1, LedgerStill DEF tables, Idle
  <2>5. RequestInv'
    BY <1>0, <2>1 DEF RequestInv, tables, Idle
  <2> QED
    BY <2>2, <2>3, <2>4, <2>5 DEF IInv
<1>6. CASE UNCHANGED vars
  <2>1. TypeOK'
    BY <1>0, <1>6 DEF vars, TypeOK
  <2>2. JobInv' /\ LedgerBalances' /\ RequestInv'
    BY <1>0, <1>6, LedgerStill, RequestStill DEF vars, JobInv, JobOK, Revoked
  <2> QED
    BY <2>1, <2>2 DEF IInv
<1> QED
  BY <1>1, <1>2, <1>3, <1>4, <1>5, <1>6 DEF Next, Edit

\* The invariant holds in every reachable state.
LEMMA Invariance == Spec => []IInv
BY InitInv, NextInv, PTL DEF Spec

-----------------------------------------------------------------------------
(* The theorems *)

\* Every table and every goroutine keeps its type; in particular no goroutine goes
\* on to record an execution without a grant (tryStandingApprovalAutoApprove).
THEOREM TypeCorrect == Spec => []TypeOK
<1>1. IInv => TypeOK
  BY DEF IInv
<1> QED
  BY <1>1, Invariance, PTL

\* Rows, connector calls and audit events of every grant balance, and one
\* request_id runs at most once under one grant, however many goroutines retry it
\* (RecordStandingApprovalExecutionByAgent).
THEOREM Balanced == Spec => []LedgerBalances
<1>1. IInv => LedgerBalances
  BY DEF IInv
<1> QED
  BY <1>1, Invariance, PTL

\* A request that begins after a revocation is never recorded against the revoked
\* grant (RevokeStandingApproval, DeactivateAgent).
THEOREM RevocationStops == Spec => []RevocationStopsNewRequests
<1>1. IInv => RevocationStopsNewRequests
  BY DEF IInv, JobInv, JobOK, RevocationStopsNewRequests
<1> QED
  BY <1>1, Invariance, PTL

\* A denied request has no grant and an approved one links to its own
\* (handleApproveStandingApprovalRequest, DenyStandingApprovalRequest).
THEOREM DecisionMatches == Spec => []DecisionMatchesGrants
<1>1. IInv => DecisionMatchesGrants
  BY DEF IInv, RequestInv, DecisionMatchesGrants
<1> QED
  BY <1>1, Invariance, PTL

\* A revoked grant is never edited or revived (UpdateStandingApproval).
THEOREM Frozen == Spec => RevokedIsFrozen
<1>1. ASSUME IInv, [Next]_vars, NEW s \in SAIds, sas[s].status = "revoked"
      PROVE  sas'[s] = sas[s]
  <2>1. CASE Edit
    BY <1>1, <2>1, EditGrant
  <2>2. CASE ~Edit
    BY <1>1, <2>2 DEF Next, Edit, StartAgent, StartBulk, StartUser, JobStep, BulkBegin, Find,
                      RecordSelect, RecordInsert, RecordBusy, CallConnector, EmitAudit, Submit,
                      BulkCommit, Tick, Crash, tables, vars
  <2> QED
    BY <2>1, <2>2
<1>2. IInv /\ [Next]_vars =>
          [\A s \in SAIds : sas[s].status = "revoked" => sas'[s] = sas[s]]_vars
  BY <1>1
<1> QED
  BY <1>2, Invariance, PTL DEF Spec, RevokedIsFrozen
=============================================================================
