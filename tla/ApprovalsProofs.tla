--------------------------- MODULE ApprovalsProofs ---------------------------
(****************************************************************************)
(* Proofs about Approvals, for any number of approvals, handlers and        *)
(* requesters, any lifetimes, any clock resolution and any faults.          *)
(*                                                                          *)
(* First the invariant behind what is executed, told and audited; then what *)
(* each kind of step does to the approvals table, and what follows from it: *)
(* decisions are final, request ids match rows, the cooldown holds, bulk    *)
(* groups only progress, and Approvals implements ApprovalPromise.          *)
(****************************************************************************)
EXTENDS Approvals, SQLiteTimeProofs, SequenceTheorems

-----------------------------------------------------------------------------
(* The inductive invariant *)

\* Only an approved row has been executed, at most once, and a stored result is
\* that of the call.
ExecutionInv ==
    \A a \in ApprovalIds :
        /\ calls[a] <= 1
        /\ approvals[a].status # "approved" => calls[a] = 0 /\ approvals[a].exec = "null"
        /\ approvals[a].exec # "null" => calls[a] = 1 /\ approvals[a].exec = outcome[a]

\* A handler past its approving transaction owns an approved row that was not
\* executed yet; past the call it holds the call's result; a handler that
\* announces does so for rows that have the status it announces.
HandlerOK(h) ==
    /\ handler[h].pc \in {"approved", "execute"} =>
          /\ handler[h].id \in ApprovalIds
          /\ handler[h].status = "approved"
          /\ approvals[handler[h].id].status = "approved"
          /\ calls[handler[h].id] = 0
    /\ handler[h].pc = "persist" =>
          /\ handler[h].id \in ApprovalIds
          /\ handler[h].status = "approved"
          /\ approvals[handler[h].id].status = "approved"
          /\ calls[handler[h].id] = 1
          /\ handler[h].result = outcome[handler[h].id]
    /\ handler[h].pc \in {"audit", "notify"} =>
          /\ handler[h].status \in Resolutions
          /\ \A a \in handler[h].todo : approvals[a].status = handler[h].status
    /\ handler[h].pc = "notify" =>
          /\ handler[h].id \in ApprovalIds
          /\ approvals[handler[h].id].status = handler[h].status

HandlerInv == \A h \in Handlers : HandlerOK(h)

\* Two handlers never own the same approved row.
ExclusiveInv ==
    \A h, i \in Handlers :
        /\ handler[h].pc \in {"approved", "execute"}
        /\ handler[i].pc \in {"approved", "execute"}
        /\ handler[h].id = handler[i].id
        => h = i

\* What was audited or told is what the row says, by the SQL clock.
ReportInv ==
    \A a \in ApprovalIds :
        /\ \A s \in Resolutions : <<a, s>> \in audit => approvals[a].status = s
        /\ \A s \in Resolutions : <<a, s>> \in told => approvals[a].status = s
        /\ <<a, "expired">> \in told =>
              /\ approvals[a].status = "pending"
              /\ SQLExpired(approvals[a].expires, now)

IInv == TypeOK /\ ExecutionInv /\ HandlerInv /\ ExclusiveInv /\ ReportInv

-----------------------------------------------------------------------------
(* Type correctness *)

USE DEF Resolutions, ExecResults

\* A goroutine that has nothing to do is well typed.
LEMMA IdleType == Idle \in Handler
<1>1. <<>> \in Seq(Decision)
  BY EmptySeq
<1> QED
  BY <1>1 DEF Idle, Handler

\* The initial tables and goroutines have their types.
LEMMA InitType == Init => TypeOK
<1>1. NoRow \in Row
  BY DEF NoRow, Row
<1> QED
  BY <1>1, IdleType DEF Init, TypeOK

\* A freshly inserted row is a row.
LEMMA NewRowType ==
    ASSUME NEW req \in RequestIds \cup {None}, NEW fp \in Fingerprints \cup {None},
           NEW exp \in Nat, NEW chk \in Nat, NEW g \in Groups \cup {None}
    PROVE  NewRow(req, fp, exp, chk, g) \in Row
BY DEF NewRow, NoRow, Row

\* The UPDATE of a set of rows keeps the table a table.
LEMMA ResolveType ==
    ASSUME TypeOK, NEW ids, NEW status \in Resolutions, Resolve(ids, status)
    PROVE  approvals' \in [ApprovalIds -> Row]
<1>1. ASSUME NEW r \in Row, NEW t \in Nat
      PROVE  [r EXCEPT !.status = status, !.resolved = t] \in Row
  BY DEF Row
<1> QED
  BY <1>1 DEF TypeOK, Resolve

\* Every way a handler's record is rewritten keeps its type.
LEMMA HandlerUpdates ==
    ASSUME NEW r \in Handler, NEW a \in ApprovalIds, NEW result \in ExecResults
    PROVE  /\ [r EXCEPT !.pc = "execute"] \in Handler
           /\ [r EXCEPT !.pc = "approved", !.id = a, !.status = "approved"] \in Handler
           /\ [r EXCEPT !.pc = "audit", !.status = "denied", !.todo = {a}] \in Handler
           /\ [r EXCEPT !.pc = "audit", !.status = "cancelled", !.todo = {a}] \in Handler
           /\ [r EXCEPT !.pc = "persist", !.result = result] \in Handler
           /\ [r EXCEPT !.pc = "audit", !.todo = {a}] \in Handler
           /\ [r EXCEPT !.pc = "notify", !.id = a, !.todo = @ \ {a}] \in Handler
           /\ [r EXCEPT !.pc = "audit", !.id = None] \in Handler
           /\ [r EXCEPT !.pc = "bulk", !.id = None, !.status = "null", !.result = "null"] \in Handler
BY DEF Handler

\* Every bulk decision list is a sequence of decisions.
LEMMA DecisionListType ==
    ASSUME NEW ds \in DecisionLists
    PROVE  ds \in Seq(Decision)
<1>1. PICK n \in 1..MaxDecisions : ds \in [1..n -> Decision]
  BY DEF DecisionLists
<1>2. n \in Nat
  BY MaxDecisionsAssumption
<1> QED
  BY <1>1, <1>2

\* Every step keeps the types.  The steps that follow an approval rest on
\* HandlerInv: the handler has an approval in hand.
LEMMA NextType == TypeOK /\ HandlerInv /\ [Next]_vars => TypeOK'
<1> SUFFICES ASSUME TypeOK, HandlerInv, [Next]_vars PROVE TypeOK'
  OBVIOUS
<1>1. ASSUME NEW q \in Requesters, NEW req \in RequestIds, NEW fp \in Fingerprints, NEW ttl \in TTLs,
             CheckRequest(q, req, fp, ttl)
      PROVE  TypeOK'
  <2>1. ttl \in Nat
    BY TTLAssumption
  <2> QED
    BY <1>1, <2>1 DEF CheckRequest, TypeOK, CheckedDraft
<1>2. ASSUME NEW q \in Requesters, NEW a \in ApprovalIds, InsertApproval(q, a)
      PROVE  TypeOK'
  <2> DEFINE row == NewRow(draft[q].request, draft[q].fingerprint, draft[q].expires,
                           draft[q].checked, None)
  <2>1. draft[q] \in CheckedDraft
    BY <1>2 DEF InsertApproval, TypeOK, InsertedDraft
  <2>2. row \in Row
    BY <2>1, NewRowType DEF CheckedDraft
  <2>3. approvals' \in [ApprovalIds -> Row]
    BY <1>2, <2>2 DEF InsertApproval, TypeOK
  <2>4. draft' \in [Requesters -> CheckedDraft \cup InsertedDraft \cup {None}]
    BY <1>2 DEF InsertApproval, TypeOK, InsertedDraft
  <2>5. requestIds' \in SUBSET RequestIds
    BY <1>2, <2>1 DEF InsertApproval, TypeOK, CheckedDraft
  <2> QED
    BY <1>2, <2>3, <2>4, <2>5 DEF InsertApproval, TypeOK
<1>3. ASSUME NEW q \in Requesters, RefuseRequest(q)
      PROVE  TypeOK'
  BY <1>3 DEF RefuseRequest, TypeOK
<1>4. ASSUME NEW q \in Requesters, AnnounceRequest(q)
      PROVE  TypeOK'
  <2>1. draft[q] \in InsertedDraft
    BY <1>4 DEF AnnounceRequest, TypeOK, CheckedDraft
  <2>2. audit' \in SUBSET (ApprovalIds \X ({"requested"} \cup Resolutions))
    BY <1>4, <2>1 DEF AnnounceRequest, TypeOK, InsertedDraft
  <2> QED
    BY <1>4, <2>2 DEF AnnounceRequest, TypeOK
<1>5. ASSUME NEW q \in Requesters, NEW g \in Groups, NEW ids \in SUBSET ApprovalIds, NEW ttl \in TTLs,
             NEW request \in [ids -> RequestIds], NEW fingerprint \in [ids -> Fingerprints],
             BulkRequest(q, g, request, fingerprint, ttl)
      PROVE  TypeOK'
  <2>1. ttl \in Nat /\ now + ttl \in Nat /\ now \in Nat
    BY TTLAssumption DEF TypeOK
  <2>2. \A a \in ids : NewRow(request[a], fingerprint[a], now + ttl, now, g) \in Row
    BY <2>1, NewRowType
  <2>3. approvals' \in [ApprovalIds -> Row]
    BY <1>5, <2>2 DEF BulkRequest, TypeOK
  <2>4. draft' \in [Requesters -> CheckedDraft \cup InsertedDraft \cup {None}]
    BY <1>5 DEF BulkRequest, TypeOK, InsertedDraft
  <2>5. requestIds' \in SUBSET RequestIds
    BY <1>5 DEF BulkRequest, TypeOK
  <2> QED
    BY <1>5, <2>3, <2>4, <2>5 DEF BulkRequest, TypeOK
<1>6. ASSUME NEW h \in Handlers, NEW a \in ApprovalIds, Approve(h, a)
      PROVE  TypeOK'
  <2>1. approvals' \in [ApprovalIds -> Row]
    BY <1>6, ResolveType DEF Approve
  <2> QED
    BY <1>6, <2>1, IdleType, HandlerUpdates DEF Approve, TypeOK
<1>7. ASSUME NEW h \in Handlers, NEW a \in ApprovalIds, NEW status \in {"denied", "cancelled"},
             Close(h, a, status)
      PROVE  TypeOK'
  <2>1. approvals' \in [ApprovalIds -> Row]
    BY <1>7, ResolveType DEF Close
  <2> QED
    BY <1>7, <2>1, IdleType, HandlerUpdates DEF Close, TypeOK
<1>8. ASSUME NEW h \in Handlers, DenyAll(h)
      PROVE  TypeOK'
  <2> DEFINE ids == {a \in ApprovalIds : Resolvable(a) /\ approvals[a].group = None}
  <2>1. Resolve(ids, "denied") /\ ids \in SUBSET ApprovalIds
    BY <1>8 DEF DenyAll
  <2>2. handler' = [handler EXCEPT ![h] = [Idle EXCEPT !.pc = "audit", !.status = "denied", !.todo = ids]]
    BY <1>8 DEF DenyAll
  <2> HIDE DEF ids
  <2>3. [Idle EXCEPT !.pc = "audit", !.status = "denied", !.todo = ids] \in Handler
    BY <2>1, IdleType DEF Handler
  <2>4. approvals' \in [ApprovalIds -> Row]
    BY <2>1, ResolveType
  <2> QED
    BY <1>8, <2>2, <2>3, <2>4 DEF DenyAll, TypeOK
<1>9. ASSUME NEW h \in Handlers, NEW g \in Groups, NEW ds \in DecisionLists, DecideBulkGroup(h, g, ds)
      PROVE  TypeOK'
  BY <1>9, IdleType, DecisionListType DEF DecideBulkGroup, TypeOK, Handler, GroupRows
<1>10. ASSUME NEW h \in Handlers, DecideItem(h)
       PROVE  TypeOK'
  <2> DEFINE d == Head(handler[h].decisions)
             rest == [handler[h] EXCEPT !.decisions = Tail(@)]
  <2>1. handler[h].decisions \in Seq(Decision) /\ handler[h].decisions # <<>>
    BY <1>10 DEF DecideItem, TypeOK, Handler
  <2>2. d \in Decision /\ Tail(handler[h].decisions) \in Seq(Decision)
    BY <2>1
  <2>3. d.id \in ApprovalIds
    BY <2>2 DEF Decision
  <2>4. rest \in Handler
    <3>1. ASSUME NEW r \in Handler, NEW ds \in Seq(Decision)
          PROVE  [r EXCEPT !.decisions = ds] \in Handler
      BY DEF Handler
    <3> QED
      BY <2>2, <3>1 DEF TypeOK
  <2>5. \/ handler' = [handler EXCEPT ![h] = rest] /\ UNCHANGED approvals
        \/ /\ Resolve({d.id}, "approved")
           /\ handler' = [handler EXCEPT ![h] =
                            [rest EXCEPT !.pc = "approved", !.id = d.id, !.status = "approved"]]
        \/ /\ Resolve({d.id}, "denied")
           /\ handler' = [handler EXCEPT ![h] =
                            [rest EXCEPT !.pc = "audit", !.status = "denied", !.todo = {d.id}]]
    BY <1>10 DEF DecideItem
  <2> HIDE DEF d, rest
  <2>6. handler' \in [Handlers -> Handler]
    BY <2>3, <2>4, <2>5, HandlerUpdates DEF TypeOK
  <2>7. approvals' \in [ApprovalIds -> Row]
    BY <2>5, ResolveType DEF TypeOK
  <2> QED
    BY <1>10, <2>6, <2>7 DEF DecideItem, TypeOK
<1>11. ASSUME NEW h \in Handlers, DecideDone(h)
       PROVE  TypeOK'
  BY <1>11, IdleType DEF DecideDone, TypeOK
<1>12. ASSUME NEW h \in Handlers, ConfirmationCode(h)
       PROVE  TypeOK'
  <2>1. handler[h] \in Handler
    BY DEF TypeOK
  <2>2. [handler[h] EXCEPT !.pc = "execute"] \in Handler
    BY <2>1 DEF Handler
  <2> QED
    BY <1>12, <2>2, IdleType DEF ConfirmationCode, TypeOK
<1>13. ASSUME NEW h \in Handlers, NEW result \in ExecResults, ExecuteAction(h, result)
       PROVE  TypeOK'
  <2>1. handler' = [handler EXCEPT ![h] = [handler[h] EXCEPT !.pc = "persist", !.result = result]]
    BY <1>13 DEF ExecuteAction, TypeOK, Handler
  <2>2. handler[h].id \in ApprovalIds
    BY <1>13 DEF ExecuteAction, HandlerInv, HandlerOK
  <2>3. handler' \in [Handlers -> Handler]
    BY <2>1, <2>2, HandlerUpdates DEF TypeOK
  <2>4. calls' \in [ApprovalIds -> Nat] /\ outcome' \in [ApprovalIds -> {"none"} \cup ExecResults]
    BY <1>13, <2>2 DEF ExecuteAction, TypeOK
  <2> QED
    BY <1>13, <2>3, <2>4 DEF ExecuteAction, TypeOK
<1>14. ASSUME NEW h \in Handlers, PersistResult(h)
       PROVE  TypeOK'
  <2> DEFINE a == handler[h].id
  <2>1. a \in ApprovalIds /\ handler[h].pc = "persist" /\ handler[h].result = outcome[a]
    BY <1>14 DEF PersistResult, HandlerInv, HandlerOK
  <2>2. handler' = [handler EXCEPT ![h] = [handler[h] EXCEPT !.pc = "audit", !.todo = {a}]]
    BY <1>14 DEF PersistResult, TypeOK, Handler
  <2>3. \/ UNCHANGED approvals
        \/ approvals' = [approvals EXCEPT ![a] = [approvals[a] EXCEPT !.exec = handler[h].result]]
    BY <1>14 DEF PersistResult
  <2>4. handler[h].result \in {"null"} \cup ExecResults
    BY DEF TypeOK, Handler
  <2> HIDE DEF a
  <2>5. handler' \in [Handlers -> Handler]
    BY <2>1, <2>2, HandlerUpdates DEF TypeOK
  <2>6. approvals' \in [ApprovalIds -> Row]
    BY <2>1, <2>3, <2>4 DEF TypeOK, Row
  <2> QED
    BY <1>14, <2>5, <2>6 DEF PersistResult, TypeOK
<1>15. ASSUME NEW h \in Handlers, NEW a \in ApprovalIds, EmitAudit(h, a)
       PROVE  TypeOK'
  <2>1. handler' = [handler EXCEPT ![h] =
                      [handler[h] EXCEPT !.pc = "notify", !.id = a, !.todo = @ \ {a}]]
    BY <1>15 DEF EmitAudit, TypeOK, Handler
  <2>2. handler' \in [Handlers -> Handler]
    BY <2>1, HandlerUpdates DEF TypeOK
  <2>3. handler[h].status \in Resolutions
    BY <1>15 DEF EmitAudit, HandlerInv, HandlerOK
  <2>4. audit' \in SUBSET (ApprovalIds \X ({"requested"} \cup Resolutions))
    BY <1>15, <2>3 DEF EmitAudit, TypeOK
  <2> QED
    BY <1>15, <2>2, <2>4 DEF EmitAudit, TypeOK
<1>16. ASSUME NEW h \in Handlers, Notify(h)
       PROVE  TypeOK'
  <2>1. handler[h] \in Handler
    BY DEF TypeOK
  <2>2. /\ [handler[h] EXCEPT !.pc = "audit", !.id = None] \in Handler
        /\ [handler[h] EXCEPT !.pc = "bulk", !.id = None, !.status = "null", !.result = "null"] \in Handler
    BY <2>1 DEF Handler
  <2>3. handler' \in [Handlers -> Handler]
    BY <1>16, <2>2, IdleType DEF Notify, TypeOK
  <2>4. handler[h].status \in Resolutions /\ handler[h].id \in ApprovalIds
    BY <1>16 DEF Notify, HandlerInv, HandlerOK
  <2>5. told' \in SUBSET (ApprovalIds \X ({"expired"} \cup Resolutions))
    BY <1>16, <2>4 DEF Notify, TypeOK
  <2> QED
    BY <1>16, <2>3, <2>5 DEF Notify, TypeOK
<1>17. ASSUME NEW a \in ApprovalIds, PollStatus(a)
       PROVE  TypeOK'
  BY <1>17 DEF PollStatus, TypeOK, Row, ResolvedStatus
<1>18. ASSUME Tick
       PROVE  TypeOK'
  BY <1>18 DEF Tick, TypeOK
<1>19. ASSUME Crash
       PROVE  TypeOK'
  BY <1>19, IdleType DEF Crash, TypeOK
<1>20. ASSUME UNCHANGED vars
       PROVE  TypeOK'
  BY <1>20 DEF vars, TypeOK
<1> QED
  BY <1>1, <1>2, <1>3, <1>4, <1>5, <1>6, <1>7, <1>8, <1>9, <1>10, <1>11, <1>12,
     <1>13, <1>14, <1>15, <1>16, <1>17, <1>18, <1>19, <1>20
     DEF Next, DenyApproval, CancelApproval, HandlerStep, BulkRequests
-----------------------------------------------------------------------------
(* What a transaction does to the table *)

\* Every transaction leaves a row alone, fills an absent one, or resolves one
\* that is pending and not expired.
TableStep ==
    \A a \in ApprovalIds :
        \/ approvals'[a] = approvals[a]
        \/ /\ approvals[a].status = "absent"
           /\ approvals'[a].status = "pending"
           /\ approvals'[a].exec = "null"
        \/ /\ Resolvable(a)
           /\ approvals'[a].status \in Resolutions
           /\ approvals'[a].exec = approvals[a].exec

\* A new row is pending and has no result.
LEMMA NewRowFields ==
    ASSUME NEW req, NEW fp, NEW exp, NEW chk, NEW g
    PROVE  /\ NewRow(req, fp, exp, chk, g).status = "pending"
           /\ NewRow(req, fp, exp, chk, g).exec = "null"
           /\ NewRow(req, fp, exp, chk, g).expires = exp
BY DEF NewRow, NoRow

\* Resolving resolvable rows is such a transaction, and they get the status.
LEMMA ResolveTableStep ==
    ASSUME TypeOK, NEW ids, NEW status \in Resolutions, Resolve(ids, status),
           \A a \in ids : a \in ApprovalIds /\ Resolvable(a)
    PROVE  /\ TableStep
           /\ \A a \in ids : approvals'[a].status = status
<1>1. ASSUME NEW a \in ApprovalIds, a \in ids
      PROVE  /\ approvals'[a].status = status
             /\ approvals'[a].exec = approvals[a].exec
  BY <1>1 DEF Resolve, TypeOK, Row
<1>2. ASSUME NEW a \in ApprovalIds, a \notin ids
      PROVE  approvals'[a] = approvals[a]
  BY <1>2 DEF Resolve
<1> QED
  BY <1>1, <1>2 DEF TableStep

\* A transaction that calls no connector and reports nothing keeps the facts
\* about executions, about reports, and about every handler it does not move.
LEMMA TableStepInv ==
    ASSUME IInv, TableStep, UNCHANGED <<now, calls, outcome, told>>,
           \A a \in ApprovalIds : \A s \in Resolutions : <<a, s>> \in audit' => <<a, s>> \in audit
    PROVE  /\ ExecutionInv'
           /\ ReportInv'
           /\ \A h \in Handlers : handler'[h] = handler[h] => HandlerOK(h)'
<1> USE DEF IInv
<1>1. ExecutionInv'
  BY DEF ExecutionInv, TableStep, Resolvable
<1>2. ReportInv'
  BY DEF ReportInv, TableStep, Resolvable
<1>3. ASSUME NEW a \in ApprovalIds, approvals[a].status \in Resolutions
      PROVE  approvals'[a].status = approvals[a].status
  BY <1>3 DEF TableStep, Resolvable
<1>4. ASSUME NEW h \in Handlers, handler'[h] = handler[h]
      PROVE  HandlerOK(h)'
  <2>1. HandlerOK(h) /\ handler[h].todo \in SUBSET ApprovalIds
    BY DEF HandlerInv, TypeOK, Handler
  <2> QED
    BY <1>3, <1>4, <2>1 DEF HandlerOK
<1> QED
  BY <1>1, <1>2, <1>4

\* No handler owns an approval that is still pending.
LEMMA PendingIsUnowned ==
    ASSUME IInv, NEW h \in Handlers, NEW a \in ApprovalIds, Resolvable(a),
           handler[h].pc \in {"approved", "execute"}
    PROVE  handler[h].id # a
BY DEF IInv, HandlerInv, HandlerOK, Resolvable

-----------------------------------------------------------------------------
(* The invariant is inductive *)

\* At the start nothing was executed, reported or taken up.
LEMMA InitInv == Init => IInv
<1> SUFFICES ASSUME Init PROVE IInv
  OBVIOUS
<1>1. \A a \in ApprovalIds : approvals[a].status = "absent" /\ approvals[a].exec = "null"
  BY DEF Init, NoRow
<1>2. \A h \in Handlers : handler[h].pc = "idle"
  BY DEF Init, Idle
<1>3. ExecutionInv
  BY <1>1 DEF Init, ExecutionInv
<1>4. HandlerInv /\ ExclusiveInv
  BY <1>2 DEF HandlerInv, HandlerOK, ExclusiveInv
<1>5. ReportInv
  BY DEF Init, ReportInv
<1> QED
  BY <1>3, <1>4, <1>5, InitType DEF IInv

\* The agent's side: requests only fill absent rows, and their events are not
\* decisions.
LEMMA RequestInv ==
    ASSUME IInv, NEW q \in Requesters,
           \/ \E req \in RequestIds, fp \in Fingerprints, ttl \in TTLs : CheckRequest(q, req, fp, ttl)
           \/ \E a \in ApprovalIds : InsertApproval(q, a)
           \/ RefuseRequest(q)
           \/ AnnounceRequest(q)
           \/ BulkRequests(q)
    PROVE  ExecutionInv' /\ HandlerInv' /\ ExclusiveInv' /\ ReportInv'
<1>1. UNCHANGED <<now, calls, outcome, told, handler>>
  BY DEF CheckRequest, InsertApproval, RefuseRequest, AnnounceRequest, BulkRequests, BulkRequest
<1>2. TableStep
  <2>1. ASSUME UNCHANGED approvals PROVE TableStep
    BY <2>1 DEF TableStep
  <2>2. ASSUME NEW a \in ApprovalIds, InsertApproval(q, a) PROVE TableStep
    BY <2>2, NewRowFields DEF InsertApproval, TableStep, IInv, TypeOK
  <2>3. ASSUME NEW g \in Groups, NEW ids \in SUBSET ApprovalIds, NEW ttl \in TTLs,
               NEW request \in [ids -> RequestIds], NEW fingerprint \in [ids -> Fingerprints],
               BulkRequest(q, g, request, fingerprint, ttl)
        PROVE  TableStep
    BY <2>3, NewRowFields DEF BulkRequest, TableStep
  <2> QED
    BY <2>1, <2>2, <2>3 DEF CheckRequest, RefuseRequest, AnnounceRequest, BulkRequests
<1>3. \A a \in ApprovalIds : \A s \in Resolutions : <<a, s>> \in audit' => <<a, s>> \in audit
  BY DEF CheckRequest, InsertApproval, RefuseRequest, AnnounceRequest, BulkRequests, BulkRequest
<1>4. ExecutionInv' /\ ReportInv' /\ HandlerInv'
  BY <1>1, <1>2, <1>3, TableStepInv DEF HandlerInv
<1>5. ExclusiveInv'
  BY <1>1 DEF IInv, ExclusiveInv
<1> QED
  BY <1>4, <1>5

\* A handler that takes rows in hand: it resolves rows that were resolvable and
\* remembers them with the status it gave them, or leaves the table alone and
\* remembers nothing.
LEMMA TakeInv ==
    ASSUME IInv, TypeOK', NEW h \in Handlers, NEW r,
           handler' = [handler EXCEPT ![h] = r],
           TableStep, UNCHANGED <<now, calls, outcome, audit, told>>,
           \/ r.pc \in {"idle", "bulk"}
           \/ /\ r.pc = "approved"
              /\ r.status = "approved"
              /\ r.id \in ApprovalIds
              /\ Resolvable(r.id)
              /\ approvals'[r.id].status = "approved"
           \/ /\ r.pc = "audit"
              /\ r.status \in Resolutions
              /\ \A a \in r.todo : approvals'[a].status = r.status
    PROVE  ExecutionInv' /\ HandlerInv' /\ ExclusiveInv' /\ ReportInv'
<1>1. handler'[h] = r /\ \A i \in Handlers : i # h => handler'[i] = handler[i]
  BY DEF IInv, TypeOK
<1>2. ExecutionInv' /\ ReportInv' /\ \A i \in Handlers : i # h => HandlerOK(i)'
  BY <1>1, TableStepInv
<1>3. HandlerOK(h)'
  <2>1. CASE r.pc \in {"idle", "bulk"}
    BY <1>1, <2>1 DEF HandlerOK
  <2>2. CASE r.pc = "approved"
    <3>1. calls[r.id] = 0
      BY <2>2 DEF IInv, ExecutionInv, Resolvable
    <3> QED
      BY <1>1, <2>2, <3>1 DEF HandlerOK
  <2>3. CASE r.pc = "audit"
    BY <1>1, <2>3 DEF HandlerOK
  <2> QED
    BY <2>1, <2>2, <2>3
<1>4. ExclusiveInv'
  BY <1>1, PendingIsUnowned DEF IInv, ExclusiveInv
<1> QED
  BY <1>2, <1>3, <1>4 DEF HandlerInv

\* The first transaction of every decision, and the loop of a bulk decision.
LEMMA DecideInv ==
    ASSUME IInv, TypeOK', NEW h \in Handlers,
           \/ \E a \in ApprovalIds : Approve(h, a)
           \/ \E a \in ApprovalIds, status \in {"denied", "cancelled"} : Close(h, a, status)
           \/ DenyAll(h)
           \/ \E g \in Groups, ds \in DecisionLists : DecideBulkGroup(h, g, ds)
           \/ DecideItem(h)
           \/ DecideDone(h)
    PROVE  ExecutionInv' /\ HandlerInv' /\ ExclusiveInv' /\ ReportInv'
<1> DEFINE Goal == ExecutionInv' /\ HandlerInv' /\ ExclusiveInv' /\ ReportInv'
<1>t. TypeOK
  BY DEF IInv
<1>s. ASSUME UNCHANGED approvals PROVE TableStep
  BY <1>s DEF TableStep
<1>1. ASSUME NEW a \in ApprovalIds, Approve(h, a) PROVE Goal
  <2> DEFINE r == [Idle EXCEPT !.pc = "approved", !.id = a, !.status = "approved"]
  <2>1. r.pc = "approved" /\ r.status = "approved" /\ r.id = a
    BY DEF Idle
  <2>2. handler' = [handler EXCEPT ![h] = r] /\ Resolvable(a) /\ Resolve({a}, "approved")
    BY <1>1 DEF Approve
  <2>3. UNCHANGED <<now, calls, outcome, audit, told>>
    BY <1>1 DEF Approve
  <2> HIDE DEF r
  <2>4. TableStep /\ approvals'[a].status = "approved"
    BY <1>t, <2>2, ResolveTableStep
  <2> QED
    BY <2>1, <2>2, <2>3, <2>4, TakeInv
<1>2. ASSUME NEW a \in ApprovalIds, NEW status \in {"denied", "cancelled"}, Close(h, a, status)
      PROVE  Goal
  <2> DEFINE r == [Idle EXCEPT !.pc = "audit", !.status = status, !.todo = {a}]
  <2>1. r.pc = "audit" /\ r.status = status /\ r.todo = {a}
    BY DEF Idle
  <2>2. handler' = [handler EXCEPT ![h] = r] /\ Resolvable(a) /\ Resolve({a}, status)
    BY <1>2 DEF Close
  <2>3. UNCHANGED <<now, calls, outcome, audit, told>>
    BY <1>2 DEF Close
  <2> HIDE DEF r
  <2>4. TableStep /\ approvals'[a].status = status
    BY <1>t, <2>2, ResolveTableStep
  <2> QED
    BY <2>1, <2>2, <2>3, <2>4, TakeInv
<1>3. ASSUME DenyAll(h) PROVE Goal
  <2> DEFINE ids == {a \in ApprovalIds : Resolvable(a) /\ approvals[a].group = None}
             r == [Idle EXCEPT !.pc = "audit", !.status = "denied", !.todo = ids]
  <2>1. r.pc = "audit" /\ r.status = "denied" /\ r.todo = ids
    BY DEF Idle
  <2>2. handler' = [handler EXCEPT ![h] = r] /\ Resolve(ids, "denied")
    BY <1>3 DEF DenyAll
  <2>3. UNCHANGED <<now, calls, outcome, audit, told>>
    BY <1>3 DEF DenyAll
  <2>4. \A a \in ids : a \in ApprovalIds /\ Resolvable(a)
    OBVIOUS
  <2> HIDE DEF r, ids
  <2>5. TableStep /\ \A a \in ids : approvals'[a].status = "denied"
    BY <1>t, <2>2, <2>4, ResolveTableStep
  <2> QED
    BY <2>1, <2>2, <2>3, <2>5, TakeInv
<1>4. ASSUME NEW g \in Groups, NEW ds \in DecisionLists, DecideBulkGroup(h, g, ds) PROVE Goal
  <2> DEFINE r == [Idle EXCEPT !.pc = "bulk", !.bulk = TRUE, !.decisions = ds,
                        !.snapshot = {a \in GroupRows(g) : approvals[a].status = "pending"}]
  <2>1. r.pc = "bulk"
    BY DEF Idle
  <2>2. handler' = [handler EXCEPT ![h] = r] /\ UNCHANGED <<now, approvals, calls, outcome, audit, told>>
    BY <1>4 DEF DecideBulkGroup
  <2> HIDE DEF r
  <2> QED
    BY <1>s, <2>1, <2>2, TakeInv
<1>5. ASSUME DecideItem(h) PROVE Goal
  <2> DEFINE d == Head(handler[h].decisions)
             rest == [handler[h] EXCEPT !.decisions = Tail(@)]
  <2>1. d.id \in ApprovalIds
    <3>1. handler[h].decisions \in Seq(Decision) /\ handler[h].decisions # <<>>
      BY <1>5, <1>t DEF DecideItem, TypeOK, Handler
    <3>2. d \in Decision
      BY <3>1
    <3> QED
      BY <3>2 DEF Decision
  <2>2. handler[h].pc = "bulk" /\ UNCHANGED <<now, calls, outcome, audit, told>>
    BY <1>5 DEF DecideItem
  <2>3. \/ handler' = [handler EXCEPT ![h] = rest] /\ UNCHANGED approvals
        \/ /\ Resolvable(d.id)
           /\ Resolve({d.id}, "approved")
           /\ handler' = [handler EXCEPT ![h] =
                            [rest EXCEPT !.pc = "approved", !.id = d.id, !.status = "approved"]]
        \/ /\ Resolvable(d.id)
           /\ Resolve({d.id}, "denied")
           /\ handler' = [handler EXCEPT ![h] =
                            [rest EXCEPT !.pc = "audit", !.status = "denied", !.todo = {d.id}]]
    BY <1>5 DEF DecideItem
  <2>4. /\ rest.pc = "bulk"
        /\ [rest EXCEPT !.pc = "approved", !.id = d.id, !.status = "approved"].pc = "approved"
        /\ [rest EXCEPT !.pc = "approved", !.id = d.id, !.status = "approved"].id = d.id
        /\ [rest EXCEPT !.pc = "approved", !.id = d.id, !.status = "approved"].status = "approved"
        /\ [rest EXCEPT !.pc = "audit", !.status = "denied", !.todo = {d.id}].pc = "audit"
        /\ [rest EXCEPT !.pc = "audit", !.status = "denied", !.todo = {d.id}].status = "denied"
        /\ [rest EXCEPT !.pc = "audit", !.status = "denied", !.todo = {d.id}].todo = {d.id}
    BY <1>t, <2>2 DEF TypeOK, Handler
  <2> HIDE DEF d, rest
  <2>5. CASE handler' = [handler EXCEPT ![h] = rest] /\ UNCHANGED approvals
    BY <1>s, <2>2, <2>4, <2>5, TakeInv
  <2>6. CASE /\ Resolvable(d.id)
             /\ Resolve({d.id}, "approved")
             /\ handler' = [handler EXCEPT ![h] =
                            [rest EXCEPT !.pc = "approved", !.id = d.id, !.status = "approved"]]
    <3>1. TableStep /\ approvals'[d.id].status = "approved"
      BY <1>t, <2>1, <2>6, ResolveTableStep
    <3> QED
      BY <2>1, <2>2, <2>4, <2>6, <3>1, TakeInv
  <2>7. CASE /\ Resolvable(d.id)
             /\ Resolve({d.id}, "denied")
             /\ handler' = [handler EXCEPT ![h] =
                            [rest EXCEPT !.pc = "audit", !.status = "denied", !.todo = {d.id}]]
    <3>1. TableStep /\ approvals'[d.id].status = "denied"
      BY <1>t, <2>1, <2>7, ResolveTableStep
    <3> QED
      BY <2>1, <2>2, <2>4, <2>7, <3>1, TakeInv
  <2> QED
    BY <2>3, <2>5, <2>6, <2>7
<1>6. ASSUME DecideDone(h) PROVE Goal
  <2>1. Idle.pc = "idle"
    BY DEF Idle
  <2>2. handler' = [handler EXCEPT ![h] = Idle] /\ UNCHANGED <<now, approvals, calls, outcome, audit, told>>
    BY <1>6 DEF DecideDone
  <2> QED
    BY <1>s, <2>1, <2>2, TakeInv
<1> QED
  BY <1>1, <1>2, <1>3, <1>4, <1>5, <1>6

\* The confirmation code: the handler keeps its approval, or forgets it.
LEMMA ConfirmInv ==
    ASSUME IInv, NEW h \in Handlers, ConfirmationCode(h)
    PROVE  ExecutionInv' /\ HandlerInv' /\ ExclusiveInv' /\ ReportInv'
<1>1. UNCHANGED <<now, approvals, calls, outcome, audit, told>>
  BY DEF ConfirmationCode
<1>2. TableStep
  BY <1>1 DEF TableStep
<1>3. handler[h].pc = "approved" /\ handler[h] \in Handler /\ HandlerOK(h)
  BY DEF ConfirmationCode, IInv, TypeOK, HandlerInv
<1>4. /\ \A i \in Handlers : i # h => handler'[i] = handler[i]
      /\ \/ handler'[h] = Idle
         \/ handler'[h] = [handler[h] EXCEPT !.pc = "execute"]
  BY DEF ConfirmationCode, IInv, TypeOK
<1>e. ASSUME NEW r \in Handler, NEW p
      PROVE  /\ [r EXCEPT !.pc = p].pc = p
             /\ [r EXCEPT !.pc = p].id = r.id
             /\ [r EXCEPT !.pc = p].status = r.status
  BY DEF Handler
<1>5. \/ handler'[h].pc = "idle"
      \/ /\ handler'[h].pc = "execute"
         /\ handler'[h].id = handler[h].id
         /\ handler'[h].status = handler[h].status
  <2>1. Idle.pc = "idle"
    BY DEF Idle
  <2>2. /\ [handler[h] EXCEPT !.pc = "execute"].pc = "execute"
        /\ [handler[h] EXCEPT !.pc = "execute"].id = handler[h].id
        /\ [handler[h] EXCEPT !.pc = "execute"].status = handler[h].status
    BY <1>3, <1>e
  <2> QED
    BY <1>4, <2>1, <2>2
<1>6. ExecutionInv' /\ ReportInv' /\ \A i \in Handlers : i # h => HandlerOK(i)'
  BY <1>1, <1>2, <1>4, TableStepInv
<1>7. HandlerOK(h)'
  BY <1>1, <1>3, <1>5 DEF HandlerOK
<1>8. ExclusiveInv'
  BY <1>3, <1>4, <1>5 DEF IInv, ExclusiveInv
<1> QED
  BY <1>6, <1>7, <1>8 DEF HandlerInv

\* The connector call: ExclusiveInv keeps the other handlers away from the
\* approval, so it is the first call and nobody else is about to make one.
LEMMA ExecuteInv ==
    ASSUME IInv, NEW h \in Handlers, NEW result \in ExecResults, ExecuteAction(h, result)
    PROVE  ExecutionInv' /\ HandlerInv' /\ ExclusiveInv' /\ ReportInv'
<1> DEFINE a == handler[h].id
<1>1. UNCHANGED <<now, approvals, audit, told>>
  BY DEF ExecuteAction
<1>2. /\ handler[h].pc = "execute"
      /\ handler[h] \in Handler
      /\ a \in ApprovalIds
      /\ handler[h].status = "approved"
      /\ approvals[a].status = "approved"
      /\ calls[a] = 0
  BY DEF ExecuteAction, IInv, TypeOK, HandlerInv, HandlerOK
<1>3. /\ \A b \in ApprovalIds : b # a => calls'[b] = calls[b] /\ outcome'[b] = outcome[b]
      /\ calls'[a] = 1
      /\ outcome'[a] = result
  BY <1>2 DEF ExecuteAction, IInv, TypeOK
<1>4. /\ \A i \in Handlers : i # h => handler'[i] = handler[i]
      /\ handler'[h] = [handler[h] EXCEPT !.pc = "persist", !.result = result]
  BY DEF ExecuteAction, IInv, TypeOK
<1>5. /\ handler'[h].pc = "persist"
      /\ handler'[h].id = a
      /\ handler'[h].status = "approved"
      /\ handler'[h].result = result
  BY <1>2, <1>4 DEF Handler
<1> HIDE DEF a
<1>6. ExecutionInv'
  BY <1>1, <1>2, <1>3 DEF IInv, ExecutionInv
<1>7. ASSUME NEW i \in Handlers PROVE HandlerOK(i)'
  <2>1. CASE i = h
    BY <1>1, <1>2, <1>3, <1>5, <2>1 DEF HandlerOK
  <2>2. CASE i # h
    <3>1. HandlerOK(i)
      BY DEF IInv, HandlerInv
    <3>2. handler[i].pc \in {"approved", "execute", "persist"} => handler[i].id # a
      BY <1>2, <2>2, <3>1 DEF a, IInv, ExclusiveInv, HandlerOK
    <3> QED
      BY <1>1, <1>3, <1>4, <2>2, <3>1, <3>2 DEF HandlerOK
  <2> QED
    BY <2>1, <2>2
<1>8. ExclusiveInv'
  BY <1>4, <1>5 DEF IInv, ExclusiveInv
<1>9. ReportInv'
  BY <1>1 DEF IInv, ReportInv
<1> QED
  BY <1>6, <1>7, <1>8, <1>9 DEF HandlerInv

\* Storing the result: it is the outcome of the call the handler made.
LEMMA PersistInv ==
    ASSUME IInv, NEW h \in Handlers, PersistResult(h)
    PROVE  ExecutionInv' /\ HandlerInv' /\ ExclusiveInv' /\ ReportInv'
<1> DEFINE a == handler[h].id
<1>1. UNCHANGED <<now, calls, outcome, audit, told>>
  BY DEF PersistResult
<1>2. /\ handler[h] \in Handler
      /\ a \in ApprovalIds
      /\ handler[h].status = "approved"
      /\ approvals[a].status = "approved"
      /\ calls[a] = 1
      /\ handler[h].result = outcome[a]
  BY DEF PersistResult, IInv, TypeOK, HandlerInv, HandlerOK
<1>3. /\ \A b \in ApprovalIds : b # a => approvals'[b] = approvals[b]
      /\ \/ approvals'[a] = approvals[a]
         \/ approvals'[a] = [approvals[a] EXCEPT !.exec = handler[h].result]
  BY <1>2 DEF PersistResult, IInv, TypeOK
<1>4. /\ approvals[a] \in Row
      /\ approvals'[a].status = "approved"
      /\ approvals'[a].expires = approvals[a].expires
      /\ approvals'[a].exec \in {approvals[a].exec, outcome[a]}
  BY <1>2, <1>3 DEF IInv, TypeOK, Row
<1>5. /\ \A i \in Handlers : i # h => handler'[i] = handler[i]
      /\ handler'[h] = [handler[h] EXCEPT !.pc = "audit", !.todo = {a}]
  BY DEF PersistResult, IInv, TypeOK
<1>6. /\ handler'[h].pc = "audit"
      /\ handler'[h].status = "approved"
      /\ handler'[h].todo = {a}
  BY <1>2, <1>5 DEF Handler
<1>7. \A b \in ApprovalIds : approvals'[b].status = approvals[b].status
                              /\ approvals'[b].expires = approvals[b].expires
  BY <1>2, <1>3, <1>4
<1> HIDE DEF a
<1>8. ExecutionInv'
  BY <1>1, <1>2, <1>3, <1>4 DEF IInv, ExecutionInv
<1>9. ASSUME NEW i \in Handlers PROVE HandlerOK(i)'
  <2>1. CASE i = h
    BY <1>4, <1>6, <2>1 DEF HandlerOK
  <2>2. CASE i # h
    <3>1. HandlerOK(i) /\ handler[i].todo \in SUBSET ApprovalIds
      BY DEF IInv, HandlerInv, TypeOK, Handler
    <3> QED
      BY <1>1, <1>5, <1>7, <2>2, <3>1 DEF HandlerOK
  <2> QED
    BY <2>1, <2>2
<1>10. ExclusiveInv'
  BY <1>5, <1>6 DEF IInv, ExclusiveInv
<1>11. ReportInv'
  BY <1>1, <1>7 DEF IInv, ReportInv
<1> QED
  BY <1>8, <1>9, <1>10, <1>11 DEF HandlerInv

\* The audit event carries the status of the row.
LEMMA AuditInv ==
    ASSUME IInv, NEW h \in Handlers, NEW a \in ApprovalIds, EmitAudit(h, a)
    PROVE  ExecutionInv' /\ HandlerInv' /\ ExclusiveInv' /\ ReportInv'
<1>1. UNCHANGED <<now, approvals, calls, outcome, told>>
  BY DEF EmitAudit
<1>2. /\ handler[h] \in Handler
      /\ handler[h].status \in Resolutions
      /\ \A b \in handler[h].todo : approvals[b].status = handler[h].status
      /\ a \in handler[h].todo
      /\ audit' \subseteq audit \cup {<<a, handler[h].status>>}
  BY DEF EmitAudit, IInv, TypeOK, HandlerInv, HandlerOK
<1>3. /\ \A i \in Handlers : i # h => handler'[i] = handler[i]
      /\ handler'[h] = [handler[h] EXCEPT !.pc = "notify", !.id = a, !.todo = @ \ {a}]
  BY DEF EmitAudit, IInv, TypeOK
<1>4. /\ handler'[h].pc = "notify"
      /\ handler'[h].id = a
      /\ handler'[h].status = handler[h].status
      /\ handler'[h].todo = handler[h].todo \ {a}
  BY <1>2, <1>3 DEF Handler
<1>5. ExecutionInv'
  BY <1>1 DEF IInv, ExecutionInv
<1>6. ASSUME NEW i \in Handlers PROVE HandlerOK(i)'
  <2>1. CASE i = h
    BY <1>1, <1>2, <1>4, <2>1 DEF HandlerOK
  <2>2. CASE i # h
    BY <1>1, <1>3, <2>2 DEF IInv, HandlerInv, HandlerOK
  <2> QED
    BY <2>1, <2>2
<1>7. ExclusiveInv'
  BY <1>3, <1>4 DEF IInv, ExclusiveInv
<1>8. ReportInv'
  <2>1. ASSUME NEW b \in ApprovalIds, NEW s \in Resolutions, <<b, s>> \in audit'
        PROVE  approvals[b].status = s
    BY <1>2, <2>1 DEF IInv, ReportInv
  <2> QED
    BY <1>1, <2>1 DEF IInv, ReportInv
<1> QED
  BY <1>5, <1>6, <1>7, <1>8 DEF HandlerInv

\* The wake carries the status of the row.
LEMMA NotifyInv ==
    ASSUME IInv, NEW h \in Handlers, Notify(h)
    PROVE  ExecutionInv' /\ HandlerInv' /\ ExclusiveInv' /\ ReportInv'
<1>1. UNCHANGED <<now, approvals, calls, outcome, audit>>
  BY DEF Notify
<1>2. /\ handler[h] \in Handler
      /\ handler[h].status \in Resolutions
      /\ \A b \in handler[h].todo : approvals[b].status = handler[h].status
      /\ handler[h].id \in ApprovalIds
      /\ approvals[handler[h].id].status = handler[h].status
      /\ told' = told \cup {<<handler[h].id, handler[h].status>>}
  BY DEF Notify, IInv, TypeOK, HandlerInv, HandlerOK
<1>3. /\ \A i \in Handlers : i # h => handler'[i] = handler[i]
      /\ \/ handler'[h] = [handler[h] EXCEPT !.pc = "audit", !.id = None]
         \/ handler'[h] = [handler[h] EXCEPT !.pc = "bulk", !.id = None, !.status = "null", !.result = "null"]
         \/ handler'[h] = Idle
  BY DEF Notify, IInv, TypeOK
<1>4. \/ /\ handler'[h].pc = "audit"
         /\ handler'[h].status = handler[h].status
         /\ handler'[h].todo = handler[h].todo
      \/ handler'[h].pc \in {"bulk", "idle"}
  <2>1. Idle.pc = "idle"
    BY DEF Idle
  <2>2. ASSUME NEW r \in Handler
        PROVE  /\ [r EXCEPT !.pc = "audit", !.id = None].pc = "audit"
               /\ [r EXCEPT !.pc = "audit", !.id = None].status = r.status
               /\ [r EXCEPT !.pc = "audit", !.id = None].todo = r.todo
               /\ [r EXCEPT !.pc = "bulk", !.id = None, !.status = "null", !.result = "null"].pc = "bulk"
    BY DEF Handler
  <2> QED
    BY <1>2, <1>3, <2>1, <2>2
<1>5. ExecutionInv'
  BY <1>1 DEF IInv, ExecutionInv
<1>6. ASSUME NEW i \in Handlers PROVE HandlerOK(i)'
  BY <1>1, <1>2, <1>3, <1>4 DEF IInv, HandlerInv, HandlerOK
<1>7. ExclusiveInv'
  BY <1>3, <1>4 DEF IInv, ExclusiveInv
<1>8. ReportInv'
  <2>1. ASSUME NEW b \in ApprovalIds, NEW s \in Resolutions, <<b, s>> \in told'
        PROVE  approvals[b].status = s
    BY <1>2, <2>1 DEF IInv, ReportInv
  <2>2. ASSUME NEW b \in ApprovalIds, <<b, "expired">> \in told'
        PROVE  <<b, "expired">> \in told
    BY <1>2, <2>2
  <2> QED
    BY <1>1, <2>1, <2>2 DEF IInv, ReportInv
<1> QED
  BY <1>5, <1>6, <1>7, <1>8 DEF HandlerInv

\* A poll shows the row's status, or "expired" for a pending row that no UPDATE
\* can resolve any more.
LEMMA PollInv ==
    ASSUME IInv, NEW a \in ApprovalIds, PollStatus(a)
    PROVE  ExecutionInv' /\ HandlerInv' /\ ExclusiveInv' /\ ReportInv'
<1>1. UNCHANGED <<now, approvals, handler, calls, outcome, audit>>
  BY DEF PollStatus
<1>2. ExecutionInv' /\ HandlerInv' /\ ExclusiveInv'
  BY <1>1 DEF IInv, ExecutionInv, HandlerInv, HandlerOK, ExclusiveInv
<1>3. told' = told \cup {<<a, ResolvedStatus(a)>>}
  BY DEF PollStatus
<1>4. approvals[a].expires \in Nat /\ now \in Nat
  BY DEF IInv, TypeOK, Row
<1>5. ResolvedStatus(a) = "expired" =>
        approvals[a].status = "pending" /\ SQLExpired(approvals[a].expires, now)
  BY <1>4, GoExpiredImpliesSQLExpired DEF ResolvedStatus, IInv, TypeOK, Row
<1>6. \A s \in Resolutions : ResolvedStatus(a) = s => approvals[a].status = s
  BY DEF ResolvedStatus
<1>7. ReportInv'
  BY <1>1, <1>3, <1>5, <1>6 DEF IInv, ReportInv
<1> QED
  BY <1>2, <1>7

\* Time only makes more approvals expire.
LEMMA TickInv ==
    ASSUME IInv, Tick
    PROVE  ExecutionInv' /\ HandlerInv' /\ ExclusiveInv' /\ ReportInv'
<1>1. UNCHANGED <<approvals, handler, calls, outcome, audit, told>> /\ now' = now + 1
  BY DEF Tick
<1>2. ExecutionInv' /\ HandlerInv' /\ ExclusiveInv'
  BY <1>1 DEF IInv, ExecutionInv, HandlerInv, HandlerOK, ExclusiveInv
<1>3. now \in Nat /\ now' \in Nat /\ now <= now'
  BY <1>1 DEF IInv, TypeOK
<1>4. ASSUME NEW a \in ApprovalIds, SQLExpired(approvals[a].expires, now)
      PROVE  SQLExpired(approvals[a].expires, now')
  <2>1. approvals[a].expires \in Nat
    BY DEF IInv, TypeOK, Row
  <2> QED
    BY <1>3, <1>4, <2>1, SQLExpiredStays
<1>5. ReportInv'
  BY <1>1, <1>4 DEF IInv, ReportInv
<1> QED
  BY <1>2, <1>5

\* A crash forgets what handlers held, never what is stored.
LEMMA CrashInv ==
    ASSUME IInv, Crash
    PROVE  ExecutionInv' /\ HandlerInv' /\ ExclusiveInv' /\ ReportInv'
<1>1. UNCHANGED <<now, approvals, calls, outcome, audit, told>>
  BY DEF Crash
<1>2. \A h \in Handlers : handler'[h].pc = "idle"
  BY DEF Crash, Idle
<1> QED
  BY <1>1, <1>2 DEF IInv, ExecutionInv, HandlerInv, HandlerOK, ExclusiveInv, ReportInv

\* Every step of the system keeps the invariant.
LEMMA NextInv == IInv /\ [Next]_vars => IInv'
<1> SUFFICES ASSUME IInv, [Next]_vars PROVE IInv'
  OBVIOUS
<1>1. TypeOK'
  BY NextType DEF IInv
<1>2. ASSUME UNCHANGED vars
      PROVE  ExecutionInv' /\ HandlerInv' /\ ExclusiveInv' /\ ReportInv'
  BY <1>2 DEF vars, IInv, ExecutionInv, HandlerInv, HandlerOK, ExclusiveInv, ReportInv
<1>3. ExecutionInv' /\ HandlerInv' /\ ExclusiveInv' /\ ReportInv'
  BY <1>1, <1>2, RequestInv, DecideInv, ConfirmInv, ExecuteInv, PersistInv, AuditInv,
     NotifyInv, PollInv, TickInv, CrashInv
     DEF Next, DenyApproval, CancelApproval, HandlerStep
<1> QED
  BY <1>1, <1>3 DEF IInv

\* The invariant holds in every reachable state.
LEMMA Invariance == Spec => []IInv
BY InitInv, NextInv, PTL DEF Spec

-----------------------------------------------------------------------------
(* The theorems *)

\* Every table and every goroutine keeps its type.
THEOREM TypeCorrect == Spec => []TypeOK
<1>1. IInv => TypeOK
  BY DEF IInv
<1> QED
  BY <1>1, Invariance, PTL

\* However handlers race, crash and retry, an approval reaches its connector at
\* most once (executeApprovalAction).
THEOREM AtMostOnce == Spec => []ExecutesAtMostOnce
<1>1. IInv => ExecutesAtMostOnce
  BY DEF IInv, ExecutionInv, ExecutesAtMostOnce
<1> QED
  BY <1>1, Invariance, PTL

\* No connector was called for an approval that is not approved.
THEOREM OnlyApproved == Spec => []OnlyApprovedExecutes
<1>1. IInv => OnlyApprovedExecutes
  BY DEF IInv, TypeOK, ExecutionInv, OnlyApprovedExecutes
<1> QED
  BY <1>1, Invariance, PTL

\* A stored execution result is that of the one call (UpdateApprovalExecution).
THEOREM RecordedReal == Spec => []RecordedResultIsReal
<1>1. IInv => RecordedResultIsReal
  BY DEF IInv, ExecutionInv, RecordedResultIsReal
<1> QED
  BY <1>1, Invariance, PTL

\* The agent never learns two terminal statuses of one approval, whatever the
\* resolution of the stored timestamps.
THEOREM OneTerminalStatus == Spec => []ToldOneTerminalStatus
<1>1. IInv => ToldOneTerminalStatus
  BY DEF IInv, ReportInv, ToldOneTerminalStatus
<1> QED
  BY <1>1, Invariance, PTL

\* The audit trail never contradicts the approvals table.
THEOREM AuditAgrees == Spec => []AuditAgreesWithRow
<1>1. IInv => AuditAgreesWithRow
  BY DEF IInv, ReportInv, AuditAgreesWithRow
<1> QED
  BY <1>1, Invariance, PTL

-----------------------------------------------------------------------------
(* What each kind of step does to a row *)

USE DEF Resolutions, ExecResults

\* The columns a request fills and nothing changes later.
SameRequest(a) ==
    /\ approvals'[a].request = approvals[a].request
    /\ approvals'[a].fingerprint = approvals[a].fingerprint
    /\ approvals'[a].checked = approvals[a].checked
    /\ approvals'[a].group = approvals[a].group
    /\ approvals'[a].expires = approvals[a].expires

\* The rows ids, absent before, are filled with one expiry.
Fills(ids, exp) ==
    /\ \A a \in ids : /\ approvals[a].status = "absent"
                      /\ approvals'[a].status = "pending"
                      /\ approvals'[a].expires = exp
    /\ \A a \in ApprovalIds \ ids : approvals'[a] = approvals[a]

\* The rows ids, resolvable before, get a decision.
Resolves(ids, status) ==
    /\ \A a \in ids : /\ Resolvable(a)
                      /\ approvals'[a].status = status
                      /\ approvals'[a].resolved = now
                      /\ SameRequest(a)
    /\ \A a \in ApprovalIds \ ids : approvals'[a] = approvals[a]

\* A row that has its result, or has none to get yet, keeps what it has.
OnlyResults ==
    \A a \in ApprovalIds :
        /\ approvals'[a].status = approvals[a].status
        /\ SameRequest(a)
        /\ approvals'[a].resolved = approvals[a].resolved
        /\ approvals[a].exec # "null" => approvals'[a].exec = approvals[a].exec

\* What the agent's requests do to the table.
LEMMA RequestStep ==
    ASSUME IInv, NEW q \in Requesters,
           \/ \E req \in RequestIds, fp \in Fingerprints, ttl \in TTLs : CheckRequest(q, req, fp, ttl)
           \/ \E a \in ApprovalIds : InsertApproval(q, a)
           \/ RefuseRequest(q)
           \/ AnnounceRequest(q)
           \/ BulkRequests(q)
    PROVE  /\ UNCHANGED <<now, calls, told>>
           /\ \/ UNCHANGED approvals
              \/ \E ids \in SUBSET ApprovalIds, exp \in Nat : Fills(ids, exp)
<1>1. UNCHANGED <<now, calls, told>>
  BY DEF CheckRequest, InsertApproval, RefuseRequest, AnnounceRequest, BulkRequests, BulkRequest
<1>2. ASSUME NEW a \in ApprovalIds, InsertApproval(q, a)
      PROVE  \E ids \in SUBSET ApprovalIds, exp \in Nat : Fills(ids, exp)
  <2>1. draft[q] \in CheckedDraft
    BY <1>2 DEF InsertApproval, IInv, TypeOK, InsertedDraft
  <2>2. draft[q].expires \in Nat
    BY <2>1 DEF CheckedDraft
  <2>3. Fills({a}, draft[q].expires)
    BY <1>2, NewRowFields DEF InsertApproval, Fills, IInv, TypeOK
  <2> QED
    BY <2>2, <2>3
<1>3. ASSUME NEW g \in Groups, NEW ids \in SUBSET ApprovalIds, NEW ttl \in TTLs,
             NEW request \in [ids -> RequestIds], NEW fingerprint \in [ids -> Fingerprints],
             BulkRequest(q, g, request, fingerprint, ttl)
      PROVE  \E i \in SUBSET ApprovalIds, exp \in Nat : Fills(i, exp)
  <2>1. now + ttl \in Nat
    BY TTLAssumption DEF IInv, TypeOK
  <2>2. Fills(ids, now + ttl)
    BY <1>3, NewRowFields DEF BulkRequest, Fills
  <2> QED
    BY <2>1, <2>2
<1> QED
  BY <1>1, <1>2, <1>3 DEF CheckRequest, RefuseRequest, AnnounceRequest, BulkRequests

\* Resolving resolvable rows, seen from the table.
LEMMA ResolveStep ==
    ASSUME TypeOK, NEW ids, NEW status \in Resolutions, Resolve(ids, status),
           \A a \in ids : a \in ApprovalIds /\ Resolvable(a)
    PROVE  Resolves(ids, status)
<1>1. \A a \in ids : approvals'[a].status = status
  BY ResolveTableStep
<1>2. \A a \in ApprovalIds \ ids : approvals'[a] = approvals[a]
  BY DEF Resolve
<1>3. ASSUME NEW a \in ids PROVE approvals'[a].resolved = now /\ SameRequest(a)
  <2>1. approvals[a] \in Row /\ a \in ApprovalIds
    BY DEF TypeOK
  <2>2. approvals'[a] = [approvals[a] EXCEPT !.status = status, !.resolved = now]
    BY <2>1 DEF Resolve
  <2> QED
    BY <2>1, <2>2 DEF Row, SameRequest
<1> QED
  BY <1>1, <1>2, <1>3 DEF Resolves

\* What decisions do to the table.
LEMMA DecideStep ==
    ASSUME IInv, NEW h \in Handlers,
           \/ \E a \in ApprovalIds : Approve(h, a)
           \/ \E a \in ApprovalIds, status \in {"denied", "cancelled"} : Close(h, a, status)
           \/ DenyAll(h)
           \/ \E g \in Groups, ds \in DecisionLists : DecideBulkGroup(h, g, ds)
           \/ DecideItem(h)
           \/ DecideDone(h)
    PROVE  /\ UNCHANGED <<now, calls, told>>
           /\ \/ UNCHANGED approvals
              \/ \E ids \in SUBSET ApprovalIds, s \in Resolutions : Resolves(ids, s)
<1> DEFINE Goal == \/ UNCHANGED approvals
                   \/ \E ids \in SUBSET ApprovalIds, s \in Resolutions : Resolves(ids, s)
<1>t. TypeOK
  BY DEF IInv
<1>1. UNCHANGED <<now, calls, told>>
  BY DEF Approve, Close, DenyAll, DecideBulkGroup, DecideItem, DecideDone
<1>2. ASSUME NEW a \in ApprovalIds, Approve(h, a) PROVE Goal
  <2>1. Resolvable(a) /\ Resolve({a}, "approved")
    BY <1>2 DEF Approve
  <2>2. Resolves({a}, "approved")
    BY <1>t, <2>1, ResolveStep
  <2> QED
    BY <2>2
<1>3. ASSUME NEW a \in ApprovalIds, NEW status \in {"denied", "cancelled"}, Close(h, a, status)
      PROVE  Goal
  <2>1. Resolvable(a) /\ Resolve({a}, status)
    BY <1>3 DEF Close
  <2>2. Resolves({a}, status)
    BY <1>t, <2>1, ResolveStep
  <2> QED
    BY <2>2
<1>4. ASSUME DenyAll(h) PROVE Goal
  <2> DEFINE ids == {a \in ApprovalIds : Resolvable(a) /\ approvals[a].group = None}
  <2>1. Resolve(ids, "denied") /\ ids \in SUBSET ApprovalIds /\ \A a \in ids : Resolvable(a)
    BY <1>4 DEF DenyAll
  <2> HIDE DEF ids
  <2>2. Resolves(ids, "denied")
    BY <1>t, <2>1, ResolveStep
  <2> QED
    BY <2>1, <2>2
<1>5. ASSUME DecideItem(h) PROVE Goal
  <2> DEFINE d == Head(handler[h].decisions)
  <2>1. handler[h].decisions \in Seq(Decision) /\ handler[h].decisions # <<>>
    BY <1>5, <1>t DEF DecideItem, TypeOK, Handler
  <2>2. d \in Decision
    BY <2>1
  <2>3. d.id \in ApprovalIds
    BY <2>2 DEF Decision
  <2>4. \/ UNCHANGED approvals
        \/ Resolvable(d.id) /\ Resolve({d.id}, "approved")
        \/ Resolvable(d.id) /\ Resolve({d.id}, "denied")
    BY <1>5 DEF DecideItem
  <2> HIDE DEF d
  <2>5. ASSUME NEW s \in {"approved", "denied"}, Resolvable(d.id), Resolve({d.id}, s)
        PROVE  Resolves({d.id}, s)
    BY <1>t, <2>3, <2>5, ResolveStep
  <2> QED
    BY <2>3, <2>4, <2>5
<1> QED
  BY <1>1, <1>2, <1>3, <1>4, <1>5 DEF DecideBulkGroup, DecideDone

\* What storing a result does to the table.
LEMMA PersistStep ==
    ASSUME IInv, NEW h \in Handlers, PersistResult(h)
    PROVE  OnlyResults /\ UNCHANGED <<now, calls, told>>
<1> DEFINE a == handler[h].id
<1>1. a \in ApprovalIds
  BY DEF PersistResult, IInv, HandlerInv, HandlerOK
<1>2. \/ UNCHANGED approvals
      \/ /\ approvals[a].exec = "null"
         /\ approvals' = [approvals EXCEPT ![a] = [approvals[a] EXCEPT !.exec = handler[h].result]]
  BY DEF PersistResult
<1>3. UNCHANGED <<now, calls, told>>
  BY DEF PersistResult
<1> HIDE DEF a
<1>4. OnlyResults
  BY <1>1, <1>2 DEF OnlyResults, SameRequest, IInv, TypeOK, Row
<1> QED
  BY <1>3, <1>4

-----------------------------------------------------------------------------
(* Finality *)

\* A step keeps every decision, its time, and every stored result.
LEMMA FinalStep ==
    ASSUME IInv, [Next]_vars, NEW a \in ApprovalIds
    PROVE  /\ approvals[a].status \in Resolutions =>
                /\ approvals'[a].status = approvals[a].status
                /\ approvals'[a].resolved = approvals[a].resolved
           /\ approvals[a].exec # "null" => approvals'[a].exec = approvals[a].exec
<1> DEFINE Goal == /\ approvals[a].status \in Resolutions =>
                        /\ approvals'[a].status = approvals[a].status
                        /\ approvals'[a].resolved = approvals[a].resolved
                   /\ approvals[a].exec # "null" => approvals'[a].exec = approvals[a].exec
<1>1. approvals[a].exec # "null" => approvals[a].status = "approved"
  BY DEF IInv, ExecutionInv
<1>2. CASE UNCHANGED approvals
  BY <1>2
<1>3. ASSUME NEW ids \in SUBSET ApprovalIds, NEW exp \in Nat, Fills(ids, exp) PROVE Goal
  BY <1>1, <1>3 DEF Fills
<1>4. ASSUME NEW ids \in SUBSET ApprovalIds, NEW s \in Resolutions, Resolves(ids, s) PROVE Goal
  BY <1>1, <1>4 DEF Resolves, Resolvable
<1>5. CASE OnlyResults
  BY <1>5 DEF OnlyResults
<1>6. \/ UNCHANGED approvals
      \/ \E ids \in SUBSET ApprovalIds, exp \in Nat : Fills(ids, exp)
      \/ \E ids \in SUBSET ApprovalIds, s \in Resolutions : Resolves(ids, s)
      \/ OnlyResults
  BY RequestStep, DecideStep, PersistStep
     DEF Next, DenyApproval, CancelApproval, HandlerStep, ConfirmationCode, ExecuteAction, EmitAudit, Notify, PollStatus, Tick, Crash, vars
<1> QED
  BY <1>2, <1>3, <1>4, <1>5, <1>6

\* A decision, the time it was taken and a stored result never change again,
\* whichever handlers race, retry or crash.
THEOREM Finality == Spec => ResolutionIsFinal
<1>1. IInv /\ [Next]_vars =>
        [\A a \in ApprovalIds :
            /\ approvals[a].status \in Resolutions =>
                  /\ approvals'[a].status = approvals[a].status
                  /\ approvals'[a].resolved = approvals[a].resolved
            /\ approvals[a].exec # "null" => approvals'[a].exec = approvals[a].exec]_vars
  BY FinalStep
<1> QED
  BY <1>1, Invariance, PTL DEF Spec, ResolutionIsFinal

-----------------------------------------------------------------------------
(* Requests: what a row keeps of the request it was made for *)

\* A row that no request fills in this step: it keeps its request columns, it
\* is not re-opened, and a denial in it is old or of this instant.
RowKept(a) ==
    /\ SameRequest(a)
    /\ approvals'[a].status = "absent" <=> approvals[a].status = "absent"
    /\ approvals'[a].status = "pending" => approvals[a].status = "pending"
    /\ approvals'[a].status = "denied" =>
          \/ approvals[a].status = "denied" /\ approvals'[a].resolved = approvals[a].resolved
          \/ approvals'[a].resolved = now

\* A step that fills no row: drafts are kept or dropped.
QuietStep ==
    /\ \A a \in ApprovalIds : RowKept(a)
    /\ requestIds' = requestIds
    /\ \A q \in Requesters : draft'[q] # None => draft'[q] = draft[q]

\* A new row has the columns it was given.
LEMMA NewRowColumns ==
    ASSUME NEW req, NEW fp, NEW exp, NEW chk, NEW g
    PROVE  /\ NewRow(req, fp, exp, chk, g).status = "pending"
           /\ NewRow(req, fp, exp, chk, g).request = req
           /\ NewRow(req, fp, exp, chk, g).fingerprint = fp
           /\ NewRow(req, fp, exp, chk, g).checked = chk
           /\ NewRow(req, fp, exp, chk, g).group = g
BY DEF NewRow, NoRow

\* Every step is quiet, or checks, inserts or bulk-inserts a request.
LEMMA StepKinds ==
    ASSUME IInv, [Next]_vars
    PROVE  \/ QuietStep
           \/ \E q \in Requesters, req \in RequestIds, fp \in Fingerprints, ttl \in TTLs :
                CheckRequest(q, req, fp, ttl)
           \/ \E q \in Requesters, a \in ApprovalIds : InsertApproval(q, a)
           \/ \E q \in Requesters : BulkRequests(q)
<1>1. ASSUME \/ UNCHANGED approvals
             \/ \E ids \in SUBSET ApprovalIds, s \in Resolutions : Resolves(ids, s)
             \/ OnlyResults
      PROVE  \A a \in ApprovalIds : RowKept(a)
  <2>1. CASE UNCHANGED approvals
    BY <2>1 DEF RowKept, SameRequest
  <2>2. ASSUME NEW ids \in SUBSET ApprovalIds, NEW s \in Resolutions, Resolves(ids, s)
        PROVE  \A a \in ApprovalIds : RowKept(a)
    <3>1. ASSUME NEW a \in ids PROVE RowKept(a)
      BY <2>2 DEF Resolves, Resolvable, RowKept
    <3>2. ASSUME NEW a \in ApprovalIds \ ids PROVE RowKept(a)
      BY <2>2 DEF Resolves, RowKept, SameRequest
    <3> QED
      BY <3>1, <3>2
  <2>3. CASE OnlyResults
    BY <2>3 DEF OnlyResults, RowKept
  <2> QED
    BY <1>1, <2>1, <2>2, <2>3
<1>2. draft \in [Requesters -> CheckedDraft \cup InsertedDraft \cup {None}]
  BY DEF IInv, TypeOK
<1>3. ASSUME NEW q \in Requesters, RefuseRequest(q) \/ AnnounceRequest(q)
      PROVE  QuietStep
  <2>1. UNCHANGED <<approvals, requestIds>> /\ draft' = [draft EXCEPT ![q] = None]
    BY <1>3 DEF RefuseRequest, AnnounceRequest
  <2> QED
    BY <1>1, <1>2, <2>1 DEF QuietStep
<1>4. CASE Crash
  <2>1. UNCHANGED <<approvals, requestIds>> /\ draft' = [q \in Requesters |-> None]
    BY <1>4 DEF Crash
  <2> QED
    BY <1>1, <2>1 DEF QuietStep
<1>5. ASSUME UNCHANGED <<requestIds, draft>>,
             \/ UNCHANGED approvals
             \/ \E ids \in SUBSET ApprovalIds, s \in Resolutions : Resolves(ids, s)
             \/ OnlyResults
      PROVE  QuietStep
  BY <1>1, <1>5 DEF QuietStep
<1>6. ASSUME NEW h \in Handlers, HandlerStep(h) PROVE QuietStep
  <2>1. UNCHANGED <<requestIds, draft>>
    BY <1>6 DEF HandlerStep, DecideItem, DecideDone, ConfirmationCode, ExecuteAction, PersistResult,
                EmitAudit, Notify
  <2>2. \/ UNCHANGED approvals
        \/ \E ids \in SUBSET ApprovalIds, s \in Resolutions : Resolves(ids, s)
        \/ OnlyResults
    BY <1>6, DecideStep, PersistStep
       DEF HandlerStep, ConfirmationCode, ExecuteAction, EmitAudit, Notify
  <2> QED
    BY <1>5, <2>1, <2>2
<1>7. ASSUME NEW h \in Handlers,
             \/ \E a \in ApprovalIds : Approve(h, a) \/ DenyApproval(h, a) \/ CancelApproval(h, a)
             \/ DenyAll(h)
             \/ \E g \in Groups, ds \in DecisionLists : DecideBulkGroup(h, g, ds)
      PROVE  QuietStep
  <2>1. UNCHANGED <<requestIds, draft>>
    BY <1>7 DEF Approve, DenyApproval, CancelApproval, Close, DenyAll, DecideBulkGroup
  <2>2. \/ UNCHANGED approvals
        \/ \E ids \in SUBSET ApprovalIds, s \in Resolutions : Resolves(ids, s)
    BY <1>7, DecideStep DEF DenyApproval, CancelApproval
  <2> QED
    BY <1>5, <2>1, <2>2
<1>8. ASSUME \/ \E a \in ApprovalIds : PollStatus(a)
             \/ Tick
             \/ UNCHANGED vars
      PROVE  QuietStep
  BY <1>5, <1>8 DEF PollStatus, Tick, vars
<1> QED
  BY <1>3, <1>4, <1>6, <1>7, <1>8 DEF Next

\* The rows ids are filled, each with a request_id of its own that was free.
Takes(ids, request) ==
    /\ requestIds' = requestIds \cup {request[a] : a \in ids}
    /\ \A a \in ids :
          /\ approvals[a].status = "absent"
          /\ approvals'[a].status # "absent"
          /\ request[a] \notin requestIds
          /\ approvals'[a].request = request[a]
    /\ \A a, b \in ids : request[a] = request[b] => a = b
    /\ \A a \in ApprovalIds \ ids : approvals'[a] = approvals[a]

\* Request ids and rows match, and an absent row has none.
TakenInv ==
    /\ RequestIdsMatchRows
    /\ \A a \in ApprovalIds : approvals[a].status = "absent" => approvals[a].request = None

LEMMA TakesInv ==
    ASSUME TypeOK, TakenInv, NEW ids \in SUBSET ApprovalIds, NEW request \in [ids -> RequestIds],
           Takes(ids, request)
    PROVE  TakenInv'
<1>1. \A r \in requestIds : r # None
  BY NoneAssumption DEF TypeOK
<1>2. ASSUME NEW r \in requestIds' PROVE \E a \in ApprovalIds : approvals'[a].request = r
  <2>1. CASE r \in requestIds
    <3>1. PICK a \in ApprovalIds : approvals[a].request = r
      BY <2>1 DEF TakenInv, RequestIdsMatchRows
    <3>2. approvals[a].status # "absent"
      BY <1>1, <2>1, <3>1 DEF TakenInv
    <3>3. a \notin ids
      BY <3>2 DEF Takes
    <3> QED
      BY <3>1, <3>3 DEF Takes
  <2>2. CASE r \in {request[a] : a \in ids}
    BY <2>2 DEF Takes
  <2> QED
    BY <2>1, <2>2 DEF Takes
<1>3. ASSUME NEW a \in ApprovalIds, approvals'[a].status # "absent"
      PROVE  approvals'[a].request \in requestIds'
  BY <1>3 DEF Takes, TakenInv, RequestIdsMatchRows
<1>4. ASSUME NEW a \in ApprovalIds, NEW b \in ApprovalIds,
             approvals'[a].status # "absent", approvals'[b].status # "absent",
             approvals'[a].request = approvals'[b].request
      PROVE  a = b
  <2>1. CASE a \in ids /\ b \in ids
    BY <1>4, <2>1 DEF Takes
  <2>2. CASE a \notin ids /\ b \notin ids
    BY <1>4, <2>2 DEF Takes, TakenInv, RequestIdsMatchRows
  <2>3. CASE a \in ids /\ b \notin ids
    BY <1>4, <2>3 DEF Takes, TakenInv, RequestIdsMatchRows
  <2>4. CASE a \notin ids /\ b \in ids
    BY <1>4, <2>4 DEF Takes, TakenInv, RequestIdsMatchRows
  <2> QED
    BY <2>1, <2>2, <2>3, <2>4
<1>5. \A a \in ApprovalIds : approvals'[a].status = "absent" => approvals'[a].request = None
  BY DEF Takes, TakenInv
<1> QED
  BY <1>2, <1>3, <1>4, <1>5 DEF TakenInv, RequestIdsMatchRows

\* The two inserting transactions take request ids in this way.
LEMMA InsertTakes ==
    ASSUME TypeOK, NEW q \in Requesters, NEW a \in ApprovalIds, InsertApproval(q, a)
    PROVE  /\ draft[q] \in CheckedDraft
           /\ Takes({a}, [x \in {a} |-> draft[q].request])
           /\ approvals'[a].fingerprint = draft[q].fingerprint
           /\ approvals'[a].checked = draft[q].checked
           /\ approvals'[a].status = "pending"
           /\ approvals'[a].group = None
<1>1. draft[q] \in CheckedDraft
  BY DEF InsertApproval, TypeOK, InsertedDraft
<1>2. /\ approvals'[a] = NewRow(draft[q].request, draft[q].fingerprint, draft[q].expires,
                               draft[q].checked, None)
      /\ \A b \in ApprovalIds \ {a} : approvals'[b] = approvals[b]
      /\ draft[q].request \notin requestIds
      /\ requestIds' = requestIds \cup {draft[q].request}
      /\ approvals[a].status = "absent"
  BY DEF InsertApproval, TypeOK
<1>3. Takes({a}, [x \in {a} |-> draft[q].request])
  BY <1>2, NewRowColumns DEF Takes
<1> QED
  BY <1>1, <1>2, <1>3, NewRowColumns

LEMMA BulkTakes ==
    ASSUME TypeOK, NEW q \in Requesters, NEW g \in Groups, NEW ids \in SUBSET ApprovalIds, NEW ttl \in TTLs,
           NEW request \in [ids -> RequestIds], NEW fingerprint \in [ids -> Fingerprints],
           BulkRequest(q, g, request, fingerprint, ttl)
    PROVE  /\ Takes(ids, request)
           /\ GroupRows(g) = {}
           /\ \A a \in ids :
                /\ approvals'[a].fingerprint = fingerprint[a]
                /\ approvals'[a].checked = now
                /\ approvals'[a].status = "pending"
                /\ approvals'[a].group = g
                /\ ~RecentlyDenied(fingerprint[a])
<1>1. DOMAIN request = ids
  OBVIOUS
<1>2. /\ GroupRows(g) = {}
      /\ \A a \in ids :
            /\ approvals[a].status = "absent"
            /\ request[a] \notin requestIds
            /\ ~RecentlyDenied(fingerprint[a])
      /\ \A a, b \in ids : request[a] = request[b] => a = b
      /\ requestIds' = requestIds \cup {request[a] : a \in ids}
      /\ approvals' = [a \in ApprovalIds |->
             IF a \in ids THEN NewRow(request[a], fingerprint[a], now + ttl, now, g)
                          ELSE approvals[a]]
  BY <1>1 DEF BulkRequest
<1>3. /\ \A a \in ids : approvals'[a] = NewRow(request[a], fingerprint[a], now + ttl, now, g)
      /\ \A a \in ApprovalIds \ ids : approvals'[a] = approvals[a]
  BY <1>2
<1>4. \A a \in ids :
        /\ approvals'[a].fingerprint = fingerprint[a]
        /\ approvals'[a].checked = now
        /\ approvals'[a].status = "pending"
        /\ approvals'[a].group = g
        /\ approvals'[a].request = request[a]
  BY <1>3, NewRowColumns
<1> QED
  BY <1>2, <1>3, <1>4 DEF Takes

LEMMA TakenNext ==
    ASSUME IInv, TakenInv, [Next]_vars
    PROVE  TakenInv'
<1>t. TypeOK
  BY DEF IInv
<1>1. CASE QuietStep
  BY <1>1 DEF QuietStep, RowKept, SameRequest, TakenInv, RequestIdsMatchRows
<1>2. ASSUME NEW q \in Requesters, NEW req \in RequestIds, NEW fp \in Fingerprints, NEW ttl \in TTLs,
             CheckRequest(q, req, fp, ttl)
      PROVE  TakenInv'
  BY <1>2 DEF CheckRequest, TakenInv, RequestIdsMatchRows
<1>3. ASSUME NEW q \in Requesters, NEW a \in ApprovalIds, InsertApproval(q, a)
      PROVE  TakenInv'
  <2> DEFINE request == [x \in {a} |-> draft[q].request]
  <2>1. draft[q] \in CheckedDraft /\ Takes({a}, request)
    BY <1>t, <1>3, InsertTakes
  <2>2. request \in [{a} -> RequestIds]
    BY <2>1 DEF CheckedDraft
  <2> HIDE DEF request
  <2> QED
    BY <1>t, <2>1, <2>2, TakesInv
<1>4. ASSUME NEW q \in Requesters, BulkRequests(q) PROVE TakenInv'
  <2>1. PICK g \in Groups, ids \in SUBSET ApprovalIds, ttl \in TTLs :
          \E request \in [ids -> RequestIds], fingerprint \in [ids -> Fingerprints] :
            BulkRequest(q, g, request, fingerprint, ttl)
    BY <1>4 DEF BulkRequests
  <2>2. PICK request \in [ids -> RequestIds], fingerprint \in [ids -> Fingerprints] :
          BulkRequest(q, g, request, fingerprint, ttl)
    BY <2>1
  <2>3. Takes(ids, request)
    BY <1>t, <2>2, BulkTakes
  <2> QED
    BY <1>t, <2>3, TakesInv
<1> QED
  BY <1>1, <1>2, <1>3, <1>4, StepKinds

\* A request_id is consumed together with its row, and by one row only, however
\* inserts of the same request race (InsertApproval, the bulk transaction).
THEOREM RequestIdsMatch == Spec => []RequestIdsMatchRows
<1>1. Init => TakenInv
  BY DEF Init, TakenInv, RequestIdsMatchRows, NoRow
<1>2. IInv /\ TakenInv /\ [Next]_vars => TakenInv'
  BY TakenNext
<1>3. TakenInv => RequestIdsMatchRows
  BY DEF TakenInv
<1> QED
  BY <1>1, <1>2, <1>3, Invariance, PTL DEF Spec

-----------------------------------------------------------------------------
(* The denial cooldown *)

\* The clock never goes back.
LEMMA ClockStep ==
    ASSUME TypeOK, [Next]_vars
    PROVE  now \in Nat /\ now' \in Nat /\ now <= now'
<1>1. now' \in {now, now + 1}
  <2>1. ASSUME NEW q \in Requesters,
               \/ \E req \in RequestIds, fp \in Fingerprints, ttl \in TTLs : CheckRequest(q, req, fp, ttl)
               \/ \E a \in ApprovalIds : InsertApproval(q, a)
               \/ RefuseRequest(q)
               \/ AnnounceRequest(q)
               \/ BulkRequests(q)
        PROVE  now' = now
    BY <2>1 DEF CheckRequest, InsertApproval, RefuseRequest, AnnounceRequest, BulkRequests, BulkRequest
  <2>2. ASSUME NEW h \in Handlers, NEW a \in ApprovalIds,
               Approve(h, a) \/ DenyApproval(h, a) \/ CancelApproval(h, a)
        PROVE  now' = now
    BY <2>2 DEF Approve, DenyApproval, CancelApproval, Close
  <2>3. ASSUME NEW h \in Handlers, DenyAll(h) \/ HandlerStep(h)
        PROVE  now' = now
    BY <2>3 DEF DenyAll, HandlerStep, DecideItem, DecideDone, ConfirmationCode, ExecuteAction,
                PersistResult, EmitAudit, Notify
  <2>4. ASSUME NEW h \in Handlers, NEW g \in Groups, NEW ds \in DecisionLists, DecideBulkGroup(h, g, ds)
        PROVE  now' = now
    BY <2>4 DEF DecideBulkGroup
  <2>5. ASSUME NEW a \in ApprovalIds, PollStatus(a)
        PROVE  now' = now
    BY <2>5 DEF PollStatus
  <2>6. CASE Tick \/ Crash \/ UNCHANGED vars
    BY <2>6 DEF Tick, Crash, vars
  <2>7. QED
    BY <2>1, <2>2, <2>3, <2>4, <2>5, <2>6 DEF Next
<1>2. now \in Nat
  BY DEF TypeOK
<1> QED
  BY <1>1, <1>2

\* A request for fp, looked up at t, had no denial of fp in its cooldown.
Cleared(fp, t) ==
    \A a \in ApprovalIds :
        /\ approvals[a].status = "denied"
        /\ approvals[a].fingerprint = fp
        /\ approvals[a].resolved < t
        => Datetime(approvals[a].resolved) <= Datetime(t - Cooldown)

\* Every row was cleared when its request was looked up, and so was every
\* request that still waits for its insert.
CooldownInv ==
    /\ \A b \in ApprovalIds : approvals[b].status # "absent" =>
          approvals[b].checked <= now /\ Cleared(approvals[b].fingerprint, approvals[b].checked)
    /\ \A q \in Requesters : draft[q] # None /\ draft[q].stage = "checked" =>
          draft[q].checked <= now /\ Cleared(draft[q].fingerprint, draft[q].checked)

\* The same of the table after a step.
ClearedAfter(fp, t) ==
    \A a \in ApprovalIds :
        /\ approvals'[a].status = "denied"
        /\ approvals'[a].fingerprint = fp
        /\ approvals'[a].resolved < t
        => Datetime(approvals'[a].resolved) <= Datetime(t - Cooldown)

\* No step puts a denial in a row other than by deciding it.
NoOldDenial ==
    \A a \in ApprovalIds :
        approvals'[a].status # "denied" \/ approvals'[a] = approvals[a] \/ RowKept(a)

\* A denial of this instant is too late to count against an earlier lookup.
LEMMA ClearedStays ==
    ASSUME TypeOK, NEW fp, NEW t \in Nat, t <= now, Cleared(fp, t), NoOldDenial
    PROVE  ClearedAfter(fp, t)
<1> SUFFICES ASSUME NEW a \in ApprovalIds, approvals'[a].status = "denied",
                    approvals'[a].fingerprint = fp, approvals'[a].resolved < t
             PROVE  Datetime(approvals'[a].resolved) <= Datetime(t - Cooldown)
  BY DEF ClearedAfter
<1>1. approvals'[a] = approvals[a] \/ RowKept(a)
  BY DEF NoOldDenial
<1>2. now \in Nat
  BY DEF TypeOK
<1>3. approvals'[a].resolved # now
  BY <1>2
<1>4. /\ approvals[a].status = "denied"
      /\ approvals[a].fingerprint = fp
      /\ approvals'[a].resolved = approvals[a].resolved
  BY <1>1, <1>3 DEF RowKept, SameRequest
<1> QED
  BY <1>4 DEF Cleared

\* A fingerprint that was not recently denied is cleared for a lookup now.
LEMMA NotDeniedIsCleared ==
    ASSUME TypeOK, NEW fp, ~RecentlyDenied(fp)
    PROVE  Cleared(fp, now)
<1> SUFFICES ASSUME NEW a \in ApprovalIds, approvals[a].status = "denied",
                    approvals[a].fingerprint = fp
             PROVE  Datetime(approvals[a].resolved) <= Datetime(now - Cooldown)
  BY DEF Cleared
<1>1. approvals[a].resolved \in Int /\ now - Cooldown \in Int
  BY CooldownAssumption DEF TypeOK, Row
<1>2. Datetime(approvals[a].resolved) \in Int /\ Datetime(now - Cooldown) \in Int
  BY <1>1, DatetimeType
<1>3. ~(Datetime(approvals[a].resolved) > Datetime(now - Cooldown))
  BY DEF RecentlyDenied
<1> QED
  BY <1>2, <1>3

\* What the lookups of rows and drafts are about.
LEMMA LookupTypes ==
    ASSUME TypeOK
    PROVE  /\ now \in Nat
           /\ \A b \in ApprovalIds : approvals[b].checked \in Nat
           /\ \A q \in Requesters : draft[q] # None /\ draft[q].stage = "checked" =>
                draft[q] \in CheckedDraft /\ draft[q].checked \in Nat
<1>1. now \in Nat /\ \A b \in ApprovalIds : approvals[b].checked \in Nat
  BY DEF TypeOK, Row
<1>2. ASSUME NEW q \in Requesters, draft[q] # None, draft[q].stage = "checked"
      PROVE  draft[q] \in CheckedDraft
  BY <1>2 DEF TypeOK, InsertedDraft
<1> QED
  BY <1>1, <1>2 DEF CheckedDraft

\* A row or a draft that was cleared stays cleared.
LEMMA OldLookups ==
    ASSUME TypeOK, CooldownInv, NoOldDenial, now' \in Nat, now <= now'
    PROVE  /\ \A b \in ApprovalIds : approvals[b].status # "absent" =>
                 /\ approvals[b].checked <= now'
                 /\ ClearedAfter(approvals[b].fingerprint, approvals[b].checked)
           /\ \A q \in Requesters : draft[q] # None /\ draft[q].stage = "checked" =>
                 /\ draft[q].checked <= now'
                 /\ ClearedAfter(draft[q].fingerprint, draft[q].checked)
<1>1. now \in Nat
  BY DEF TypeOK
<1>2. ASSUME NEW b \in ApprovalIds, approvals[b].status # "absent"
      PROVE  /\ approvals[b].checked <= now'
             /\ ClearedAfter(approvals[b].fingerprint, approvals[b].checked)
  <2>1. /\ approvals[b].checked \in Nat
        /\ approvals[b].checked <= now
        /\ Cleared(approvals[b].fingerprint, approvals[b].checked)
    BY <1>2, LookupTypes DEF CooldownInv
  <2> QED
    BY <1>1, <2>1, ClearedStays
<1>3. ASSUME NEW q \in Requesters, draft[q] # None, draft[q].stage = "checked"
      PROVE  draft[q].checked <= now' /\ ClearedAfter(draft[q].fingerprint, draft[q].checked)
  <2>1. /\ draft[q].checked \in Nat
        /\ draft[q].checked <= now
        /\ Cleared(draft[q].fingerprint, draft[q].checked)
    BY <1>3, LookupTypes DEF CooldownInv
  <2> QED
    BY <1>1, <2>1, ClearedStays
<1> QED
  BY <1>2, <1>3

\* The invariant of the next state, from what holds of its rows and drafts.
LEMMA CooldownAfter ==
    ASSUME \A b \in ApprovalIds : approvals'[b].status # "absent" =>
              /\ approvals'[b].checked <= now'
              /\ ClearedAfter(approvals'[b].fingerprint, approvals'[b].checked),
           \A q \in Requesters : draft'[q] # None /\ draft'[q].stage = "checked" =>
              /\ draft'[q].checked <= now'
              /\ ClearedAfter(draft'[q].fingerprint, draft'[q].checked)
    PROVE  CooldownInv'
BY DEF CooldownInv, Cleared, ClearedAfter

LEMMA CooldownNext ==
    ASSUME IInv, CooldownInv, [Next]_vars
    PROVE  CooldownInv'
<1>t. TypeOK
  BY DEF IInv
<1>n. now \in Nat /\ now' \in Nat /\ now <= now'
  BY <1>t, ClockStep
<1>1. CASE QuietStep
  <2>1. NoOldDenial
    BY <1>1 DEF QuietStep, NoOldDenial
  <2>2. ASSUME NEW b \in ApprovalIds, approvals'[b].status # "absent"
        PROVE  /\ approvals'[b].checked <= now'
               /\ ClearedAfter(approvals'[b].fingerprint, approvals'[b].checked)
    <3>1. /\ approvals[b].status # "absent"
          /\ approvals'[b].checked = approvals[b].checked
          /\ approvals'[b].fingerprint = approvals[b].fingerprint
      BY <1>1, <2>2 DEF QuietStep, RowKept, SameRequest
    <3> QED
      BY <1>t, <1>n, <2>1, <3>1, OldLookups
  <2>3. ASSUME NEW q \in Requesters, draft'[q] # None, draft'[q].stage = "checked"
        PROVE  draft'[q].checked <= now' /\ ClearedAfter(draft'[q].fingerprint, draft'[q].checked)
    <3>1. draft'[q] = draft[q]
      BY <1>1, <2>3 DEF QuietStep
    <3> QED
      BY <1>t, <1>n, <2>1, <2>3, <3>1, OldLookups
  <2> QED
    BY <2>2, <2>3, CooldownAfter
<1>2. ASSUME NEW q \in Requesters, NEW req \in RequestIds, NEW fp \in Fingerprints, NEW ttl \in TTLs,
             CheckRequest(q, req, fp, ttl)
      PROVE  CooldownInv'
  <2> DEFINE d == [stage |-> "checked", request |-> req, fingerprint |-> fp,
                   expires |-> now + ttl, checked |-> now]
  <2>1. /\ approvals' = approvals /\ now' = now
        /\ draft' = [draft EXCEPT ![q] = d]
        /\ ~RecentlyDenied(fp)
    BY <1>2 DEF CheckRequest
  <2>2. NoOldDenial
    BY <2>1 DEF NoOldDenial
  <2>3. d.checked = now /\ d.fingerprint = fp
    OBVIOUS
  <2> HIDE DEF d
  <2>4. draft'[q] = d /\ \A r \in Requesters \ {q} : draft'[r] = draft[r]
    BY <1>t, <2>1 DEF TypeOK
  <2>5. ClearedAfter(fp, now)
    BY <1>t, <1>n, <2>1, <2>2, NotDeniedIsCleared, ClearedStays
  <2>6. ASSUME NEW r \in Requesters, draft'[r] # None, draft'[r].stage = "checked"
        PROVE  draft'[r].checked <= now' /\ ClearedAfter(draft'[r].fingerprint, draft'[r].checked)
    <3>1. CASE r = q
      BY <1>n, <2>1, <2>3, <2>4, <2>5, <3>1
    <3>2. CASE r # q
      BY <1>t, <1>n, <2>2, <2>4, <2>6, <3>2, OldLookups
    <3> QED
      BY <3>1, <3>2
  <2> QED
    BY <1>t, <1>n, <2>1, <2>2, <2>6, OldLookups, CooldownAfter
<1>3. ASSUME NEW q \in Requesters, NEW a \in ApprovalIds, InsertApproval(q, a)
      PROVE  CooldownInv'
  <2>1. /\ draft[q] \in CheckedDraft
        /\ Takes({a}, [x \in {a} |-> draft[q].request])
        /\ approvals'[a].fingerprint = draft[q].fingerprint
        /\ approvals'[a].checked = draft[q].checked
        /\ approvals'[a].status = "pending"
    BY <1>t, <1>3, InsertTakes
  <2>2. \A b \in ApprovalIds \ {a} : approvals'[b] = approvals[b]
    BY <2>1 DEF Takes
  <2>3. NoOldDenial
    BY <2>1, <2>2 DEF NoOldDenial
  <2>4. /\ draft[q] # None /\ draft[q].stage = "checked"
        /\ draft' = [draft EXCEPT ![q] = [stage |-> "inserted", ids |-> {a}]]
    BY <1>3 DEF InsertApproval
  <2>5. draft'[q].stage = "inserted" /\ \A r \in Requesters \ {q} : draft'[r] = draft[r]
    BY <1>t, <2>4 DEF TypeOK
  <2>6. ASSUME NEW b \in ApprovalIds, approvals'[b].status # "absent"
        PROVE  /\ approvals'[b].checked <= now'
               /\ ClearedAfter(approvals'[b].fingerprint, approvals'[b].checked)
    <3>1. CASE b = a
      BY <1>t, <1>n, <2>1, <2>3, <2>4, <3>1, OldLookups
    <3>2. CASE b # a
      BY <1>t, <1>n, <2>2, <2>3, <2>6, <3>2, OldLookups
    <3> QED
      BY <3>1, <3>2
  <2>7. ASSUME NEW r \in Requesters, draft'[r] # None, draft'[r].stage = "checked"
        PROVE  draft'[r].checked <= now' /\ ClearedAfter(draft'[r].fingerprint, draft'[r].checked)
    <3>1. r # q
      BY <2>5, <2>7
    <3> QED
      BY <1>t, <1>n, <2>3, <2>5, <2>7, <3>1, OldLookups
  <2> QED
    BY <2>6, <2>7, CooldownAfter
<1>4. ASSUME NEW q \in Requesters, NEW g \in Groups, NEW ids \in SUBSET ApprovalIds, NEW ttl \in TTLs,
             NEW request \in [ids -> RequestIds], NEW fingerprint \in [ids -> Fingerprints],
             BulkRequest(q, g, request, fingerprint, ttl)
      PROVE  CooldownInv'
  <2>1. /\ Takes(ids, request)
        /\ \A a \in ids :
              /\ approvals'[a].fingerprint = fingerprint[a]
              /\ approvals'[a].checked = now
              /\ approvals'[a].status = "pending"
              /\ ~RecentlyDenied(fingerprint[a])
    BY <1>t, <1>4, BulkTakes
  <2>2. \A b \in ApprovalIds \ ids : approvals'[b] = approvals[b]
    BY <2>1 DEF Takes
  <2>3. NoOldDenial
    BY <2>1, <2>2 DEF NoOldDenial
  <2>4. draft' = [draft EXCEPT ![q] = [stage |-> "inserted", ids |-> ids]] /\ now' = now
    BY <1>4 DEF BulkRequest
  <2>5. draft'[q].stage = "inserted" /\ \A r \in Requesters \ {q} : draft'[r] = draft[r]
    BY <1>t, <2>4 DEF TypeOK
  <2>6. ASSUME NEW b \in ApprovalIds, approvals'[b].status # "absent"
        PROVE  /\ approvals'[b].checked <= now'
               /\ ClearedAfter(approvals'[b].fingerprint, approvals'[b].checked)
    <3>1. CASE b \in ids
      <4>1. ClearedAfter(fingerprint[b], now)
        BY <1>t, <1>n, <2>1, <2>3, <3>1, NotDeniedIsCleared, ClearedStays
      <4> QED
        BY <1>n, <2>1, <2>4, <3>1, <4>1
    <3>2. CASE b \notin ids
      BY <1>t, <1>n, <2>2, <2>3, <2>6, <3>2, OldLookups
    <3> QED
      BY <3>1, <3>2
  <2>7. ASSUME NEW r \in Requesters, draft'[r] # None, draft'[r].stage = "checked"
        PROVE  draft'[r].checked <= now' /\ ClearedAfter(draft'[r].fingerprint, draft'[r].checked)
    <3>1. r # q
      BY <2>5, <2>7
    <3> QED
      BY <1>t, <1>n, <2>3, <2>5, <2>7, <3>1, OldLookups
  <2> QED
    BY <2>6, <2>7, CooldownAfter
<1> QED
  BY <1>1, <1>2, <1>3, <1>4, StepKinds DEF BulkRequests

\* No approval exists for an action that was inside the denial cooldown when
\* its request was looked up, however long the insert took after the lookup
\* and however many handlers denied meanwhile (FindRecentDeniedApproval).
THEOREM CooldownHolds == Spec => []CheckedCooldownHolds
<1>1. Init => CooldownInv
  BY DEF Init, CooldownInv, NoRow
<1>2. IInv /\ CooldownInv /\ [Next]_vars => CooldownInv'
  BY CooldownNext
<1>3. CooldownInv => CheckedCooldownHolds
  BY DEF CooldownInv, Cleared, CheckedCooldownHolds
<1> QED
  BY <1>1, <1>2, <1>3, Invariance, PTL DEF Spec

-----------------------------------------------------------------------------
(* Bulk groups *)

\* A step changes the members of no group that has any, and re-opens none.
LEMMA GroupStep ==
    ASSUME IInv, [Next]_vars, NEW g \in Groups, GroupRows(g) # {}
    PROVE  /\ GroupRows(g)' = GroupRows(g)
           /\ \A a \in GroupRows(g) :
                ResolvedStatus(a)' = "pending" => ResolvedStatus(a) = "pending"
<1>t. TypeOK
  BY DEF IInv
<1>g. g # None
  BY NoneAssumption
<1>n. now \in Nat /\ now' \in Nat /\ now <= now'
  BY <1>t, ClockStep
<1>1. ASSUME \A a \in ApprovalIds : \/ RowKept(a)
                                    \/ approvals'[a] = approvals[a]
                                    \/ approvals[a].status = "absent" /\ approvals'[a].group # g
      PROVE  /\ GroupRows(g)' = GroupRows(g)
             /\ \A a \in GroupRows(g) :
                  ResolvedStatus(a)' = "pending" => ResolvedStatus(a) = "pending"
  <2>1. ASSUME NEW a \in ApprovalIds
        PROVE  a \in GroupRows(g)' <=> a \in GroupRows(g)
    BY <1>1, <2>1 DEF GroupRows, RowKept, SameRequest
  <2>2. GroupRows(g)' = GroupRows(g)
    <3>1. GroupRows(g) \subseteq ApprovalIds /\ GroupRows(g)' \subseteq ApprovalIds
      BY DEF GroupRows
    <3> QED
      BY <2>1, <3>1
  <2>3. ASSUME NEW a \in GroupRows(g), ResolvedStatus(a)' = "pending"
        PROVE  ResolvedStatus(a) = "pending"
    <3>1. a \in ApprovalIds /\ approvals[a].status # "absent" /\ approvals[a].expires \in Nat
      BY <1>t DEF GroupRows, TypeOK, Row
    <3>2. approvals'[a].status = "pending" /\ ~GoExpired(approvals'[a].expires, now')
      BY <2>3 DEF ResolvedStatus
    <3>3. approvals[a].status = "pending" /\ approvals'[a].expires = approvals[a].expires
      BY <1>1, <3>1, <3>2 DEF RowKept, SameRequest
    <3>4. ~GoExpired(approvals[a].expires, now)
      BY <1>n, <3>1, <3>2, <3>3 DEF GoExpired
    <3> QED
      BY <3>3, <3>4 DEF ResolvedStatus
  <2> QED
    BY <2>2, <2>3
<1>2. CASE QuietStep
  BY <1>1, <1>2 DEF QuietStep
<1>3. ASSUME NEW q \in Requesters, NEW req \in RequestIds, NEW fp \in Fingerprints, NEW ttl \in TTLs,
             CheckRequest(q, req, fp, ttl)
      PROVE  \A a \in ApprovalIds : approvals'[a] = approvals[a]
  BY <1>3 DEF CheckRequest
<1>4. ASSUME NEW q \in Requesters, NEW a \in ApprovalIds, InsertApproval(q, a)
      PROVE  \A b \in ApprovalIds : \/ approvals'[b] = approvals[b]
                                    \/ approvals[b].status = "absent" /\ approvals'[b].group # g
  <2>1. Takes({a}, [x \in {a} |-> draft[q].request]) /\ approvals'[a].group = None
    BY <1>t, <1>4, InsertTakes
  <2> QED
    BY <1>g, <2>1 DEF Takes
<1>5. ASSUME NEW q \in Requesters, NEW f \in Groups, NEW ids \in SUBSET ApprovalIds, NEW ttl \in TTLs,
             NEW request \in [ids -> RequestIds], NEW fingerprint \in [ids -> Fingerprints],
             BulkRequest(q, f, request, fingerprint, ttl)
      PROVE  \A b \in ApprovalIds : \/ approvals'[b] = approvals[b]
                                    \/ approvals[b].status = "absent" /\ approvals'[b].group # g
  <2>1. /\ Takes(ids, request)
        /\ GroupRows(f) = {}
        /\ \A a \in ids :
              /\ approvals'[a].fingerprint = fingerprint[a]
              /\ approvals'[a].checked = now
              /\ approvals'[a].status = "pending"
              /\ approvals'[a].group = f
              /\ ~RecentlyDenied(fingerprint[a])
    BY <1>t, <1>5, BulkTakes
  <2>2. f # g
    BY <2>1
  <2> QED
    BY <2>1, <2>2 DEF Takes
<1> QED
  BY <1>1, <1>2, <1>3, <1>4, <1>5, StepKinds DEF BulkRequests

\* With the same members and fewer of them open, the aggregate moves forward.
LEMMA AggregateStep ==
    ASSUME NEW g \in Groups, GroupRows(g) # {}, GroupRows(g)' = GroupRows(g),
           \A a \in GroupRows(g) : ResolvedStatus(a)' = "pending" => ResolvedStatus(a) = "pending"
    PROVE  Progress[AggregateStatus(g)'] >= Progress[AggregateStatus(g)]
<1> DEFINE rows == GroupRows(g)
           open == {a \in rows : ResolvedStatus(a) = "pending"}
           openAfter == {a \in rows : ResolvedStatus(a)' = "pending"}
<1>1. openAfter \subseteq open /\ open \subseteq rows
  OBVIOUS
<1>2. AggregateStatus(g) = IF open = {} THEN "resolved" ELSE IF open = rows THEN "pending" ELSE "partial"
  BY DEF AggregateStatus
<1>3. AggregateStatus(g)' =
        IF openAfter = {} THEN "resolved" ELSE IF openAfter = rows THEN "pending" ELSE "partial"
  BY DEF AggregateStatus
<1> HIDE DEF rows, open, openAfter
<1>4. \/ AggregateStatus(g) = "pending" /\ AggregateStatus(g)' \in {"pending", "partial", "resolved"}
      \/ AggregateStatus(g) = "partial" /\ AggregateStatus(g)' \in {"partial", "resolved"}
      \/ AggregateStatus(g) = "resolved" /\ AggregateStatus(g)' = "resolved"
  BY <1>1, <1>2, <1>3
<1>5. Progress["resolved"] = 2 /\ Progress["partial"] = 1 /\ Progress["pending"] = 0
  BY DEF Progress
<1> QED
  BY <1>4, <1>5

\* The aggregate status of a bulk group only moves from pending through partial
\* to resolved, while its items are decided one by one, cancelled, denied and
\* left to expire (BulkGroupAggregateStatus).
THEOREM GroupsProgress == Spec => GroupOnlyProgresses
<1>1. IInv /\ [Next]_vars =>
        [\A g \in Groups : GroupRows(g) # {} =>
            Progress[AggregateStatus(g)'] >= Progress[AggregateStatus(g)]]_vars
  BY GroupStep, AggregateStep
<1> QED
  BY <1>1, Invariance, PTL DEF Spec, GroupOnlyProgresses

-----------------------------------------------------------------------------
(* Refinement *)

\* A row's phase is read off its status, except that a pending row has two.
LEMMA PhaseCases ==
    ASSUME NEW row \in Row, NEW t
    PROVE  /\ row.status # "pending" => Phase(row, t) = row.status
           /\ row.status = "pending" /\ SQLExpired(row.expires, t) => Phase(row, t) = "expired"
           /\ row.status = "pending" /\ ~SQLExpired(row.expires, t) => Phase(row, t) = "open"
BY DEF Phase

\* The abstract phase of an approval, before and after a step.
LEMMA PhaseAt ==
    ASSUME NEW a \in ApprovalIds
    PROVE  phase[a] = Phase(approvals[a], now) /\ phase'[a] = Phase(approvals'[a], now')
BY DEF phase

\* Requests open approvals.
LEMMA FillsOpens ==
    ASSUME TypeOK, TypeOK', NEW ids \in SUBSET ApprovalIds, NEW exp \in Nat, Fills(ids, exp),
           UNCHANGED <<now, calls, told>>
    PROVE  \E p \in {"open", "expired"} : Promise!Open(ids, p)
<1> DEFINE p == IF SQLExpired(exp, now) THEN "expired" ELSE "open"
<1>1. \A a \in ApprovalIds : approvals[a] \in Row /\ approvals'[a] \in Row
  BY DEF TypeOK
<1>2. \A a \in ids : phase[a] = "absent" /\ phase'[a] = p
  BY <1>1, PhaseCases, PhaseAt DEF Fills
<1>3. \A a \in ApprovalIds \ ids : phase'[a] = phase[a]
  BY PhaseAt DEF Fills
<1>4. phase' = [a \in ApprovalIds |-> IF a \in ids THEN p ELSE phase[a]]
  BY <1>2, <1>3 DEF phase
<1> QED
  BY <1>2, <1>4 DEF Promise!Open, Promise!Move

\* Decisions decide.
LEMMA ResolvesDecides ==
    ASSUME TypeOK, TypeOK', NEW ids \in SUBSET ApprovalIds, NEW s \in Resolutions, Resolves(ids, s),
           UNCHANGED <<now, calls, told>>
    PROVE  Promise!Decide(ids, s)
<1>1. \A a \in ApprovalIds : approvals[a] \in Row /\ approvals'[a] \in Row
  BY DEF TypeOK
<1>2. \A a \in ids : phase[a] = "open" /\ phase'[a] = s
  BY <1>1, PhaseCases, PhaseAt DEF Resolves, Resolvable
<1>3. \A a \in ApprovalIds \ ids : phase'[a] = phase[a]
  BY PhaseAt DEF Resolves
<1>4. phase' = [a \in ApprovalIds |-> IF a \in ids THEN s ELSE phase[a]]
  BY <1>2, <1>3 DEF phase
<1> QED
  BY <1>2, <1>4 DEF Promise!Decide, Promise!Move, Promise!Decisions

\* Time expires approvals.
LEMMA TickExpires ==
    ASSUME TypeOK, Tick
    PROVE  \E ids \in SUBSET ApprovalIds : Promise!Expire(ids)
<1> DEFINE ids == {a \in ApprovalIds : phase[a] = "open" /\ phase'[a] # "open"}
<1>1. UNCHANGED <<approvals, calls, told>> /\ now \in Nat /\ now' \in Nat /\ now <= now'
  BY DEF Tick, TypeOK
<1>2. ASSUME NEW a \in ApprovalIds
      PROVE  phase'[a] = IF a \in ids THEN "expired" ELSE phase[a]
  <2>1. approvals[a] \in Row /\ approvals[a].expires \in Nat
    BY DEF TypeOK, Row
  <2>2. SQLExpired(approvals[a].expires, now) => SQLExpired(approvals[a].expires, now')
    BY <1>1, <2>1, SQLExpiredStays
  <2> QED
    BY <1>1, <2>1, <2>2, PhaseCases, PhaseAt
<1>3. phase' = [a \in ApprovalIds |-> IF a \in ids THEN "expired" ELSE phase[a]]
  BY <1>2 DEF phase
<1> QED
  BY <1>1, <1>3 DEF Promise!Expire, Promise!Move

\* The connector call executes an approved approval, for the first time.
LEMMA ExecuteExecutes ==
    ASSUME IInv, NEW h \in Handlers, NEW result \in ExecResults, ExecuteAction(h, result)
    PROVE  \E a \in ApprovalIds : Promise!Execute(a)
<1> DEFINE a == handler[h].id
<1>1. a \in ApprovalIds /\ approvals[a].status = "approved" /\ calls[a] = 0
  BY DEF ExecuteAction, IInv, HandlerInv, HandlerOK
<1>2. approvals[a] \in Row
  BY <1>1 DEF IInv, TypeOK
<1>3. phase[a] = "approved"
  BY <1>1, <1>2, PhaseCases, PhaseAt
<1>4. UNCHANGED <<approvals, now, told>> /\ calls' = [calls EXCEPT ![a] = 1]
  BY <1>1 DEF ExecuteAction, IInv, TypeOK
<1>5. UNCHANGED phase
  BY <1>4 DEF phase
<1> QED
  BY <1>1, <1>3, <1>4, <1>5 DEF Promise!Execute

\* Wakes and polls tell the phase the approval is in.
LEMMA TellTells ==
    ASSUME IInv, \/ \E h \in Handlers : Notify(h)
                 \/ \E a \in ApprovalIds : PollStatus(a)
    PROVE  \E a \in ApprovalIds : Promise!Tell(a)
<1>1. UNCHANGED <<approvals, now, calls>>
  BY DEF Notify, PollStatus
<1>2. UNCHANGED phase
  BY <1>1 DEF phase
<1>3. ASSUME NEW h \in Handlers, Notify(h)
      PROVE  \E a \in ApprovalIds : Promise!Tell(a)
  <2> DEFINE a == handler[h].id
  <2>1. /\ a \in ApprovalIds
        /\ handler[h].status \in Resolutions
        /\ approvals[a].status = handler[h].status
        /\ told' = told \cup {<<a, handler[h].status>>}
    BY <1>3 DEF Notify, IInv, HandlerInv, HandlerOK
  <2>2. approvals[a] \in Row
    BY <2>1 DEF IInv, TypeOK
  <2>3. phase[a] = handler[h].status
    BY <2>1, <2>2, PhaseCases, PhaseAt
  <2> QED
    BY <1>1, <1>2, <2>1, <2>3 DEF Promise!Tell, Promise!Final, Promise!Decisions
<1>4. ASSUME NEW a \in ApprovalIds, PollStatus(a)
      PROVE  \E b \in ApprovalIds : Promise!Tell(b)
  <2>1. approvals[a] \in Row /\ approvals[a].expires \in Nat /\ now \in Nat
    BY DEF IInv, TypeOK, Row
  <2>2. /\ approvals[a].status # "absent"
        /\ ResolvedStatus(a) # "pending"
        /\ told' = told \cup {<<a, ResolvedStatus(a)>>}
    BY <1>4 DEF PollStatus
  <2>3. phase[a] = ResolvedStatus(a)
    BY <2>1, <2>2, PhaseCases, PhaseAt, GoExpiredImpliesSQLExpired DEF ResolvedStatus
  <2>4. phase[a] \in Promise!Final
    BY <2>1, <2>2, <2>3 DEF ResolvedStatus, Row, Promise!Final, Promise!Decisions
  <2> QED
    BY <1>1, <1>2, <2>2, <2>3, <2>4 DEF Promise!Tell
<1> QED
  BY <1>3, <1>4

\* A step that leaves phases, calls and what was told alone is a stutter.
LEMMA Stutters ==
    ASSUME OnlyResults \/ UNCHANGED approvals, UNCHANGED <<now, calls, told>>
    PROVE  UNCHANGED Promise!vars
<1>1. \A a \in ApprovalIds : Phase(approvals'[a], now') = Phase(approvals[a], now)
  BY DEF OnlyResults, SameRequest, Phase
<1>2. UNCHANGED phase
  BY <1>1 DEF phase
<1> QED
  BY <1>2 DEF Promise!vars

\* Every step is a step of the promise, or a stutter.
LEMMA StepRefines == IInv /\ TypeOK' /\ [Next]_vars => [Promise!Next]_Promise!vars
<1> SUFFICES ASSUME IInv, TypeOK', [Next]_vars PROVE [Promise!Next]_Promise!vars
  OBVIOUS
<1>t. TypeOK
  BY DEF IInv
<1>1. ASSUME NEW ids \in SUBSET ApprovalIds, NEW exp \in Nat, Fills(ids, exp), UNCHANGED <<now, calls, told>>
      PROVE  Promise!Next
  BY <1>t, <1>1, FillsOpens DEF Promise!Next
<1>2. ASSUME NEW ids \in SUBSET ApprovalIds, NEW s \in Resolutions, Resolves(ids, s),
             UNCHANGED <<now, calls, told>>
      PROVE  Promise!Next
  BY <1>t, <1>2, ResolvesDecides DEF Promise!Next, Promise!Decisions
<1>3. ASSUME Tick PROVE Promise!Next
  BY <1>t, <1>3, TickExpires DEF Promise!Next
<1>4. ASSUME NEW h \in Handlers, NEW result \in ExecResults, ExecuteAction(h, result) PROVE Promise!Next
  BY <1>4, ExecuteExecutes DEF Promise!Next
<1>5. ASSUME \/ \E h \in Handlers : Notify(h)
             \/ \E a \in ApprovalIds : PollStatus(a)
      PROVE  Promise!Next
  BY <1>5, TellTells DEF Promise!Next
<1>6. CASE (OnlyResults \/ UNCHANGED approvals) /\ UNCHANGED <<now, calls, told>>
  BY <1>6, Stutters
<1>7. \/ \E ids \in SUBSET ApprovalIds, exp \in Nat : Fills(ids, exp) /\ UNCHANGED <<now, calls, told>>
      \/ \E ids \in SUBSET ApprovalIds, s \in Resolutions : Resolves(ids, s) /\ UNCHANGED <<now, calls, told>>
      \/ Tick
      \/ \E h \in Handlers, result \in ExecResults : ExecuteAction(h, result)
      \/ \E h \in Handlers : Notify(h)
      \/ \E a \in ApprovalIds : PollStatus(a)
      \/ (OnlyResults \/ UNCHANGED approvals) /\ UNCHANGED <<now, calls, told>>
  BY RequestStep, DecideStep, PersistStep
     DEF Next, DenyApproval, CancelApproval, HandlerStep, ConfirmationCode, EmitAudit, Crash, vars
<1> QED
  BY <1>1, <1>2, <1>3, <1>4, <1>5, <1>6, <1>7

\* The handlers, their transactions and the two clocks implement the promise:
\* each approval is opened once, closed once, executed at most once and only if
\* approved, and the agent is told nothing else.
THEOREM Refinement == Spec => KeepsPromise
<1>1. Init => Promise!Init
  BY PhaseCases DEF Init, Promise!Init, phase, NoRow, Phase
<1>2. IInv /\ IInv' /\ [Next]_vars => [Promise!Next]_Promise!vars
  BY StepRefines DEF IInv
<1> QED
  BY <1>1, <1>2, Invariance, PTL DEF Spec, KeepsPromise, Promise!Spec
==============================================================================
