------------------------------ MODULE MCProgress ------------------------------
(***************************************************************************)
(* Small instances, for TLC, of wakes and sweeps under failures, and of    *)
(* what must happen eventually.  A behaviour exercises the wakes, with     *)
(* failures or without, the approvals or the standing approvals (subject)  *)
(* and leaves the others in an initial state, where none of their          *)
(* goroutines has anything to do.                                          *)
(***************************************************************************)
EXTENDS AgentWake, TLC

CONSTANTS n1, n2, a1, a2, r1, r2, h1, q1, w1, s1, p1, None

VARIABLES
    subject,
    \* of Approvals
    bulkNow, approvals, requestIds, handler, draft, calls, outcome, audit, told,
    \* of StandingApprovals
    standingNow, agent, sas, requests, ledger, pending, writer, worker, editor

bulkVars == <<bulkNow, approvals, requestIds, handler, draft, calls, outcome, audit, told>>
standingVars == <<standingNow, agent, sas, requests, ledger, pending, writer, worker, editor>>
all == <<vars, bulkVars, standingVars, subject>>

-----------------------------------------------------------------------------

\* Wakes that arrive, and a watcher whose polls may fail.
Arriving == INSTANCE AgentWake WITH
    Limit <- 2, MaxAttempts <- 1, Fallback <- 1, MaxNow <- 3, Faults <- {"error", "not_found"},
    Layers <- {"push", "watch"}

\* One group of two approvals, two requests, one approver.
Bulk == INSTANCE Approvals WITH
    now <- bulkNow, ApprovalIds <- {a1, a2}, RequestIds <- {r1, r2}, Fingerprints <- {"f1"},
    Groups <- {"g1"}, Handlers <- {h1}, Requesters <- {q1}, TTLs <- {1}, TicksPerSecond <- 1,
    Cooldown <- 0, MaxNow <- 2, MaxDecisions <- 2, Faults <- {}

\* A bulk request of two items, one grant.
Standing == INSTANCE StandingApprovals WITH
    now <- standingNow, job <- worker, SAIds <- {s1}, Requests <- {}, RequestIds <- {r1, r2},
    Params <- {p1}, Grants <- {{p1}}, Scopes <- {"exact"}, Workers <- {w1}, Editors <- {},
    TTLs <- {}, TicksPerSecond <- 1, Delays <- {0}, MaxRows <- 1, MaxNow <- 0,
    Faults <- {"metadata", "audit"}

\* AgentWake's ExpiryIsPushed, where wakes arrive.
ExpiryIsPushedInTime == subject = "arriving" => ExpiryIsPushed

\* AgentWake's WatchReturns, whether or not its polls do.
WatchAlwaysReturns == subject = "arriving" => WatchReturns

\* Approvals': what was granted reaches the connector.
ApprovedReachesConnector == Bulk!ApprovedReachesConnector

\* StandingApprovals': a bulk request gives the write lock back.
WriteLockIsReleased == Standing!WriteLockIsReleased

-----------------------------------------------------------------------------

\* Where the wakes are not the subject their clock has already stopped.  One of
\* the two approvals is watched, and what is approved was requested in the group.
ProgressInit ==
    /\ subject \in {"failing", "arriving", "bulk", "standing"}
    /\ now = IF subject \in {"failing", "arriving"} THEN 0 ELSE MaxNow
    /\ NothingYet
    /\ Bulk!Init
    /\ Standing!Init

ProgressNext ==
    \/ /\ subject = "failing" /\ Next
       /\ UNCHANGED <<bulkVars, standingVars, subject>>
    \/ /\ subject = "arriving" /\ Arriving!Next /\ watcher'[n2].pc = "off"
       /\ UNCHANGED <<bulkVars, standingVars, subject>>
    \/ /\ subject = "bulk" /\ Bulk!Next
       /\ draft'[q1] # None => draft'[q1].stage = "inserted"
       /\ UNCHANGED <<vars, standingVars, subject>>
    \/ /\ subject = "standing" /\ Standing!Next
       /\ UNCHANGED <<vars, bulkVars, subject>>

ProgressSpec ==
    ProgressInit /\ [][ProgressNext]_all
    /\ Arriving!Fairness /\ Bulk!Fairness /\ Standing!Fairness
=============================================================================
