--------------------------- MODULE AgentWakeProofs ---------------------------
(***************************************************************************)
(* Type correctness of AgentWake, the truth and the number of its wakes,   *)
(* and what a heartbeat in time reports.                                   *)
(***************************************************************************)
EXTENDS AgentWake, SQLiteTimeProofs

-----------------------------------------------------------------------------
(* The table *)

\* What a request does to the table.
LEMMA RequestEffect ==
    ASSUME TypeOK, NEW a \in ApprovalIds, NEW ttl \in TTLs, Request(a, ttl)
    PROVE  /\ row' \in [ApprovalIds -> Row]
           /\ row[a].status = "absent"
           /\ row'[a].status = "pending"
           /\ \A b \in ApprovalIds \ {a} : row'[b] = row[b]
<1> DEFINE r == [row[a] EXCEPT !.status = "pending", !.expires = now + ttl]
<1>1. row \in [ApprovalIds -> Row] /\ now + ttl \in Nat
  BY LifetimeAssumption DEF TypeOK
<1>2. r \in Row /\ r.status = "pending"
  <2>1. row[a] \in Row /\ "pending" \in {"absent", "pending"} \cup Resolutions
    BY <1>1
  <2>2. QED
    BY <1>1, <2>1 DEF Row
<1>3. row' = [row EXCEPT ![a] = r]
  BY DEF Request
<1>4. row[a].status = "absent"
  BY DEF Request
<1> HIDE DEF r
<1>5. QED
  BY <1>1, <1>2, <1>3, <1>4

\* What a decision does to the table.
LEMMA DecideEffect ==
    ASSUME TypeOK, NEW a \in ApprovalIds, NEW s \in Resolutions, Decide(a, s)
    PROVE  /\ row' \in [ApprovalIds -> Row]
           /\ row[a].status = "pending"
           /\ ~ExpiredPending(a)
           /\ row'[a].status = s
           /\ row'[a].resolved = now
           /\ \A b \in ApprovalIds \ {a} : row'[b] = row[b]
<1> DEFINE r == [row[a] EXCEPT !.status = s, !.resolved = now]
<1>1. row \in [ApprovalIds -> Row] /\ now \in Nat
  BY DEF TypeOK
<1>2. r \in Row /\ r.status = s /\ r.resolved = now
  <2>1. row[a] \in Row /\ s \in {"absent", "pending"} \cup Resolutions
    BY <1>1
  <2>2. QED
    BY <1>1, <2>1 DEF Row
<1>3. row' = [row EXCEPT ![a] = r]
  BY DEF Decide
<1>4. row[a].status = "pending" /\ ~ExpiredPending(a)
  BY DEF Decide, ExpiredPending
<1> HIDE DEF r
<1>5. QED
  BY <1>1, <1>2, <1>3, <1>4

\* A step of the table, seen from one approval: it is not forgotten, a
\* decision is final, and once expired it stays expired.
RowKeeps(a) ==
    /\ row[a].status # "absent" => row'[a].status # "absent"
    /\ row[a].status \in Resolutions => row'[a] = row[a]
    /\ ExpiredPending(a) => ExpiredPending(a)'
    /\ \A s \in Statuses : Holds(a, s) => Holds(a, s)'

\* What a wake says follows the row.
LEMMA HoldsFollow ==
    ASSUME NEW a \in ApprovalIds,
           row[a].status \in Resolutions => row'[a] = row[a],
           ExpiredPending(a) => ExpiredPending(a)'
    PROVE  \A s \in Statuses : Holds(a, s) => Holds(a, s)'
BY DEF Holds

\* Every step keeps what was so of every approval.
LEMMA TableStep ==
    ASSUME TypeOK, [Next]_vars
    PROVE  /\ now' \in Nat /\ now <= now'
           /\ row' \in [ApprovalIds -> Row]
           /\ \A a \in ApprovalIds : RowKeeps(a)
<1>1. now \in Nat /\ row \in [ApprovalIds -> Row]
  BY DEF TypeOK
<1>2. ASSUME UNCHANGED <<now, row>>
      PROVE  /\ now' \in Nat /\ now <= now' /\ row' \in [ApprovalIds -> Row]
             /\ \A a \in ApprovalIds : RowKeeps(a)
  BY <1>1, <1>2 DEF RowKeeps, Holds, ExpiredPending
<1>3. ASSUME NEW a \in ApprovalIds, NEW ttl \in TTLs, Request(a, ttl)
      PROVE  /\ now' = now /\ row' \in [ApprovalIds -> Row]
             /\ \A b \in ApprovalIds : RowKeeps(b)
  <2>1. now' = now
    BY <1>3 DEF Request
  <2>2. /\ row' \in [ApprovalIds -> Row]
        /\ row[a].status = "absent"
        /\ row'[a].status = "pending"
        /\ \A b \in ApprovalIds \ {a} : row'[b] = row[b]
    BY <1>3, RequestEffect
  <2>3. ASSUME NEW b \in ApprovalIds PROVE RowKeeps(b)
    <3>1. CASE b = a
      BY <3>1, <2>2 DEF RowKeeps, Holds, ExpiredPending, Resolutions
    <3>2. CASE b # a
      BY <3>2, <2>1, <2>2 DEF RowKeeps, Holds, ExpiredPending
    <3>3. QED
      BY <3>1, <3>2
  <2>4. QED
    BY <2>1, <2>2, <2>3
<1>4. ASSUME NEW a \in ApprovalIds, NEW s \in Resolutions, Decide(a, s)
      PROVE  /\ now' = now /\ row' \in [ApprovalIds -> Row]
             /\ \A b \in ApprovalIds : RowKeeps(b)
  <2>1. now' = now
    BY <1>4 DEF Decide
  <2>2. /\ row' \in [ApprovalIds -> Row]
        /\ row[a].status = "pending" /\ ~ExpiredPending(a)
        /\ row'[a].status = s
        /\ \A b \in ApprovalIds \ {a} : row'[b] = row[b]
    BY <1>4, DecideEffect
  <2>3. ASSUME NEW b \in ApprovalIds PROVE RowKeeps(b)
    <3>1. CASE b = a
      BY <3>1, <2>2 DEF RowKeeps, Holds, Resolutions
    <3>2. CASE b # a
      BY <3>2, <2>1, <2>2 DEF RowKeeps, Holds, ExpiredPending
    <3>3. QED
      BY <3>1, <3>2
  <2>4. QED
    BY <2>1, <2>2, <2>3
<1>5. ASSUME Tick
      PROVE  /\ now' \in Nat /\ now <= now' /\ row' \in [ApprovalIds -> Row]
             /\ \A a \in ApprovalIds : RowKeeps(a)
  <2>1. now' = now + 1 /\ row' = row
    BY <1>5 DEF Tick
  <2>2. now' \in Nat /\ now <= now'
    BY <1>1, <2>1
  <2>3. ASSUME NEW a \in ApprovalIds PROVE RowKeeps(a)
    <3>1. row[a].expires \in Nat
      BY <1>1 DEF Row
    <3>2. ExpiredPending(a) => ExpiredPending(a)'
      BY <1>1, <2>1, <2>2, <3>1, SQLExpiredStays DEF ExpiredPending
    <3>3. QED
      BY <2>1, <3>2, HoldsFollow DEF RowKeeps
  <2>4. QED
    BY <1>1, <2>1, <2>2, <2>3
<1>6. CASE UNCHANGED <<now, row>>
  BY <1>6, <1>2
<1>7. CASE \E a \in ApprovalIds, ttl \in TTLs : Request(a, ttl)
  BY <1>7, <1>3, <1>1
<1>8. CASE \E a \in ApprovalIds, s \in Resolutions : Decide(a, s)
  BY <1>8, <1>4, <1>1
<1>9. CASE Tick
  BY <1>9, <1>5
<1>10. QED
  <2>1. [Next]_vars =>
          \/ UNCHANGED <<now, row>>
          \/ \E a \in ApprovalIds, ttl \in TTLs : Request(a, ttl)
          \/ \E a \in ApprovalIds, s \in Resolutions : Decide(a, s)
          \/ Tick
    BY DEF Next, vars, ListExpired, ExpiryWake, Deliver, NotifyDecision, Post, DropWake,
           Sweep, WatchStart, WatchStep, WatchPoll, WatchJudge, Crash
  <2>2. QED
    BY <2>1, <1>6, <1>7, <1>8, <1>9

-----------------------------------------------------------------------------
(* The wakes *)

\* WakeSound with the server's new state and the table as it was: all that a
\* step which leaves the table to RowKeeps has to establish.
WakeAfter(a) ==
    /\ \A s \in Statuses : <<a, s>> \in received' => Holds(a, s)
    /\ \A w \in wakes' : w.id = a => Holds(a, w.status)
    /\ \A s \in Resolutions : <<a, s>> \in owed' => row[a].status = s /\ sent'[a] = 0
    /\ a \in job' \cup dispatched' => ExpiredPending(a)
    /\ sent'[a] \in {0, 1}
    /\ sent'[a] = 1 => row[a].status # "absent" /\ (row[a].status = "pending" => a \in dispatched')

LEMMA WakeCarries ==
    ASSUME NEW a \in ApprovalIds, row \in [ApprovalIds -> Row], wakes' \in SUBSET Wake,
           RowKeeps(a), WakeAfter(a)
    PROVE  WakeSound(a)'
<1>1. \A w \in wakes' : w.status \in Statuses
  BY DEF Wake
<1>2. \A s \in Resolutions : row[a].status = s => row'[a].status = s
  BY DEF RowKeeps
<1>3. row[a].status \in {"absent", "pending"} \cup Resolutions
  BY DEF Row
<1>4. /\ \A s \in Statuses : <<a, s>> \in received' => Holds(a, s)'
      /\ \A w \in wakes' : w.id = a => Holds(a, w.status)'
  BY <1>1 DEF WakeAfter, RowKeeps
<1>5. /\ \A s \in Resolutions : <<a, s>> \in owed' => row'[a].status = s /\ sent'[a] = 0
      /\ a \in job' \cup dispatched' => ExpiredPending(a)'
  BY <1>2 DEF WakeAfter, RowKeeps
<1>6. sent'[a] = 1 =>
        row'[a].status # "absent" /\ (row'[a].status = "pending" => a \in dispatched')
  BY <1>2, <1>3 DEF WakeAfter, RowKeeps, Resolutions
<1>7. QED
  BY <1>4, <1>5, <1>6 DEF WakeAfter, WakeSound, Holds

\* A step that leaves the server alone.
LEMMA WakeIdle ==
    ASSUME NEW a \in ApprovalIds, WakeSound(a), UNCHANGED serverVars
    PROVE  WakeAfter(a)
BY DEF WakeSound, WakeAfter, serverVars

\* A step that leaves the watchers alone.
LEMMA WatchCarries ==
    ASSUME NEW a \in ApprovalIds, WatchSound(a), RowKeeps(a), UNCHANGED watcher
    PROVE  WatchSound(a)'
BY DEF WatchSound, RowKeeps

\* A handler of an approval that exists answers with one of the statuses.
LEMMA ResolvedStatusType ==
    ASSUME TypeOK, NEW a \in ApprovalIds, row[a].status # "absent"
    PROVE  /\ ResolvedStatus(a) \in Statuses
           /\ ExpiredPending(a) => Holds(a, ResolvedStatus(a))
<1>1. row[a].status \in {"absent", "pending"} \cup Resolutions
  BY DEF TypeOK, Row
<1>2. ResolvedStatus(a) \in {"expired", row[a].status}
  BY DEF ResolvedStatus
<1>3. QED
  BY <1>1, <1>2 DEF Statuses, Holds, ExpiredPending, Resolutions

\* The wake of a resolution that holds is sound, and it is the first.
LEMMA StartWakeEffect ==
    ASSUME TypeOK, NEW a \in ApprovalIds, NEW s \in Statuses, StartWake(a, s)
    PROVE  /\ wakes' \in SUBSET Wake
           /\ \A w \in wakes' : w \in wakes \/ (w.id = a /\ w.status = s)
           /\ sent' \in [ApprovalIds -> Nat]
           /\ sent'[a] = sent[a] + 1
           /\ \A b \in ApprovalIds \ {a} : sent'[b] = sent[b]
<1> DEFINE w1 == [id |-> a, status |-> s, attempt |-> 1]
<1>1. w1 \in Wake /\ w1.id = a /\ w1.status = s
  BY MaxAttemptsAssumption DEF Wake
<1>2. wakes' = wakes \cup {w1}
  BY DEF StartWake
<1>3. sent' = [sent EXCEPT ![a] = @ + 1] /\ sent \in [ApprovalIds -> Nat] /\ wakes \in SUBSET Wake
  BY DEF StartWake, TypeOK
<1> HIDE DEF w1
<1>4. QED
  BY <1>1, <1>2, <1>3

-----------------------------------------------------------------------------
(* The steps of the server *)

\* What is left to show of a step: the types of what it changes, the wakes, and
\* the watchers.
LEMMA RequestStep ==
    ASSUME AgentWakeInv, \A b \in ApprovalIds : RowKeeps(b),
           NEW a \in ApprovalIds, NEW ttl \in TTLs, Request(a, ttl)
    PROVE  AgentWakeInv'
<1>1. UNCHANGED <<now, serverVars, agentVars>> /\ row' \in [ApprovalIds -> Row]
  BY RequestEffect DEF Request, AgentWakeInv
<1>2. TypeOK'
  BY <1>1 DEF AgentWakeInv, TypeOK, serverVars, agentVars
<1>3. ASSUME NEW b \in ApprovalIds PROVE WakeSound(b)' /\ WatchSound(b)'
  BY <1>1, <1>2, WakeIdle, WakeCarries, WatchCarries DEF AgentWakeInv, TypeOK, agentVars
<1>4. QED
  BY <1>2, <1>3 DEF AgentWakeInv

\* A decision owes its wake, the first for this approval: had the expiry job
\* sent one, the approval would have expired and the UPDATE refused.
LEMMA DecideStep ==
    ASSUME AgentWakeInv, \A b \in ApprovalIds : RowKeeps(b),
           NEW a \in ApprovalIds, NEW s \in Resolutions, Decide(a, s)
    PROVE  AgentWakeInv'
<1>1. /\ row' \in [ApprovalIds -> Row]
      /\ row[a].status = "pending"
      /\ ~ExpiredPending(a)
      /\ row'[a].status = s
  BY DecideEffect DEF AgentWakeInv
<1>2. /\ owed' = owed \cup {<<a, s>>}
      /\ UNCHANGED <<now, job, dispatched, wakes, sent, received, agentVars>>
  BY DEF Decide
<1>3. TypeOK'
  BY <1>1, <1>2 DEF AgentWakeInv, TypeOK, agentVars
<1>4. ASSUME NEW b \in ApprovalIds PROVE WatchSound(b)'
  BY <1>2, WatchCarries DEF AgentWakeInv, agentVars
<1>5. WakeSound(a)'
  <2>1. WakeSound(a) /\ RowKeeps(a)
    BY DEF AgentWakeInv
  <2>2. sent[a] = 0 /\ a \notin job \cup dispatched
    BY <2>1, <1>1 DEF WakeSound
  <2>3. \A t \in Statuses : ~Holds(a, t)
    BY <1>1 DEF Holds, Resolutions
  <2>4. /\ \A t \in Statuses : <<a, t>> \notin received
        /\ \A w \in wakes : w.id # a
        /\ \A t \in Resolutions : <<a, t>> \notin owed
    <3>1. \A w \in wakes : w.status \in Statuses
      BY DEF AgentWakeInv, TypeOK, Wake
    <3>2. QED
      BY <3>1, <2>1, <2>3, <1>1 DEF WakeSound, Resolutions
  <2>5. QED
    BY <2>2, <2>4, <1>1, <1>2 DEF WakeSound
<1>6. ASSUME NEW b \in ApprovalIds, b # a PROVE WakeSound(b)'
  <2>1. WakeAfter(b)
    BY <1>2, <1>6 DEF AgentWakeInv, WakeSound, WakeAfter
  <2>2. QED
    BY <2>1, <1>3, WakeCarries DEF AgentWakeInv, TypeOK
<1>7. QED
  BY <1>3, <1>4, <1>5, <1>6 DEF AgentWakeInv

\* The steps of the push layer leave the table and the agent alone.
LEMMA PushStep ==
    ASSUME AgentWakeInv, UNCHANGED <<now, row, agentVars>>,
           /\ owed' \in SUBSET (ApprovalIds \X Resolutions)
           /\ job' \in SUBSET ApprovalIds
           /\ dispatched' \in SUBSET ApprovalIds
           /\ wakes' \in SUBSET Wake
           /\ sent' \in [ApprovalIds -> Nat]
           /\ received' \in SUBSET (ApprovalIds \X Statuses),
           \A a \in ApprovalIds : RowKeeps(a) /\ WakeAfter(a)
    PROVE  AgentWakeInv'
<1>1. TypeOK'
  BY DEF AgentWakeInv, TypeOK, agentVars
<1>2. ASSUME NEW a \in ApprovalIds PROVE WakeSound(a)' /\ WatchSound(a)'
  BY <1>1, WakeCarries, WatchCarries DEF AgentWakeInv, TypeOK, agentVars
<1>3. QED
  BY <1>1, <1>2 DEF AgentWakeInv

\* A handler that has one wake to send sends it, and owes no other.
LEMMA NotifyStep ==
    ASSUME AgentWakeInv, \A b \in ApprovalIds : RowKeeps(b),
           NEW a \in ApprovalIds, NEW s \in Resolutions, NotifyDecision(a, s)
    PROVE  AgentWakeInv'
<1>1. /\ <<a, s>> \in owed
      /\ owed' = owed \ {<<a, s>>}
      /\ StartWake(a, s)
      /\ UNCHANGED <<now, row, job, dispatched, received, agentVars>>
  BY DEF NotifyDecision
<1>2. s \in Statuses
  BY DEF Statuses
<1>3. /\ wakes' \in SUBSET Wake
      /\ \A w \in wakes' : w \in wakes \/ (w.id = a /\ w.status = s)
      /\ sent' \in [ApprovalIds -> Nat]
      /\ sent'[a] = sent[a] + 1
      /\ \A b \in ApprovalIds \ {a} : sent'[b] = sent[b]
  BY <1>1, <1>2, StartWakeEffect DEF AgentWakeInv
<1>4. row[a].status = s /\ sent[a] = 0
  BY <1>1 DEF AgentWakeInv, WakeSound
<1>5. WakeAfter(a)
  <2>1. Holds(a, s) /\ row[a].status # "absent" /\ row[a].status # "pending"
    BY <1>4 DEF Holds, Resolutions
  <2>2. \A t \in Resolutions : <<a, t>> \notin owed'
    BY <1>1, <1>4 DEF AgentWakeInv, WakeSound
  <2>3. sent'[a] = 1
    BY <1>3, <1>4
  <2>4. QED
    BY <2>1, <2>2, <2>3, <1>1, <1>3 DEF AgentWakeInv, WakeSound, WakeAfter
<1>6. ASSUME NEW b \in ApprovalIds, b # a PROVE WakeAfter(b)
  BY <1>1, <1>3, <1>6 DEF AgentWakeInv, WakeSound, WakeAfter
<1>7. QED
  BY <1>1, <1>3, <1>5, <1>6, PushStep DEF AgentWakeInv, TypeOK

\* The job takes up approvals that have expired.
LEMMA ListExpiredStep ==
    ASSUME AgentWakeInv, \A b \in ApprovalIds : RowKeeps(b), ListExpired
    PROVE  AgentWakeInv'
<1>1. /\ job' \subseteq {a \in ApprovalIds : ExpiredPending(a)}
      /\ UNCHANGED <<now, row, owed, dispatched, wakes, sent, received, agentVars>>
  BY DEF ListExpired
<1>2. ASSUME NEW a \in ApprovalIds PROVE WakeAfter(a)
  BY <1>1 DEF AgentWakeInv, WakeSound, WakeAfter
<1>3. QED
  BY <1>1, <1>2, PushStep DEF AgentWakeInv, TypeOK

\* The job wakes the agent for an approval it has not dispatched: one still
\* pending, so that no handler has sent a wake for it.
LEMMA ExpiryWakeStep ==
    ASSUME AgentWakeInv, \A b \in ApprovalIds : RowKeeps(b),
           NEW a \in ApprovalIds, ExpiryWake(a)
    PROVE  AgentWakeInv'
<1>1. /\ a \in job
      /\ job' = job \ {a}
      /\ dispatched' = dispatched \cup {a}
      /\ UNCHANGED <<now, row, owed, received, agentVars>>
      /\ \/ UNCHANGED <<wakes, sent>>
         \/ a \notin dispatched /\ StartWake(a, ResolvedStatus(a))
  BY DEF ExpiryWake
<1>2. ExpiredPending(a) /\ row[a].status = "pending"
  BY <1>1 DEF AgentWakeInv, WakeSound, ExpiredPending
<1>3. CASE UNCHANGED <<wakes, sent>>
  <2>1. ASSUME NEW b \in ApprovalIds PROVE WakeAfter(b)
    BY <1>1, <1>2, <1>3 DEF AgentWakeInv, WakeSound, WakeAfter
  <2>2. QED
    BY <1>1, <1>3, <2>1, PushStep DEF AgentWakeInv, TypeOK
<1>4. CASE a \notin dispatched /\ StartWake(a, ResolvedStatus(a))
  <2>1. ResolvedStatus(a) \in Statuses /\ Holds(a, ResolvedStatus(a))
    BY <1>2, ResolvedStatusType DEF AgentWakeInv
  <2>2. /\ wakes' \in SUBSET Wake
        /\ \A w \in wakes' : w \in wakes \/ (w.id = a /\ w.status = ResolvedStatus(a))
        /\ sent' \in [ApprovalIds -> Nat]
        /\ sent'[a] = sent[a] + 1
        /\ \A b \in ApprovalIds \ {a} : sent'[b] = sent[b]
    BY <1>4, <2>1, StartWakeEffect DEF AgentWakeInv
  <2>3. /\ sent[a] = 0
        /\ \A t \in Resolutions : <<a, t>> \notin owed
    BY <1>2, <1>4 DEF AgentWakeInv, WakeSound, Resolutions
  <2>4. WakeAfter(a)
    BY <1>1, <1>2, <2>1, <2>2, <2>3 DEF AgentWakeInv, WakeSound, WakeAfter
  <2>5. ASSUME NEW b \in ApprovalIds, b # a PROVE WakeAfter(b)
    BY <1>1, <2>2, <2>5 DEF AgentWakeInv, WakeSound, WakeAfter
  <2>6. QED
    BY <1>1, <2>2, <2>4, <2>5, PushStep DEF AgentWakeInv, TypeOK
<1>5. QED
  BY <1>1, <1>3, <1>4

\* A delivery that ends, is retried or arrives says what it said before.
LEMMA PostStep ==
    ASSUME AgentWakeInv, \A b \in ApprovalIds : RowKeeps(b),
           NEW w \in wakes, Post(w) \/ DropWake(w)
    PROVE  AgentWakeInv'
<1>1. w \in Wake
  BY DEF AgentWakeInv, TypeOK
<1>2. w.attempt # MaxAttempts =>
        /\ [w EXCEPT !.attempt = @ + 1] \in Wake
        /\ [w EXCEPT !.attempt = @ + 1].id = w.id
        /\ [w EXCEPT !.attempt = @ + 1].status = w.status
  BY <1>1, MaxAttemptsAssumption DEF Wake
<1>3. /\ UNCHANGED <<now, row, owed, job, dispatched, sent, agentVars>>
      /\ received' \in {received, received \cup {<<w.id, w.status>>}}
      /\ \/ wakes' = wakes \ {w}
         \/ /\ w.attempt # MaxAttempts
            /\ wakes' = (wakes \ {w}) \cup {[w EXCEPT !.attempt = @ + 1]}
  BY DEF Post, DropWake
<1>4. /\ wakes' \in SUBSET Wake
      /\ \A v \in wakes' : v \in wakes \/ (v.id = w.id /\ v.status = w.status)
  BY <1>2, <1>3 DEF AgentWakeInv, TypeOK
<1>5. w.id \in ApprovalIds /\ w.status \in Statuses
  BY <1>1 DEF Wake
<1>6. Holds(w.id, w.status)
  BY <1>5 DEF AgentWakeInv, WakeSound
<1>7. ASSUME NEW a \in ApprovalIds PROVE WakeAfter(a)
  <2>1. /\ \A s \in Statuses : <<a, s>> \in received' => Holds(a, s)
        /\ \A v \in wakes' : v.id = a => Holds(a, v.status)
    BY <1>3, <1>4, <1>5, <1>6 DEF AgentWakeInv, WakeSound
  <2>2. QED
    BY <2>1, <1>3 DEF AgentWakeInv, WakeSound, WakeAfter
<1>8. received' \in SUBSET (ApprovalIds \X Statuses)
  BY <1>3, <1>5 DEF AgentWakeInv, TypeOK
<1>9. QED
  BY <1>3, <1>4, <1>7, <1>8, PushStep DEF AgentWakeInv, TypeOK

\* A restart forgets what was owed, marked, under way and counted, together.
LEMMA CrashStep ==
    ASSUME AgentWakeInv, \A b \in ApprovalIds : RowKeeps(b), Crash
    PROVE  AgentWakeInv'
<1>1. /\ owed' = {} /\ job' = {} /\ dispatched' = {} /\ wakes' = {}
      /\ sent' = [a \in ApprovalIds |-> 0]
      /\ UNCHANGED <<now, row, received, agentVars>>
  BY DEF Crash
<1>2. ASSUME NEW a \in ApprovalIds PROVE WakeAfter(a)
  BY <1>1 DEF AgentWakeInv, WakeSound, WakeAfter
<1>3. QED
  BY <1>1, <1>2, PushStep DEF AgentWakeInv, TypeOK

-----------------------------------------------------------------------------
(* The steps of the agent *)

\* A sweep lists approvals that exist.
LEMMA SweepStep ==
    ASSUME AgentWakeInv, \A b \in ApprovalIds : RowKeeps(b), NEW mode, Sweep(mode)
    PROVE  AgentWakeInv'
<1>1. /\ swept' = swept \cup Swept(Since(mode))
      /\ lastBeat' = now
      /\ UNCHANGED <<now, row, serverVars, watcher, notified>>
  BY DEF Sweep
<1>2. \A a \in ApprovalIds : row[a].status # "absent" => ResolvedStatus(a) \in Statuses
  BY ResolvedStatusType DEF AgentWakeInv
<1>3. Swept(Since(mode)) \subseteq ApprovalIds \X Statuses
  BY <1>2 DEF Swept, ExpiredPending, Resolutions
<1>4. TypeOK'
  BY <1>1, <1>3 DEF AgentWakeInv, TypeOK, serverVars
<1>5. ASSUME NEW a \in ApprovalIds PROVE WakeSound(a)' /\ WatchSound(a)'
  BY <1>1, <1>4, WakeIdle, WakeCarries, WatchCarries DEF AgentWakeInv, TypeOK
<1>6. QED
  BY <1>4, <1>5 DEF AgentWakeInv

\* The steps of the watchers leave the table and the server alone.
LEMMA WatcherStep ==
    ASSUME AgentWakeInv, \A b \in ApprovalIds : RowKeeps(b),
           UNCHANGED <<now, row, serverVars, lastBeat, swept>>,
           NEW a \in ApprovalIds, NEW x \in Watcher, watcher' = [watcher EXCEPT ![a] = x],
           row[a].status # "absent", x.pc = "judge" => x.seen # "none",
           notified' \in SUBSET (ApprovalIds \X Answers)
    PROVE  AgentWakeInv'
<1>1. watcher \in [ApprovalIds -> Watcher]
  BY DEF AgentWakeInv, TypeOK
<1>2. /\ watcher' \in [ApprovalIds -> Watcher]
      /\ watcher'[a] = x
      /\ \A b \in ApprovalIds \ {a} : watcher'[b] = watcher[b]
  BY <1>1
<1>3. TypeOK'
  BY <1>2 DEF AgentWakeInv, TypeOK, serverVars
<1>4. ASSUME NEW b \in ApprovalIds PROVE WakeSound(b)'
  BY <1>3, WakeIdle, WakeCarries DEF AgentWakeInv, TypeOK
<1>5. ASSUME NEW b \in ApprovalIds PROVE WatchSound(b)'
  BY <1>2 DEF AgentWakeInv, WatchSound
<1>6. QED
  BY <1>3, <1>4, <1>5 DEF AgentWakeInv

\* A watcher starts, polls and judges.
LEMMA WatchSteps ==
    ASSUME AgentWakeInv, \A b \in ApprovalIds : RowKeeps(b),
           NEW a \in ApprovalIds, WatchStart(a) \/ WatchStep(a)
    PROVE  AgentWakeInv'
<1>1. watcher[a] \in Watcher /\ WatchSound(a)
  BY DEF AgentWakeInv, TypeOK
<1>2. ASSUME NEW pc \in {"poll", "done"}
      PROVE  /\ [watcher[a] EXCEPT !.pc = pc] \in Watcher
             /\ [watcher[a] EXCEPT !.pc = pc].pc # "judge"
  BY <1>1 DEF Watcher
<1>3. UNCHANGED <<now, row, serverVars, lastBeat, swept>>
  BY DEF WatchStart, WatchStep, WatchPoll, WatchJudge
<1>4. /\ notified \in SUBSET (ApprovalIds \X Answers)
      /\ now \in Nat /\ row[a] \in Row
  BY DEF AgentWakeInv, TypeOK
<1>5. CASE WatchStart(a)
  <2>1. PICK until \in {row[a].expires, now + Fallback} :
           watcher' = [watcher EXCEPT ![a].pc = "poll", ![a].until = until]
    BY <1>5 DEF WatchStart
  <2>2. until \in Nat
    BY <1>4, LifetimeAssumption DEF Row
  <2> DEFINE x == [watcher[a] EXCEPT !.pc = "poll", !.until = until]
  <2>3. x \in Watcher /\ x.pc # "judge"
    BY <1>1, <2>2 DEF Watcher
  <2>4. watcher' = [watcher EXCEPT ![a] = x] /\ row[a].status # "absent" /\ notified' = notified
    BY <1>5, <2>1 DEF WatchStart
  <2> HIDE DEF x
  <2>5. QED
    BY <2>3, <2>4, <1>3, <1>4, WatcherStep
<1>6. CASE WatchPoll(a)
  <2>1. row[a].status # "absent"
    BY <1>1, <1>6 DEF WatchPoll, WatchSound
  <2>2. PICK seen \in {ResolvedStatus(a), "error", "not_found"}, until \in {row[a].expires, watcher[a].until} :
          watcher' = [watcher EXCEPT ![a] = [pc |-> "judge", seen |-> seen, until |-> until]]
    BY <1>6 DEF WatchPoll
  <2>3. seen \in Answers /\ seen # "none" /\ until \in Nat
    BY <1>1, <1>4, <2>1, ResolvedStatusType DEF AgentWakeInv, Answers, Statuses, Resolutions, Watcher, Row
  <2> DEFINE x == [pc |-> "judge", seen |-> seen, until |-> until]
  <2>4. x \in Watcher /\ x.seen # "none"
    BY <2>3 DEF Watcher
  <2>5. watcher' = [watcher EXCEPT ![a] = x] /\ notified' = notified
    BY <2>2, <1>6 DEF WatchPoll
  <2> HIDE DEF x
  <2>6. QED
    BY <2>1, <2>4, <2>5, <1>3, <1>4, WatcherStep
<1>7. CASE WatchJudge(a)
  <2>1. watcher[a].pc = "judge"
    BY <1>7 DEF WatchJudge
  <2>2. row[a].status # "absent" /\ watcher[a].seen \in Answers
    BY <2>1, <1>1 DEF WatchSound, Watcher
  <2>3. PICK pc \in {"poll", "done"} :
          /\ watcher' = [watcher EXCEPT ![a].pc = pc]
          /\ \/ notified' = notified
             \/ notified' = notified \cup {<<a, "expired">>}
             \/ /\ watcher[a].seen \notin {"pending", "error"}
                /\ notified' = notified \cup {<<a, watcher[a].seen>>}
    BY <1>7 DEF WatchJudge
  <2>4. notified' \in SUBSET (ApprovalIds \X Answers)
    BY <2>2, <2>3, <1>4 DEF Answers, Statuses
  <2> DEFINE x == [watcher[a] EXCEPT !.pc = pc]
  <2>5. x \in Watcher /\ x.pc # "judge"
    BY <1>2
  <2>6. watcher' = [watcher EXCEPT ![a] = x]
    BY <2>3
  <2> HIDE DEF x
  <2>7. QED
    BY <2>2, <2>4, <2>5, <2>6, <1>3, WatcherStep
<1>8. QED
  BY <1>5, <1>6, <1>7 DEF WatchStep

\* The clock, and a step of no one.
LEMMA TickStep ==
    ASSUME AgentWakeInv, \A b \in ApprovalIds : RowKeeps(b), now' \in Nat,
           UNCHANGED <<row, serverVars, agentVars>>
    PROVE  AgentWakeInv'
<1>1. TypeOK'
  BY DEF AgentWakeInv, TypeOK, serverVars, agentVars
<1>2. ASSUME NEW a \in ApprovalIds PROVE WakeSound(a)' /\ WatchSound(a)'
  BY <1>1, WakeIdle, WakeCarries, WatchCarries DEF AgentWakeInv, TypeOK, agentVars
<1>3. QED
  BY <1>1, <1>2 DEF AgentWakeInv

LEMMA AgentWakeInit == Init => AgentWakeInv
<1> SUFFICES ASSUME Init PROVE AgentWakeInv
  OBVIOUS
<1>1. TypeOK
  <2>1. /\ [status |-> "absent", expires |-> 0, resolved |-> 0] \in Row
        /\ [pc |-> "off", seen |-> "none", until |-> 0] \in Watcher
    BY DEF Row, Watcher
  <2>2. QED
    BY <2>1 DEF Init, NothingYet, TypeOK
<1>2. ASSUME NEW a \in ApprovalIds PROVE WakeSound(a) /\ WatchSound(a)
  BY DEF Init, NothingYet, WakeSound, WatchSound
<1>3. QED
  BY <1>1, <1>2 DEF AgentWakeInv

LEMMA AgentWakeNext == AgentWakeInv /\ [Next]_vars => AgentWakeInv'
<1> SUFFICES ASSUME AgentWakeInv, [Next]_vars PROVE AgentWakeInv'
  OBVIOUS
<1>1. now' \in Nat /\ \A a \in ApprovalIds : RowKeeps(a)
  BY TableStep DEF AgentWakeInv
<1>2. CASE UNCHANGED vars
  BY <1>2, <1>1, TickStep DEF vars
<1>3. CASE \E a \in ApprovalIds, ttl \in TTLs : Request(a, ttl)
  BY <1>3, <1>1, RequestStep
<1>4. CASE \E a \in ApprovalIds, s \in Resolutions : Decide(a, s)
  BY <1>4, <1>1, DecideStep
<1>5. CASE ListExpired
  BY <1>5, <1>1, ListExpiredStep
<1>6. CASE \E a \in ApprovalIds : ExpiryWake(a) \/ Deliver(a)
  BY <1>6, <1>1, ExpiryWakeStep, NotifyStep, PostStep DEF Deliver
<1>7. CASE \E w \in wakes : DropWake(w)
  BY <1>7, <1>1, PostStep
<1>8. CASE \E mode \in SinceModes : Sweep(mode)
  BY <1>8, <1>1, SweepStep
<1>9. CASE \E a \in ApprovalIds : WatchStart(a) \/ WatchStep(a)
  BY <1>9, <1>1, WatchSteps
<1>10. CASE Tick
  BY <1>10, <1>1, TickStep DEF Tick
<1>11. CASE Crash
  BY <1>11, <1>1, CrashStep
<1>12. QED
  BY <1>2, <1>3, <1>4, <1>5, <1>6, <1>7, <1>8, <1>9, <1>10, <1>11 DEF Next

LEMMA AgentWakeInvariant == Spec => []AgentWakeInv
BY AgentWakeInit, AgentWakeNext, PTL DEF Spec

\* Every variable of the three layers keeps its type; that a wake, a sweep or a
\* watcher never carries the status of a row that does not exist is part of it.
THEOREM TypeCorrect == Spec => []TypeOK
<1>1. AgentWakeInv => TypeOK
  BY DEF AgentWakeInv
<1>2. QED
  BY <1>1, AgentWakeInvariant, PTL

\* A wake never contradicts the table, whatever crashed, was lost or was
\* delivered late (NotifyAgentApprovalResolvedSync, runApprovalExpiryWake).
THEOREM PushIsTrue == Spec => []PushTellsTruth
<1>1. AgentWakeInv => PushTellsTruth
  <2>1. ASSUME AgentWakeInv, NEW a \in ApprovalIds, NEW s \in Statuses, <<a, s>> \in received
        PROVE  Holds(a, s)
    BY <2>1 DEF AgentWakeInv, WakeSound
  <2>2. Resolutions \subseteq Statuses /\ "expired" \in Statuses /\ "expired" \notin Resolutions
    BY DEF Statuses, Resolutions
  <2>3. QED
    BY <2>1, <2>2 DEF Holds, PushTellsTruth
<1>2. QED
  BY <1>1, AgentWakeInvariant, PTL

\* Handlers and the expiry job start one wake per approval and process life
\* (expiryWakeDispatched).
THEOREM WakesOnce == Spec => []OneWakePerApproval
<1>1. AgentWakeInv => OneWakePerApproval
  BY DEF AgentWakeInv, WakeSound, OneWakePerApproval
<1>2. QED
  BY <1>1, AgentWakeInvariant, PTL

-----------------------------------------------------------------------------
(* The heartbeat *)

\* An instant a second or more after another falls in a later second.
LEMMA LaterSecond ==
    ASSUME NEW s \in Int, NEW t \in Int, s + TicksPerSecond <= t, s % TicksPerSecond = 0
    PROVE  Datetime(t) > Datetime(s)
<1> DEFINE n == TicksPerSecond
<1>1. n \in Nat /\ n > 0
  BY TicksPerSecondAssumption
<1>2. /\ s \div n \in Int
      /\ t \div n \in Int
      /\ s = n * (s \div n) + (s % n)
      /\ t = n * (t \div n) + (t % n)
      /\ t % n \in 0..(n-1)
  BY <1>1
<1>3. SUFFICES ASSUME t \div n <= s \div n PROVE FALSE
  BY <1>2 DEF Datetime
<1>4. n * (t \div n) <= n * (s \div n)
  BY <1>1, <1>2, <1>3
<1>5. QED
  BY <1>1, <1>2, <1>4

\* The default window of a heartbeat in time holds everything that was decided
\* since the one before, whichever way the text of its bound sorts.
LEMMA WindowReaches ==
    ASSUME TypeOK, NEW t \in Nat, lastBeat <= t, now - lastBeat <= Heartbeat
    PROVE  StampAtLeast(t, Since("window"))
<1> DEFINE since == now - Window
<1>1. /\ now \in Nat /\ lastBeat \in Nat /\ Heartbeat \in Nat /\ Window \in Nat
      /\ TicksPerSecond \in Nat \ {0}
      /\ Heartbeat + TicksPerSecond <= Window
  BY HeartbeatAssumption, TicksPerSecondAssumption DEF TypeOK
<1>2. since \in Int /\ since + TicksPerSecond <= t /\ t >= since
  BY <1>1
<1>3. Since("window") = since
  BY DEF Since
<1> HIDE DEF since
<1>4. since % TicksPerSecond = 0 => Datetime(t) > Datetime(since)
  BY <1>1, <1>2, LaterSecond
<1>5. QED
  BY <1>2, <1>3, <1>4 DEF StampAtLeast

\* A sweep in time reports every decision since the one before.
LEMMA SweepReports ==
    ASSUME TypeOK, BeatSound, Sweep("window"), NEW a \in ApprovalIds,
           row[a].status \in Resolutions, lastBeat <= row[a].resolved
    PROVE  <<a, row[a].status>> \in swept'
<1>1. row[a].resolved \in Nat
  BY DEF TypeOK, Row
<1>2. now - lastBeat <= Heartbeat
  BY DEF BeatSound, Sweep
<1>3. StampAtLeast(row[a].resolved, Since("window"))
  BY <1>1, <1>2, WindowReaches
<1>4. ResolvedStatus(a) = row[a].status /\ row[a].status # "pending"
  BY DEF ResolvedStatus, Resolutions
<1>5. <<a, row[a].status>> \in Swept(Since("window"))
  BY <1>3, <1>4 DEF Swept
<1>6. QED
  BY <1>5 DEF Sweep

\* Time, heartbeats and decisions advance together.
LEMMA BeatNext ==
    ASSUME TypeOK, BeatSound, [Next]_vars
    PROVE  BeatSound'
<1>1. /\ now \in Nat /\ now' \in Nat /\ now <= now' /\ lastBeat \in Nat /\ Heartbeat \in Nat
      /\ row \in [ApprovalIds -> Row] /\ row' \in [ApprovalIds -> Row]
      /\ \A a \in ApprovalIds : RowKeeps(a)
  BY TableStep, HeartbeatAssumption DEF TypeOK
<1>2. \/ UNCHANGED <<now, lastBeat>>
      \/ lastBeat' = now /\ now' = now
      \/ /\ now' = now + 1 /\ lastBeat' = lastBeat
         /\ "sweep" \in Layers => now - lastBeat < Heartbeat
  BY DEF Next, vars, agentVars, serverVars, Request, Decide, ListExpired, ExpiryWake, Deliver, NotifyDecision,
         Post, DropWake, Sweep, WatchStart, WatchStep, WatchPoll, WatchJudge, Crash, Tick
<1>3. lastBeat' <= now' /\ ("sweep" \in Layers => now' - lastBeat' <= Heartbeat)
  BY <1>1, <1>2 DEF BeatSound
<1>4. ASSUME NEW a \in ApprovalIds, row'[a].status \in Resolutions PROVE row'[a].resolved <= now'
  <2>1. CASE row[a].status \in Resolutions
    <3>1. row'[a] = row[a] /\ row[a].resolved \in Nat /\ row[a].resolved <= now
      BY <2>1, <1>1 DEF RowKeeps, BeatSound, Row
    <3>2. QED
      BY <3>1, <1>1
  <2>2. CASE row[a].status \notin Resolutions
    <3>1. row'[a] # row[a]
      BY <2>2, <1>4
    <3>2. CASE \E b \in ApprovalIds, ttl \in TTLs : Request(b, ttl)
      <4>1. PICK b \in ApprovalIds, ttl \in TTLs : Request(b, ttl)
        BY <3>2
      <4>2. row'[b].status = "pending" /\ \A c \in ApprovalIds \ {b} : row'[c] = row[c]
        BY <4>1, RequestEffect
      <4>3. QED
        BY <4>2, <3>1, <1>4 DEF Resolutions
    <3>3. CASE \E b \in ApprovalIds, s \in Resolutions : Decide(b, s)
      <4>1. PICK b \in ApprovalIds, s \in Resolutions : Decide(b, s)
        BY <3>3
      <4>2. row'[b].resolved = now /\ \A c \in ApprovalIds \ {b} : row'[c] = row[c]
        BY <4>1, DecideEffect
      <4>3. QED
        BY <4>2, <3>1, <1>1
    <3>4. \/ row' = row
          \/ \E b \in ApprovalIds, ttl \in TTLs : Request(b, ttl)
          \/ \E b \in ApprovalIds, s \in Resolutions : Decide(b, s)
      BY DEF Next, vars, ListExpired, ExpiryWake, Deliver, NotifyDecision, Post, DropWake,
             Sweep, WatchStart, WatchStep, WatchPoll, WatchJudge, Crash, Tick
    <3>5. QED
      BY <3>1, <3>2, <3>3, <3>4
  <2>3. QED
    BY <2>1, <2>2
<1>5. QED
  BY <1>3, <1>4 DEF BeatSound

\* A decision is reported by the first sweep after it, and stays reported.
LEMMA CatchNext ==
    ASSUME SinceModes = {"window"}, TypeOK, BeatSound, SweepCatchesDecisions, [Next]_vars
    PROVE  SweepCatchesDecisions'
<1>1. /\ now \in Nat /\ lastBeat \in Nat
      /\ row \in [ApprovalIds -> Row] /\ row' \in [ApprovalIds -> Row]
      /\ \A a \in ApprovalIds : RowKeeps(a)
  BY TableStep DEF TypeOK
<1>2. CASE Sweep("window")
  <2>1. row' = row /\ lastBeat' = now /\ swept \subseteq swept'
    BY <1>2 DEF Sweep
  <2>2. ASSUME NEW a \in ApprovalIds, row[a].status \in Resolutions
        PROVE  <<a, row[a].status>> \in swept'
    <3>1. CASE lastBeat <= row[a].resolved
      BY <3>1, <1>2, <2>2, SweepReports
    <3>2. CASE row[a].resolved < lastBeat
      BY <3>2, <2>1, <2>2 DEF SweepCatchesDecisions
    <3>3. row[a].resolved \in Nat
      BY <1>1 DEF Row
    <3>4. QED
      BY <1>1, <3>1, <3>2, <3>3
  <2>3. QED
    BY <2>1, <2>2 DEF SweepCatchesDecisions
<1>3. CASE UNCHANGED <<lastBeat, swept>>
  <2>1. ASSUME NEW a \in ApprovalIds, row'[a].status \in Resolutions, row'[a].resolved < lastBeat
        PROVE  row'[a] = row[a]
    <3>1. SUFFICES ASSUME row'[a] # row[a] PROVE FALSE
      OBVIOUS
    <3>2. \/ \E b \in ApprovalIds, ttl \in TTLs : Request(b, ttl)
          \/ \E b \in ApprovalIds, s \in Resolutions : Decide(b, s)
      BY <3>1 DEF Next, vars, ListExpired, ExpiryWake, Deliver, NotifyDecision, Post, DropWake,
             Sweep, WatchStart, WatchStep, WatchPoll, WatchJudge, Crash, Tick
    <3>3. ASSUME NEW b \in ApprovalIds, NEW ttl \in TTLs, Request(b, ttl) PROVE FALSE
      <4>1. row'[b].status = "pending" /\ \A c \in ApprovalIds \ {b} : row'[c] = row[c]
        BY <3>3, RequestEffect
      <4>2. QED
        BY <4>1, <2>1, <3>1 DEF Resolutions
    <3>4. ASSUME NEW b \in ApprovalIds, NEW s \in Resolutions, Decide(b, s) PROVE FALSE
      <4>1. row'[b].resolved = now /\ \A c \in ApprovalIds \ {b} : row'[c] = row[c]
        BY <3>4, DecideEffect
      <4>2. QED
        BY <4>1, <2>1, <3>1, <1>1 DEF BeatSound
    <3>5. QED
      BY <3>2, <3>3, <3>4
  <2>2. QED
    BY <2>1, <1>3 DEF SweepCatchesDecisions
<1>4. Sweep("window") \/ UNCHANGED <<lastBeat, swept>>
  BY DEF Next, vars, agentVars, serverVars, Request, Decide, ListExpired, ExpiryWake, Deliver, NotifyDecision,
         Post, DropWake, WatchStart, WatchStep, WatchPoll, WatchJudge, Crash, Tick
<1>5. QED
  BY <1>2, <1>3, <1>4

\* A heartbeat that sweeps the default window misses no decision, if heartbeats
\* are in time (ListAgentApprovalsForSweep).  An agent that passes its own last
\* sweep, which it knows to the second, is outside this theorem.
THEOREM SweepIsComplete ==
    ASSUME SinceModes = {"window"}
    PROVE  Spec => []SweepCatchesDecisions
<1> DEFINE Inv == TypeOK /\ BeatSound /\ SweepCatchesDecisions
<1>1. Init => Inv
  <2>1. Init => TypeOK
    BY AgentWakeInit DEF AgentWakeInv
  <2>2. Init => BeatSound /\ SweepCatchesDecisions
    BY HeartbeatAssumption DEF Init, NothingYet, BeatSound, SweepCatchesDecisions, Resolutions
  <2>3. QED
    BY <2>1, <2>2
<1>2. Inv /\ TypeOK' /\ [Next]_vars => Inv'
  BY BeatNext, CatchNext
<1>3. Inv => SweepCatchesDecisions
  OBVIOUS
<1>4. QED
  BY <1>1, <1>2, <1>3, TypeCorrect, PTL DEF Spec
=============================================================================
