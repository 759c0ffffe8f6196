# Permission Slip: TLA+ models and proofs

Permission Slip is a Go service (with a SQLite database) that stands between AI
agents and third-party APIs.  An agent asks for an action; a person approves or
denies it; the service itself calls the connector.  A *standing approval* is a
grant that lets matching actions run without a prompt.  This directory holds TLA+
specifications of the parts of the service that decide whether, and how often, an
action runs and what the agent hears about it, TLC configurations that check them
on small instances, and proofs that TLAPS checks for every value of the constants.

## 1. Inventory

### Components, their state and operations

| component (source) | state | operations | hard because |
|---|---|---|---|
| one-off approvals (`db/approvals.go`, `db/agent_approvals.go`, `api/approvals.go`, `api/agent_approvals.go`) | tables `approvals`, `request_ids` | request, approve, deny, deny all, cancel, execute, store the result, poll | several tabs, the agent's cancel and the clock race for one row; the connector call is outside any transaction; the process may die around it |
| bulk groups (`db/approval_bulk_groups.go`, `api/approvals_bulk.go`, `api/agent_approvals_bulk.go`) | `approval_bulk_groups`, the rows of a group | bulk request, bulk decide | decides from one snapshot while the rows change; writes beside its own transaction |
| denial cooldown (`db/approval_dedup.go`) | the fingerprints in `approvals` | look up a recent denial | looked up long before the insert it guards |
| standing approvals (`db/standing_approvals.go`, `api/standing_approvals.go`, `api/standing_approval_match.go`) | tables `standing_approvals`, `standing_approval_executions` | create, update, revoke, match, record, execute | matched, recorded and executed in separate steps |
| requests for standing approvals (`db/standing_approval_requests.go`, `api/*standing_approval_requests.go`) | `standing_approval_requests` | ask, approve, deny | the request is read outside the transaction that approves it |
| agent wakes (`api/agent_wake.go`, `agentwake/deliver.go`, `background_approval_expiry.go`) | the map `expiryWakeDispatched`, goroutines | notify after a decision, expiry job, retried POST | lost calls and lost answers, restarts, a bounded listing |
| heartbeat sweep (`db/agent_approvals_sweep.go`, `api/agent_approvals_sweep.go`) | none | list approvals resolved since an instant | compares timestamps as text |
| CLI watcher (`cli/src/approvals/watchLoop.ts`, `cli/src/commands/watch.ts`) | one process per approval | poll, announce | deadline against late answer |
| time in SQLite (`db/sqlite_time.go`) | none | `datetime()` in SQL, `time.Now()` in Go | two clocks of different resolution |
| agents and invites (`db/agents.go`, `db/registration_invites.go`, `api/registration.go`, `api/registration_invites.go`) | `agents`, `registration_invites` | invite, redeem, verify, register, deactivate | invites are counted and inserted without a lock; codes are counted, compared and applied in separate statements; deactivation revokes grants that are being used |
| signature replay (`api/signature_replay.go`, `db/consumed_signatures.go`, `background_consumed_signatures.go`) | `consumed_signatures` | verify, consume, clean up | the timestamp is checked before the insert; the cleanup forgets |
| connector execution, payments (`api/connector_execution.go`, `db/payment_methods.go`) | `payment_methods`, `payment_method_transactions` | check limits, call, record | limit checked before, amount recorded after the call |
| stored cards (`api/payment_methods.go`, `background_card_expiry.go`) | `payment_methods` | add, set default, delete, announce expiry | counted before a call to Stripe; several instances of the job |
| constraints (`db/constraint_*.go`, `db/data_window.go`, `db/relative_date_constraints.go`, `api/standing_approval_match.go`) | none | evaluate, narrow parameters, choose a grant | many cases; parameters are narrowed in place while candidates are tried |
| OAuth connections (`api/oauth.go`, `db/oauth_connections.go`, `oauth/store.go`, `background_oauth.go`) | `oauth_connections`, `vault_secrets` | authorize, reauthorize, disconnect, refresh, mark | job against refresh on demand against the user; rotating refresh tokens |
| rate limiting (`api/rate_limiter.go` and its middleware) | token buckets in memory | allow, allow by key, refund, evict | lazy refill, eviction, a refund that must be exact |
| approval events (`api/approval_events.go`) | subscribers in memory | publish, subscribe | bounded buffers |
| sessions, vault encryption, notifications, other jobs, connectors, front ends | see `PROJECT.json` | | I/O, cryptography, or one statement each |

### How they interact

The agent's handler first tries standing approvals (`tryStandingApprovalAutoApprove`)
and falls through to `InsertApproval`.  The approver's handlers resolve the row in
one `UPDATE`, and only the goroutine whose `UPDATE` returned the row goes on to
call the connector, store the result, write the audit event and start a wake.
Expiry is never written: a row past `expires_at` stays `pending`, and every reader
derives "expired" for itself, SQL guards with `datetime()` (whole seconds), Go code
with the full instant.  The expiry job finds rows with the first clock and names
their status with the second.  All writers share SQLite's single write lock
(`busy_timeout` 5 s); only the bulk request keeps it over several steps.

Every signed request passes the same gate: the token buckets, the signature with its
timestamp, and the insert into `consumed_signatures`.  Registration lies behind it too.
Before a standing approval is recorded its constraints are evaluated and the parameters
narrowed; before a connector is called, on either path, the card's limits are checked
and the OAuth token is refreshed if it is about to expire.

### What makes the components correct

* An action is executed at most once per approval and only if the row is approved,
  for good; the stored result is that of the call; the agent never hears two
  different endings; the audit trail agrees with the row.
* A `request_id` is consumed exactly with its row; a group's status only advances.
* A granted approval reaches the connector while the process lives.
* Wakes and sweeps agree with the table; expiries are announced; watchers end.
* A grant's executions, calls and audit events balance; a revoked grant serves no
  request that begins after the revocation and is never edited again; a denied
  request for a grant leaves none; nobody keeps the write lock.
* A signed request is honoured once; an invite admits one agent; a user has at most so
  many recent invites; a confirmation code meets at most so many guesses; an agent's
  status never goes back.
* Overspending is bounded by what can be in flight; a recorded payment was made; one
  default card; one expiry alert per card.
* The limiter admits a burst and the rate, from every instant; refusals are free for
  others; `Retry-After` is enough.
* A connection's tokens are in the vault, and the vault keeps no others.
* A request runs only under a grant whose constraints it meets, inside its data window.

The hazards behind these statements are listed, with their lines, in `PROJECT.json`.

## 2. Modules

| module | models | reads |
|---|---|---|
| `SQLiteTime` | `datetime()` and `time.Now()` comparisons; an instant is a number of ticks, `TicksPerSecond` to the second | |
| `SQLiteTimeProofs` | lemmas: the SQL clock never un-expires a row, and a row Go calls expired is expired for SQL | `SQLiteTime` |
| `ApprovalPromise` | what the approval layer promises, without handlers, clocks and tables | |
| `Approvals` | one-off approvals and bulk decisions | `SQLiteTime`; instantiates `ApprovalPromise` |
| `ApprovalsProofs` | its inductive invariant, the safety theorems, finality, and the theorem that `Approvals` implements `ApprovalPromise` | `Approvals`, `SQLiteTimeProofs` |
| `AgentWake` | push, sweep and watch | `SQLiteTime` |
| `AgentWakeProofs` | what wakes and sweeps tell the agent | `AgentWake`, `SQLiteTimeProofs` |
| `StandingApprovals` | grants, requests for them, and what runs under them | `SQLiteTime` |
| `StandingApprovalsProofs` | its inductive invariant and safety theorems | `StandingApprovals` |
| `SignatureReplay` | the replay check of signed requests and its cleanup job | `SQLiteTime` |
| `Registration` | invites, redeeming, confirmation codes, registration, deactivation; its handlers take the steps of `SignatureReplay` | `SignatureReplay` |
| `RegistrationProofs` | no replay, that registration uses the replay check as specified, and the safety theorems | `Registration`, `SQLiteTimeProofs` |
| `Payments` | spending limits around the connector call | |
| `StoredCards` | the user's cards and the expiry job | |
| `RateLimiter` | the token buckets | |
| `RateLimiterProofs` | the account of tokens and its theorems | `RateLimiter` |
| `OAuthConnections` | connections, their secrets in the vault, the goroutines that refresh them | |
| `Matching` | evaluation of constraints, data windows and relative dates, and the choice of a candidate | |
| `ExecutionProofs` | sums over finite sets, and the safety theorems of payments, cards and connections | `Payments`, `StoredCards`, `OAuthConnections` |
| `MatchingProofs` | a match is justified and its window kept | `Matching` |
| `MCApprovals`, `MCStandingSettings`, `MCServices`, `MCProgress` | the instances of the passing runs | each instantiates what it puts together |
| `MCAgentWake`, `MCStandingApprovals`, `MCMatching` | the instances of the violation runs | |

### Approvals

`approvals` and `requestIds` are the two tables.  `handler` holds the approver-side
goroutines (and the agent's cancels) by the place they have reached: `approved`
(committed, confirmation code to be made), `execute`, `persist`, `audit`, `notify`,
and `bulk` (between two items of a decision list).  `draft` holds the agent's request
goroutines between the cooldown lookup and the insert, and between the insert and
the announcement.  `calls` and `outcome` are what the external service saw; `audit`
and `told` are what the audit table and the agent were given.

Each transaction is one action: `Approve`, `DenyApproval`, `CancelApproval`, `DenyAll`, `InsertApproval`,
`BulkRequest`, `DecideItem`, `PersistResult`.  Early returns that write nothing (404, 409,
410, a recently denied action) are the negated guards; those in the middle of a
handler are actions of their own (`RefuseRequest`, the failing half of
`ConfirmationCode`).  `Crash` loses every goroutine and keeps the tables.  One agent and
one approver are modelled, because every query is scoped to them.

### AgentWake

`row` is the approvals table, reduced to the columns the three layers read.  `owed`
is the decision whose handler has yet to notify, `job` the listing of the running
expiry job, `dispatched` the in-memory map, `wakes` the delivery goroutines with their
attempt number, `received`, `swept` and `notified` what the agent learnt by each layer.
`StampAtLeast` and `DatetimeAtLeast` model the text comparisons of the sweep by what
they do: RFC3339Nano drops an empty fraction, and `datetime()` writes a blank where
RFC3339 writes `T`.  A watcher that
could not learn when its approval expires waits for `Fallback` (24 h); every answer of the server
tells it the expiry, and a 404 ends it.  `Layers` switches the layers off and on, since they only share the table.

### StandingApprovals

`sas` and `requests` are the tables; `ledger` counts, per grant and `request_id`, the
rows of `standing_approval_executions`, the connector calls and the audit events.
`job` holds the goroutines that run actions (`find`, `record`, `insert`, `call`, `audit`,
`submit`; `begin` and `commit` for a bulk request) and `editor` those that change grants
with a read and a later write (`UpdateRead`/`UpdateCommit`, `ApproveRead`/`ApproveCommit`).
Constraints are the set of parameters they admit.  `writer` is the bulk handler that
holds SQLite's write lock: every other writer waits for it, and gives up with
SQLITE_BUSY (`RecordBusy`).  `gone` and `origin` are history variables inside records.

### SignatureReplay and Registration

A server goroutine is `verified` once the signature and its timestamp were found good, at
the instant `at`, and `admitted` once the row is inserted; the insert may come up to
`SigTimeout` later.  `Cleanup` deletes the expired rows.  Copies of a request may arrive at
any time, and `honoured` counts those that got past the check.  `Registration` extends
this: `Receive`, `Admit` and `Reject` are the steps of the check, `Redeem` the transaction of
`handleRegisterAgent`, `CountAttempt`, `Compare` and `RegisterVerified` the three statements
of a verification, and `creator` the transactions that create invites.  These count first
and insert later; on SQLite nothing locks, and what keeps the count true is that a
transaction whose snapshot has been written past (`outdated`) cannot become a writer.
A code is right or wrong; what makes one right is left out.

### Payments and StoredCards

`ReadCard`, `CheckMonth`, `Call` and `Record` are the steps of `executeConnectorAction`, with the
user editing and deleting cards between them; `cap` remembers the largest limit a card
was checked against.  `StoredCards` has the other half of `payment_methods`: `CountCards` and
`AddCard` (the count is not repeated in the transaction), defaults, deletion, and the job's
`ListExpiring`, `Claim` and `Alert`.  `IndexAllows` is the unique index on default cards: a
statement that would leave two fails.  The code clears the old default first, so the index
never has to act, and the theorem does not rest on it.

### RateLimiter

Each method holds the limiter's mutex and is one action.  Tokens are counted in
fractions (`TokenCost` to the token) so that rates are whole numbers; Go's floating point
rounding is left out.  `admitted`, `total` and `watched` count admissions from an arbitrary
instant (`Watch`), `lifetime` from the start, and `promised` is the time of the last
`Retry-After`.

### OAuthConnections

`conns` and `secrets` are the tables; vault ids are handed out in order, and so are refresh
tokens, of which the provider accepts those in `good`.  Each of its answers may or may not carry
a new refresh token (`ProviderAccepts`), and what is stored depends on that answer alone
(`Rotated`).  A refresher loads the row, reads its token, asks, and stores in a transaction that
begins with a write (`Store`); deleting the old secrets may fail, which is logged and no more.  A
refusal is followed by a second look (`Reload`) before the row is marked (`Flip`).  On demand and
in the background the steps are the same.  Two history variables say what the properties are
about: `raced` that a refresh has overwritten what another had stored since it read the row,
`undeleted` what the vault refused to delete.

### Matching

One request against an ordered list of candidates, in the order of the query.  A
candidate is of one of the document forms (`none`, flat, structured v2); a value is a set
of elements, an array or not; a pattern is the set it matches.  `FieldHolds` is the evaluation
with its early returns, `Filled` the parameters of the schema a group does not mention,
`Windowed` and `DatesFail` what narrows or refuses the span of data asked for.  The span is
narrowed in place, so what one candidate did is still there for the next: `span` is a
variable, not a local.  A bound has the role "lower" or "upper": the third role of the
code, "exact", is never assigned (`RelativeDateBoundRoleForToken`, `db/relative_date.go`).

## 3. Runs

Every passing run is listed with its instance; `Faults` names the failures the
environment may produce in it.

| run | instance | checks |
|---|---|---|
| `approvals` | half-second ticks, lifetime 1 s, a cooldown of 1 s, in two settings: 2 approvals under 2 approver goroutines with `crash`, `persist`, `confirm`; and the same with one bulk group and one goroutine that decides singly and in lists of 2 | `TypeOK`, `ExecutesAtMostOnce`, `OnlyApprovedExecutes`, `RecordedResultIsReal`, `ToldOneTerminalStatus`, `AuditAgreesWithRow`, `RequestIdsMatchRows`, `CheckedCooldownHolds`, `ResolutionIsFinal`, `GroupOnlyProgresses`, and the refinement `KeepsPromise` |
| `standing` | one grant, 2 goroutines, an editor, in two settings: "granting", 1 request for a grant, grants of either scope whose constraints admit the request or nothing, bulk requests of 2 items, `metadata`, `audit`, one goroutine at work at a time; and "running", 2 goroutines on one request_id, by hand too, with expiry, `metadata`, `crash` | `TypeOK`, `LedgerBalances`, `RevocationStopsNewRequests`, `DecisionMatchesGrants`, `RevokedIsFrozen` |
| `services` | components that share no state; a behaviour exercises one of them (`subject`) and leaves the others where they began, so the states are the sum of theirs and not the product | see below |
| `progress` | again one `subject` at a time: "failing", wakes and sweeps of 2 approvals, half-second ticks, a two-second day, listing limit 1, 2 POST attempts, all faults; "arriving", wakes without faults and a watcher whose polls fail, limit 2; a bulk group with its goroutine; a bulk request of 2 items under a grant; all but the first are fair | `TypeOK`, `PushTellsTruth`, `OneWakePerApproval`, `SweepCatchesDecisions`; `ExpiryIsPushedInTime`, `WatchAlwaysReturns`, `ApprovedReachesConnector`, `WriteLockIsReleased` |

In `services`:

| component | instance | checks |
|---|---|---|
| registration | 2 servers, 2 invite transactions, 2 requests redeeming one invite, a right and a wrong code, one attempt allowed, `crash`, `rollback` | `HonouredOnce`, `InviteAdmitsOne`, `InviteLimitHolds`, `GuessesAreBounded`, `AgentsOnlyAdvance` |
| payments | a card, 3 charges by 2 goroutines, amounts 1 and 2, limit 2, a window of one tick, `record`, `crash` | `OverspendIsBounded`, `RowsAreCharges` |
| stored cards | 3 cards, at most 1 allowed, 2 requests, 2 instances of the job, `crash` | `WalletIsSound`, `AlertedOnce` |
| rate limiter | 2 keys, bursts of 1 and 2 tokens, half a token per tick, eviction after 2 of 4 ticks | `AdmissionsAreBounded`, `RejectionsAreFree`, `RetryAfterIsHonest` |
| OAuth | 2 connection ids, 2 refreshers, 6 secrets, answers that rotate and that do not, `provider`, `delete`, `crash` | `TokensAreKept`, `NoTokenLeftBehind` |
| matching | every request of a small schema against lists of up to 2 candidates of every form, a window that leaves nothing among them, failing metadata, windows and dates | `MatchIsJustified`, `WindowIsKept` |

What a condition means is `Meets`, written from the documentation and not from the evaluation:
one element of an array is allowed and none is denied.  `MatchIsJustified` asks for that wherever
the code keeps to it, which is for scalars, for recipients and for what is missing; of another
array it only says that one entry allows it whole, because its denials are not kept (run
`matching_unenforced`).  `WindowIsKept` asks that what runs obeys the relative dates and lies
between `Opens` and `Closes`, up to the fraction of a second RFC3339 drops.  These are the bounds
of the data window, and for a window that leaves nothing between them a tick beyond, which is
what the code does with it (run `matching_widened`).  `TokensAreKept` is unconditional for access
tokens; for refresh tokens it needs that no refresh has overwritten another (`raced`), without
which it is false (run `oauth_overlap`).  `PushTellsTruth` is about decisions and expiries a wake
names; that it may name neither is run `wake_pending`.

`services` does not check for deadlock: ids, charges, secrets and time run out by their
bounds, and a request that was matched is over.

Symmetry.  Goroutines, ids and keys of one set are interchangeable, since nothing orders them.
In `services` one permutation acts on all components at once (`Symmetry` pairs them up), which
is sound because a behaviour only moves one of them.  In the second setting of `approvals` one
goroutine is idle for good, so no two states that differ by exchanging the two are ever reached.
`progress` has no symmetry: TLC's does not preserve liveness.

Bounds.  Two rows are needed for what relates rows (deny all, groups, cooldown,
duplicate request_ids, the job's listing) and every other property speaks of one row
at a time.  Two goroutines suffice for a race for one row, because the row's state
after the first winner no longer depends on how many lost.  Half-second ticks are
where the two clocks can disagree; whole-second ticks are used where only the order
matters.  `MaxNow` lets an approval live, expire and be looked at after expiry, and
the "day" of the sweep is so short that instances cross midnight.  The bulk setting of `approvals`
has one goroutine: what two do to each other is in the other setting, and at-most-once is proved
for any number of them with groups.  Audit events of one-off approvals that cannot be written
(`audit`) are left to the theorems, which hold for every set of faults: losing one only
removes something the properties are about.  `standing` has one grant for the same reason: a second
one only matters where two approvals of a request race, which is `standing_twice`.  The fair instances of
`progress` are the smallest in which each wait occurs: a decision and an expiry to announce, polls
that fail and a 404, a granted row behind another in a list, an item that waits for its own
handler's lock.  One of the two approvals is watched, since watchers only share the clock, and
the rows of the bulk subject all come of its group and are decided singly or together: a row approved before its
expiry may reach the connector after it.  In
`services` each limit is small enough to be reached and passed: two transactions count the
last invite, two charges check the same room, a bucket is evicted and comes back.

Fairness.  `HandlerStep`, `JobStep`, `Deliver` and `WatchStep` are weakly fair: a
goroutine that can go on does, because every wait in it is bounded (`busy_timeout`,
30 s for a connector, 10 s and five attempts for a POST).  Each module states this in `Fairness`,
and `progress` assumes all three.  With the wakes the clock and the job's ticker run too.
`ExpiryIsPushedInTime` and `WatchAlwaysReturns` are `ExpiryIsPushed` and `WatchReturns` of `AgentWake`
in the behaviours where wakes arrive.
Nothing obliges a person or an agent to act, and no liveness is claimed across a crash: no job resumes an approval
that was approved and not executed.

### Where the code and its documents disagree

Eight runs end in a violation, each of a sentence the repository says of itself.

* `wake_starved`: the job lists the 50 oldest expired rows.  These stay pending for
  ever, and those already announced are skipped only after the `LIMIT`; once there are
  50 of them no later expiry is pushed.
* `wake_sweep_expired`: `datetime(expires_at) >= $2` compares `2025-01-01 23:00:00` with
  `2025-01-01T...`; the blank sorts first, so approvals that expired on the date of
  `resolved_since` are missing from the sweep.
* `standing_twice`: two people (or tabs) approve one request; both read it as pending,
  and the second transaction commits its grant although the request was already
  approved.  Two active grants result, one linked to no request.
* `standing_bulk_busy`: a bulk request records standing-approval executions through the
  pool while its own transaction holds the write lock, so each one fails after the
  busy timeout and the item becomes pending instead of running.
* `wake_pending`: the job lists a row by SQL's clock, which drops the fraction of a second, and
  names its status by Go's, which does not.  Within the second of its expiry the wake says
  `pending`, which `docs/integrations/openclaw.md:222` does not list, and no other wake follows.
* `oauth_overlap`: two refreshes read one row; the answer with a new refresh token is stored first
  and deletes the old secret, the one without is stored second and points the row back to it.
  The comment at `api/connector_execution.go:498-501` calls overlapping refreshes safe ("no data
  loss or auth failure"); the row stays active, and its next refresh cannot read its token.
* `matching_widened`: `last_days` may be combined with an `ends_at` (`db/data_window_test.go:19`).  Once
  the days have moved past `ends_at` nothing is between the two, and `ApplyDataWindowToParams` sets
  the start to just before `ends_at` and the end to just after the start, each outside the window,
  although its comment (`db/data_window.go:183`) says "Never widens beyond the resolved approval
  window".
* `matching_unenforced`: two promises at once.  A denied element of an array that is not one of
  recipients is let through unless the whole array is denied, although
  `docs/standing-approval-constraints.md:85-88` says that no element may match.  And a data window
  written as a condition of a v2 document is validated there but looked for only at the top of
  the document; the condition itself is skipped, so the window is never applied.

Further differences, seen while modelling and stated by no run:

* `docs/standing-approval-constraints.md:87` says that one element of an array must be allowed.
  The code asks one entry to match all elements, so an array is allowed less often.
* The same document (line 55) calls groups an OR.  A parameter no condition of a group
  mentions ends the evaluation with an error, and later groups are not tried.
* A data window's start is truncated to whole seconds, so the span may begin up to a
  second before the window, although the comment says it never widens.
* Relative dates that fail after the window was applied leave the narrowed parameters to
  the next candidate.  `WindowIsKept` shows that this adds nothing to what that candidate lets
  through.
* `api/connector_execution.go:502-505` re-reads a row "so we do not flip a healthy connection
  offline".  When a token is rotated one refresh may still be refused because of
  another, re-read before that one has stored its answer, and mark the row after it has.

The models also show behaviour nobody promises otherwise in so many words, and which
therefore bounds what is claimed above: a failing confirmation code leaves an approved,
never executed row (`api/approvals.go:215`); a denial between the cooldown lookup and
the insert does not stop the new approval; a `resolved_since` on a whole second misses the decisions of
that second; a watcher may say "expired" of an approval answered after its last poll;
an execution may be recorded just after its grant was revoked; a request_id may run
again under another grant; an update that omits `expires_at` may undo a concurrent one.

## 4. Proofs

The theorems hold for any sets of ids, goroutines, groups and fingerprints, any clock
resolution, lifetimes, cooldown and faults.  They assume only the named `ASSUME`s of
the modules: the numbers are naturals, `TicksPerSecond` is positive, `None` is none of
the ids, there are finitely many goroutines that run actions (`WorkersAssumption`), and
a grant can be for an exact action (`ScopesAssumption`).  `Matching` says what shape requests
and documents have, `StoredCards` and `Payments` that finitely many goroutines add cards and
execute and that amounts are bounded.  Four assumptions are about
settings of the code: an agent's heartbeat is at least a second shorter than the window a
sweep looks back by default (`HeartbeatAssumption`: 24 h), the deadline of the insert of a signature is within the margin its
row is kept for (`SkewAssumption`: 5 s against 60 s), there are finitely many invites, and a
bucket is full again before it may be evicted (`StaleAssumption`: 600 s against the 240 s of
the auth limiter and 20 s or less of the others with the default rates; rates and bursts can be set in the environment, where nothing
enforces it).  TLC evaluates all of these on every run that extends their module.

`ApprovalsProofs` proves `TypeOK` and an inductive invariant.  The safety properties are
not inductive alone: that a row is executed at most once depends on which goroutine
may still execute it.  The invariant therefore says, besides `TypeOK`,

* `ExecutionInv`: calls, outcome and stored result of a row fit together;
* `HandlerInv`: a goroutine that is to call, store, audit or notify holds a row with
  exactly the status its `UPDATE` gave it, and one that is to call finds no call made;
* `ExclusiveInv`: no two goroutines are between approval and stored result of one row;
* `ReportInv`: what was told or audited is the row's state, where "expired" is told
  only of rows no SQL guard accepts any more.

The last one is where the clocks meet: a poll uses Go's clock and a decision SQL's;
`SQLiteTimeProofs` shows that Go's "expired" implies SQL's, for every resolution, and
that SQL's is never taken back as time passes.  From the invariant follow `TypeCorrect`,
`AtMostOnce`, `OnlyApproved`, `RecordedReal`, `OneTerminalStatus` and `AuditAgrees`.

Three more facts rest on it and on a little more.  `RequestIdsMatch` needs that an absent row has
no request_id (`TakenInv`), since only an insert fills a row and it takes the request_id in the
same transaction.  `CooldownHolds` compares a denial with a lookup made after it: whatever
instant the lookup read, no row is denied before it later on, because a decision is stamped
with the present.  `GroupsProgress` needs that a group's rows are all inserted at once and that
only pending ones change.

The module also proves `Finality` (the action property `ResolutionIsFinal`) and
`Refinement` (`Promise == INSTANCE ApprovalPromise WITH ...`): the mapping sends a pending row to "open" or, once the SQL clock has
passed it, to "expired"; initial states map to initial states, every resolving `UPDATE`
to `Decide`, inserts to `Open`, ticks to `Expire`, connector calls to `Execute`, polls and
notifications to `Tell`, and every other step to a stutter.

`StandingApprovalsProofs` proves the same kind of facts for grants.  Its invariant says,
besides `TypeOK`,

* `JobInv`: a bulk handler past its first insert is the one that holds the write lock,
  only an execution by hand lacks a request_id, and the grants a goroutine found revoked
  when it began are still revoked (so a matched grant is none of them);
* `RequestInv`: a request that is denied or open has no grant, an approved one names a
  grant that came of it, and an editor that is to commit an approval holds a request
  that was really asked;
* `LedgerBalances` itself, which is inductive because it counts: a goroutine at `call`
  owes the ledger a call and one at `audit` an event, so calls plus the goroutines at
  `call` never exceed the recorded rows, and events plus those at `audit` never exceed the
  calls.  The counting uses the cardinality theorems for finite sets; a crash only lowers
  the counts.

From it follow `TypeCorrect`, `Balanced`, `RevocationStops`, `DecisionMatches` and the action
property `Frozen`.

`AgentWakeProofs` keeps, per approval, `WakeSound`: what a wake received, under way or owed says
is so and stays so (`Holds`), the job and its marks are about approvals that have expired, and
a wake was started only where no handler has one to send and, for a pending row, only by the
job, which remembers it in the same step.  Hence `PushIsTrue` and `WakesOnce`.  An approval that
SQL calls expired is never decided again, so a wake that says so stays true; one that says
`pending` by Go's clock is not covered, and is a violation run.
`SweepIsComplete` is about the default sweep (`SinceModes = {"window"}`): with no late heartbeat
and no decision in the future (`BeatSound`) the instant a sweep starts from is a second before
the last heartbeat at least, and whatever lies a whole second later compares greater as text
too (`LaterSecond`).  With a `resolved_since` of the agent's own it does not hold, as section 3 says.

`RegistrationProofs` proves `NoReplay` from two facts: a goroutine that is `verified` found
the timestamp fresh not long ago (`VerifiedWasFresh`), and a signature that was honoured is
in the table or expired (`ForgottenIsStale`).  An insert that comes within the deadline is
then too early for a forgotten signature, by `SkewAssumption` and the rounding lemma
`DatetimeShift`.  It then shows that every step of `Registration` is a step of
`SignatureReplay` or leaves its variables alone (`RegistrationUsesReplay`), so `NoReplay` carries
over (`SignedRequestsCountOnce`), and goes on with registration itself.  `OnlyForward` needs
that a goroutine at work on a verification was admitted for one.  `OneAgentPerInvite` needs that an id nobody registered
under has no invite.  `InvitesAreLimited` needs `CountIsTrue`: whoever may still write from the
snapshot it counted in has counted fewer than the limit, since every commit outdates the
others.  `GuessesBounded` counts goroutines as `LedgerBalances` does (`GuessSound`): comparisons made and
those still to come have their attempts, and each has its own honoured request.

`RateLimiterProofs` keeps an account (`TokensAreConserved`): tokens taken since the instant one
watches, plus the tokens a bucket would hold if it were used now, are at most the burst
and what has dripped in since.  A call moves tokens from one side to the other, a tick
adds at most the rate to the second, a refusal returns the global token to the fraction
(`RefundIsExact`), and an eviction changes nothing, because an evicted bucket was full.
`PromisesCanBeKept` says that the token promised by `Retry-After` will have dripped in; with
the rounding up of `RoundsUp` it survives every call.  From these follow
`AdmissionsStayBounded`, `RefusalsCostNothing` and `RetryAfterSuffices`.

`ExecutionProofs` has three parts.

* Payments.  `ChargesAreReal` needs that only a call that succeeded is about to be recorded.
  `SpendingBounded` is about sums of amounts over sets of executions.  The library's `SumFunction`
  is a recursive function, and what it computes is proved by taking a smallest set for which
  a fact fails (`SmallestSubset`, from the well-foundedness of the subset ordering of a finite
  set), in place of an induction: that the recursion has a solution and only one, that the
  element taken out first does not matter (`SumRemove`), monotonicity, and the bound by the number of
  summands.  Then one card at a time (`Bounded`): a check that succeeds leaves room for its own
  amount, the others in flight are the margin (`CheckedIsBounded`), recording moves an amount
  from one sum to the other (`RecordedIsBounded`), and nothing else adds to either.
* Stored cards.  `WalletIsCounted` counts the cards together with the requests that have passed
  the count and may still add one; `OneDefault` is about all rows, not only the stored ones;
  `ClaimsAreOwn` says that a claimed card has not been announced and is claimed by one instance.
* OAuth.  `VaultInv` says that secrets above the last one handed out are empty, that a row's tokens
  are two secrets of the right kind, that no two rows share one, and what a refresh knows: it
  holds no secret of another connection or of its refreshes (`RefreshesAreApart`: a refresh may
  restore an id it holds, which must not become another row's), and as long as the row's access
  token is the one it read, so is the row's refresh token.  Authorizing, reauthorizing and storing a refreshed token are all cases of one step
  (`Replaces`: a row's old secrets go, new ones come), so that `TokensKept` and `NothingLeftBehind` are proved
  for it once.

`MatchingProofs` first proves, without any state, that an evaluation that succeeds implies what the
conditions mean (`FieldAllows`, `FieldDenies` and `FieldSound` for a field, `OutcomeJustifies` for a group, `HoldsJustifies` for a
document with its filling), and what truncation does to an order of instants (`TruncBelow`, `TruncLargest`, `TruncMonotone`), hence that narrowing by a
window or by relative dates gives a span within them (`OpensCloses`, `WindowedWithin`,
`BoundedObeys`), and that relative dates leave it within the window applied before them (`DatedWithin`).  The invariant of the loop over the candidates then is short.

Every invariant and every action property of the passing runs is stated by a theorem.  Only
model-checked: liveness
(`ApprovedReachesConnector`, `ExpiryIsPushedInTime`, `WatchAlwaysReturns`, `WriteLockIsReleased`), since neither
fairness nor `ENABLED` is within the prover's reach, and the violations of section 3.

## 5. Not modelled, and what comes next

Left out on purpose: connectors (more than two thirds of the repository's Go code: clients of
third-party APIs and their manifests, a nondeterministic step here), encryption in the
vault and the cryptography of signatures, sessions and passwords, notifications to the
approver, approval events (a live view of the approvals table whose events may be dropped
by design: `api/approval_events.go` skips a full buffer), the front ends, seed data, JSON shapes, pagination and wording.  Of modelled components: billing
addresses and labels of cards, the OAuth redirect with its state token, the `LIMIT 100` of
the candidate query, the pending half of the sweep.

Next:

1. `Matching` inside `StandingApprovals` in place of the sets of parameters, with the theorem that
   only justified executions are recorded;
2. a composition of `Approvals` with `AgentWake` over one table, so that what is pushed and swept
   is related to what the handlers really decided;
3. an abstract specification of standing approvals, as `ApprovalPromise` is for one-off ones, and
   its refinement.
