-------------------------- MODULE OAuthConnections --------------------------
(***************************************************************************)
(* A user's OAuth connections to one provider, their tokens in the vault,  *)
(* and the goroutines that refresh them: executions on demand and the      *)
(* background job, which do the same in the same steps.  A refresh reads   *)
(* the row, asks the provider, and stores the answer in a transaction      *)
(* that starts with a write; the user may authorize again or disconnect    *)
(* between any two of these.                                               *)
(*                                                                         *)
(* Vault ids are numbers, handed out in order.  An access token is just    *)
(* that; a refresh token is a number the provider knows.                   *)
(***************************************************************************)
EXTENDS Integers

CONSTANTS
    ConnIds,       \* ids oauth_connections may hold
    Refreshers,    \* goroutines refreshing a connection
    MaxSecrets,    \* bound: vault ids, and refresh tokens the provider issues
    OAuthFaults    \* failures of the environment: "provider", "delete", "crash"

ASSUME MaxSecretsAssumption == MaxSecrets \in Nat

SecretIds == 1..MaxSecrets
NoSecret == 0

VARIABLES
    conns,      \* oauth_connections
    secrets,    \* vault_secrets
    minted,     \* vault ids handed out
    issued,     \* refresh tokens the provider has issued
    good,       \* those it still accepts
    refresher,  \* the goroutines
    raced,      \* history: a refresh has overwritten what another had stored
    undeleted   \* history: secrets a refresh tried in vain to delete

oauthVars == <<conns, secrets, minted, issued, good, refresher, raced, undeleted>>

\* stale: within the buffer, or the job's horizon, of its expiry.
Conn == [status : {"unused", "active", "needs_reauth", "deleted"}, access : SecretIds \cup {NoSecret},
         refresh : SecretIds \cup {NoSecret}, stale : BOOLEAN]

\* What the vault holds: nothing, an access token, or a refresh token.
Empty == -1
AccessToken == 0

\* loaded: the row is read; asking: the refresh token is read too; failed: the
\* provider refused; flip: to be marked; store: the provider answered.  token is
\* the refresh token it read, answer the one it is left with.
Refresher == [pc : {"idle"}]
    \cup [pc : {"loaded", "asking", "failed", "flip", "store"}, conn : ConnIds,
          access : SecretIds \cup {NoSecret}, refresh : SecretIds \cup {NoSecret},
          token : Nat, answer : Nat]

OAuthTypeOK ==
    /\ conns \in [ConnIds -> Conn]
    /\ secrets \in [SecretIds -> {Empty, AccessToken} \cup SecretIds]
    /\ minted \in 0..MaxSecrets
    /\ issued \in 0..MaxSecrets
    /\ good \in SUBSET SecretIds
    /\ refresher \in [Refreshers -> Refresher]
    /\ raced \in BOOLEAN
    /\ undeleted \in SUBSET SecretIds

NoConn(status) == [status |-> status, access |-> NoSecret, refresh |-> NoSecret, stale |-> FALSE]
Waiting == [pc |-> "idle"]

OAuthInit ==
    /\ conns = [c \in ConnIds |-> NoConn("unused")]
    /\ secrets = [s \in SecretIds |-> Empty]
    /\ minted = 0
    /\ issued = 0
    /\ good = {}
    /\ refresher = [r \in Refreshers |-> Waiting]
    /\ raced = FALSE
    /\ undeleted = {}

Connected == {c \in ConnIds : conns[c].status \in {"active", "needs_reauth"}}

\* DeleteSecret is idempotent, and there may be no id to delete.
Without(table, ids) == [s \in SecretIds |-> IF s \in ids THEN Empty ELSE table[s]]

-----------------------------------------------------------------------------
(* The user *)

\* Mutant: the old refresh token is deleted whether or not a new one came.
ReplacedBoth(old, withRefresh) == {conns[old].access, conns[old].refresh}

\* The secrets storeOAuthTokens deletes with the connection it replaces.
Replaced(old, withRefresh) ==
    {conns[old].access} \cup (IF withRefresh THEN {conns[old].refresh} ELSE {})

\* The rest of storeOAuthTokens: row c is inserted and its tokens are put in the
\* vault; if the provider sent no refresh token the row keeps kept.
Insert(c, withRefresh, rows, vault, kept) ==
    LET a == minted + 1
        t == minted + 2
    IN
    /\ conns[c].status = "unused"
    /\ t <= MaxSecrets /\ issued < MaxSecrets
    /\ minted' = IF withRefresh THEN t ELSE a
    /\ issued' = IF withRefresh THEN issued + 1 ELSE issued
    /\ good' = IF withRefresh THEN good \cup {issued + 1} ELSE good
    /\ secrets' = [vault EXCEPT ![a] = AccessToken, ![t] = IF withRefresh THEN issued + 1 ELSE @]
    /\ conns' = [rows EXCEPT ![c] = [status |-> "active", access |-> a, stale |-> FALSE,
                                     refresh |-> IF withRefresh THEN t ELSE kept]]
    /\ UNCHANGED <<refresher, raced, undeleted>>

\* The user connects,
Authorize(c, withRefresh) == Insert(c, withRefresh, conns, secrets, NoSecret)

\* or connects again: the old row is deleted in the same transaction.
Reauthorize(old, c, withRefresh) ==
    /\ old \in Connected
    /\ Insert(c, withRefresh, [conns EXCEPT ![old] = NoConn("deleted")],
              Without(secrets, Replaced(old, withRefresh)), conns[old].refresh)

\* handleDeleteOAuthConnection
Disconnect(c) ==
    /\ c \in Connected
    /\ secrets' = Without(secrets, {conns[c].access, conns[c].refresh})
    /\ conns' = [conns EXCEPT ![c] = NoConn("deleted")]
    /\ UNCHANGED <<minted, issued, good, refresher, raced, undeleted>>

-----------------------------------------------------------------------------
(* refreshOAuthConnection and refreshSingleConnection *)

\* The row is read by an execution, or listed by the job, and is about to expire.
Load(r, c) ==
    /\ refresher[r] = Waiting
    /\ conns[c].status = "active"
    /\ conns[c].stale
    /\ refresher' = [refresher EXCEPT ![r] =
           [pc |-> IF conns[c].refresh = NoSecret THEN "failed" ELSE "loaded", conn |-> c,
            access |-> conns[c].access, refresh |-> conns[c].refresh, token |-> 0, answer |-> 0]]
    /\ UNCHANGED <<conns, secrets, minted, issued, good, raced, undeleted>>

\* ReadSecret; it fails if the secret was replaced meanwhile, and the refresh ends.
ReadToken(r) ==
    LET s == refresher[r].refresh IN
    /\ refresher[r].pc = "loaded"
    /\ refresher' = [refresher EXCEPT ![r] =
           IF secrets[s] = Empty THEN Waiting ELSE [@ EXCEPT !.pc = "asking", !.token = secrets[s]]]
    /\ UNCHANGED <<conns, secrets, minted, issued, good, raced, undeleted>>

\* The provider accepts the token.  Each answer may or may not carry a new one,
\* which replaces it; without one RefreshTokens keeps what it had.
ProviderAccepts(r) ==
    LET old == refresher[r].token IN
    /\ refresher[r].pc = "asking"
    /\ old \in good
    /\ \/ /\ issued < MaxSecrets
          /\ issued' = issued + 1
          /\ good' = (good \ {old}) \cup {issued + 1}
          /\ refresher' = [refresher EXCEPT ![r].pc = "store", ![r].answer = issued + 1]
       \/ /\ refresher' = [refresher EXCEPT ![r].pc = "store", ![r].answer = old]
          /\ UNCHANGED <<issued, good>>
    /\ UNCHANGED <<conns, secrets, minted, raced, undeleted>>

\* It does not know the token any more, or cannot be reached.
ProviderRefuses(r) ==
    /\ refresher[r].pc = "asking"
    /\ refresher[r].token \notin good \/ "provider" \in OAuthFaults
    /\ refresher' = [refresher EXCEPT ![r].pc = "failed"]
    /\ UNCHANGED <<conns, secrets, minted, issued, good, raced, undeleted>>

\* ReloadOAuthConnectionIfConcurrentRefreshSucceeded: the access token's id has
\* changed.  (The expiry never changes without it.)
RefreshedMeanwhile(r) ==
    /\ conns[refresher[r].conn].status = "active"
    /\ conns[refresher[r].conn].access # refresher[r].access

\* The row is read again.  A goroutine that had no refresh token goes on with
\* the one it now finds; one that was refused is done.
Reload(r) ==
    LET row == conns[refresher[r].conn]
        had == refresher[r].refresh # NoSecret
    IN
    /\ refresher[r].pc = "failed"
    /\ refresher' = [refresher EXCEPT ![r] =
           IF RefreshedMeanwhile(r) /\ had THEN Waiting
           ELSE IF RefreshedMeanwhile(r) /\ row.refresh # NoSecret
           THEN [@ EXCEPT !.pc = "loaded", !.access = row.access, !.refresh = row.refresh]
           ELSE [@ EXCEPT !.pc = "flip"]]
    /\ UNCHANGED <<conns, secrets, minted, issued, good, raced, undeleted>>

\* UpdateOAuthConnectionStatus, whatever the row now says; a row that is gone is
\* an error that is only logged.
Flip(r) ==
    LET c == refresher[r].conn IN
    /\ refresher[r].pc = "flip"
    /\ conns' = IF c \notin Connected THEN conns
                ELSE [conns EXCEPT ![c].status = "needs_reauth"]
    /\ refresher' = [refresher EXCEPT ![r] = Waiting]
    /\ UNCHANGED <<secrets, minted, issued, good, raced, undeleted>>

\* Result.RefreshToken != OldRefreshToken
Rotated(r) == refresher[r].answer # refresher[r].token

\* The secrets StoreRefreshedTokens deletes.
Outdated(r) == {refresher[r].access} \cup (IF Rotated(r) THEN {refresher[r].refresh} ELSE {})

\* The row as UpdateOAuthConnectionTokens leaves it, with new ids a and t.
Refreshed(r, a, t) ==
    [status |-> "active", access |-> a, stale |-> FALSE,
     refresh |-> IF Rotated(r) THEN t ELSE refresher[r].refresh]

\* Mutant: a connection that is gone does not roll the transaction back.
StoreUnchecked(r) ==
    LET c == refresher[r].conn
        a == minted + 1
        t == minted + 2
    IN
    /\ refresher[r].pc = "store"
    /\ t <= MaxSecrets
    /\ minted' = IF Rotated(r) THEN t ELSE a
    /\ secrets' = [Without(secrets, Outdated(r))
                   EXCEPT ![a] = AccessToken, ![t] = IF Rotated(r) THEN refresher[r].answer ELSE @]
    /\ conns' = IF c \notin Connected THEN conns ELSE [conns EXCEPT ![c] = Refreshed(r, a, t)]
    /\ raced' = (raced \/ (c \in Connected /\ conns[c].access # refresher[r].access))
    /\ refresher' = [refresher EXCEPT ![r] = Waiting]
    /\ UNCHANGED <<issued, good, undeleted>>

\* StoreRefreshedTokens and the commit: the secrets it knew are replaced, and
\* the row made active, whatever it was.  A deletion that fails is only logged.
Store(r) ==
    LET c == refresher[r].conn
        a == minted + 1
        t == minted + 2
    IN
    /\ refresher[r].pc = "store"
    /\ c \in Connected
    /\ t <= MaxSecrets
    /\ minted' = IF Rotated(r) THEN t ELSE a
    /\ \E failed \in SUBSET Outdated(r) :
          /\ failed # {} => "delete" \in OAuthFaults
          /\ secrets' = [Without(secrets, Outdated(r) \ failed)
                 EXCEPT ![a] = AccessToken, ![t] = IF Rotated(r) THEN refresher[r].answer ELSE @]
          /\ undeleted' = undeleted \cup failed
    /\ conns' = [conns EXCEPT ![c] = Refreshed(r, a, t)]
    /\ raced' = (raced \/ conns[c].access # refresher[r].access)
    /\ refresher' = [refresher EXCEPT ![r] = Waiting]
    /\ UNCHANGED <<issued, good>>

\* The connection is gone, the UPDATE finds no row, and all is rolled back.
StoreRolledBack(r) ==
    /\ refresher[r].pc = "store"
    /\ refresher[r].conn \notin Connected
    /\ refresher' = [refresher EXCEPT ![r] = Waiting]
    /\ UNCHANGED <<conns, secrets, minted, issued, good, raced, undeleted>>

-----------------------------------------------------------------------------

\* Time passes.
Age(c) ==
    /\ c \in Connected
    /\ ~conns[c].stale
    /\ conns' = [conns EXCEPT ![c].stale = TRUE]
    /\ UNCHANGED <<secrets, minted, issued, good, refresher, raced, undeleted>>

\* A restart: a token the provider has rotated and nobody has stored is lost.
OAuthCrash ==
    /\ "crash" \in OAuthFaults
    /\ refresher' = [r \in Refreshers |-> Waiting]
    /\ UNCHANGED <<conns, secrets, minted, issued, good, raced, undeleted>>

OAuthNext ==
    \/ \E c \in ConnIds :
          \/ \E withRefresh \in BOOLEAN :
                \/ Authorize(c, withRefresh)
                \/ \E old \in ConnIds : Reauthorize(old, c, withRefresh)
          \/ Disconnect(c)
          \/ Age(c)
    \/ \E r \in Refreshers :
          \/ \E c \in ConnIds : Load(r, c)
          \/ ReadToken(r)
          \/ ProviderAccepts(r)
          \/ ProviderRefuses(r)
          \/ Reload(r)
          \/ Flip(r)
          \/ Store(r)
          \/ StoreRolledBack(r)
    \/ OAuthCrash

OAuthSpec == OAuthInit /\ [][OAuthNext]_oauthVars

-----------------------------------------------------------------------------
(* Properties *)

KeepsAccess(c) == secrets[conns[c].access] = AccessToken
KeepsRefresh(c) == conns[c].refresh # NoSecret => secrets[conns[c].refresh] \in SecretIds

\* A connection's access token is always in the vault, whatever refreshes, crashes,
\* new authorizations and disconnections overlap, and so is its refresh token unless
\* a refresh overwrote another's (StoreRefreshedTokens, storeOAuthTokens).
TokensAreKept == \A c \in Connected : KeepsAccess(c) /\ (raced \/ KeepsRefresh(c))

\* What the comment of refreshOAuthConnection says of overlapping refreshes: "This
\* is safe (no data loss or auth failure)".
OverlapIsSafe == \A c \in Connected : KeepsAccess(c) /\ KeepsRefresh(c)

\* Unless two refreshes of one connection have overlapped, the vault holds the
\* tokens of connections and what it refused to delete, and nothing else:
\* disconnecting during a refresh leaves none behind (StoreRefreshedTokens in its
\* transaction).
NoTokenLeftBehind ==
    ~raced => \A s \in SecretIds \ undeleted : secrets[s] # Empty =>
        \E c \in Connected : s \in {conns[c].access, conns[c].refresh}
-----------------------------------------------------------------------------
(* The inductive form *)

\* The vault ids a row refers to, and those a refresh may delete or keep.
Tokens(c) == {conns[c].access, conns[c].refresh} \ {NoSecret}
Held(r) == {refresher[r].access, refresher[r].refresh} \ {NoSecret}

SecretsAreFresh == \A s \in SecretIds : s > minted => secrets[s] = Empty

RowIsSound(c) ==
    c \in Connected =>
        /\ conns[c].access \in 1..minted
        /\ conns[c].refresh \in 0..minted
        /\ conns[c].access # conns[c].refresh
        /\ KeepsAccess(c)
        /\ raced \/ KeepsRefresh(c)

\* No two connections share a secret.
RowsAreApart == \A c, d \in Connected : c # d => Tokens(c) \cap Tokens(d) = {}

\* A refresh never holds a secret of another connection.  It knows its own
\* connection's refresh token, unless another refresh came first.
RefreshIsSound(r) ==
    LET c == refresher[r].conn IN
    refresher[r].pc # "idle" =>
        /\ conns[c].status # "unused"
        /\ refresher[r].access \in 1..minted
        /\ refresher[r].refresh \in 0..minted
        /\ refresher[r].access # refresher[r].refresh
        /\ refresher[r].pc \in {"loaded", "asking", "store"} => refresher[r].refresh # NoSecret
        /\ refresher[r].pc = "store" => refresher[r].answer \in SecretIds
        /\ c \in Connected =>
              /\ conns[c].access = refresher[r].access =>
                    conns[c].refresh = refresher[r].refresh
              /\ \A d \in Connected \ {c} : Held(r) \cap Tokens(d) = {}

\* Refreshes of two connections hold no secret in common.
RefreshesAreApart ==
    \A q, r \in Refreshers :
        /\ refresher[q].pc # "idle" /\ refresher[r].pc # "idle"
        /\ {refresher[q].conn, refresher[r].conn} \subseteq Connected
        /\ refresher[q].conn # refresher[r].conn
        => Held(q) \cap Held(r) = {}

VaultInv ==
    /\ SecretsAreFresh
    /\ \A c \in ConnIds : RowIsSound(c)
    /\ RowsAreApart
    /\ \A r \in Refreshers : RefreshIsSound(r)
    /\ RefreshesAreApart

=============================================================================
