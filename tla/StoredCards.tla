---------------------------- MODULE StoredCards ----------------------------
(***************************************************************************)
(* A user's stored cards: adding up to a maximum, choosing a default,      *)
(* deleting, and the daily job that announces a card about to expire.      *)
(* Several instances of the job may run, and all of them may restart.      *)
(***************************************************************************)
EXTENDS Integers, FiniteSets

CONSTANTS
    CardIds,        \* ids payment_methods may hold
    Adders,         \* goroutines adding a card
    MaxCards,       \* maxPaymentMethodsPerUser
    Alerters,       \* instances of the card expiry job
    CardFaults      \* failures of the environment: "crash"

ASSUME MaxCardsAssumption == MaxCards \in Nat \ {0}
ASSUME AddersAssumption == IsFiniteSet(Adders)

VARIABLES
    wallet,    \* payment_methods
    adder,     \* whether a request has passed the count
    alerter,   \* cards the job has listed, and the one it has claimed
    alerts     \* notifications sent about each card

cardVars == <<wallet, adder, alerter, alerts>>

WalletRow == [state : {"unknown", "stored", "deleted"}, default : BOOLEAN, alerted : BOOLEAN]
Alerter == [listed : SUBSET CardIds, claimed : SUBSET CardIds]

CardsTypeOK ==
    /\ wallet \in [CardIds -> WalletRow]
    /\ adder \in [Adders -> BOOLEAN]
    /\ alerter \in [Alerters -> Alerter]
    /\ alerts \in [CardIds -> Nat]

NoAlert == [listed |-> {}, claimed |-> {}]

CardsInit ==
    /\ wallet = [c \in CardIds |-> [state |-> "unknown", default |-> FALSE, alerted |-> FALSE]]
    /\ adder = [a \in Adders |-> FALSE]
    /\ alerter = [j \in Alerters |-> NoAlert]
    /\ alerts = [c \in CardIds |-> 0]

InWallet == {c \in CardIds : wallet[c].state = "stored"}

-----------------------------------------------------------------------------

\* Mutant: no count at all.
CountCardsNever(a) ==
    /\ ~adder[a]
    /\ adder' = [adder EXCEPT ![a] = TRUE]
    /\ UNCHANGED <<wallet, alerter, alerts>>

\* handleConfirmPaymentMethod counts the cards and asks Stripe about the new
\* one.
CountCards(a) ==
    /\ ~adder[a]
    /\ Cardinality(InWallet) < MaxCards
    /\ adder' = [adder EXCEPT ![a] = TRUE]
    /\ UNCHANGED <<wallet, alerter, alerts>>

\* ClearDefaultPaymentMethod before a new default is set.
Undefault == [c \in CardIds |-> [wallet[c] EXCEPT !.default = FALSE]]

\* The unique index idx_payment_methods_user_default: a statement that would
\* leave two defaults fails, and the transaction with it.
IndexAllows(w) == \A c, d \in CardIds : w[c].default /\ w[d].default => c = d

\* Its transaction clears the old default if need be and inserts the card; it
\* does not count again.
AddCard(a, c, default) ==
    /\ adder[a]
    /\ wallet[c].state = "unknown"
    /\ wallet' = [(IF default THEN Undefault ELSE wallet)
                  EXCEPT ![c] = [state |-> "stored", default |-> default, alerted |-> FALSE]]
    /\ IndexAllows(wallet')
    /\ adder' = [adder EXCEPT ![a] = FALSE]
    /\ UNCHANGED <<alerter, alerts>>

\* Stripe refuses the card, or the transaction fails.
AddFails(a) ==
    /\ adder[a]
    /\ adder' = [adder EXCEPT ![a] = FALSE]
    /\ UNCHANGED <<wallet, alerter, alerts>>

\* handleUpdatePaymentMethod, as far as it concerns the default.
SetDefault(c, default) ==
    /\ c \in InWallet
    /\ wallet' = [(IF default THEN Undefault ELSE wallet) EXCEPT ![c].default = default]
    /\ IndexAllows(wallet')
    /\ UNCHANGED <<adder, alerter, alerts>>

\* handleDeletePaymentMethod.  Detaching the card at Stripe is best effort.
RemoveCard(c) ==
    /\ c \in InWallet
    /\ wallet' = [wallet EXCEPT ![c].state = "deleted", ![c].default = FALSE]
    /\ UNCHANGED <<adder, alerter, alerts>>

-----------------------------------------------------------------------------
(* runCardExpiryCheck *)

\* ListExpiringPaymentMethods: cards about to expire with no alert yet.
ListExpiring(j) ==
    /\ alerter[j] = NoAlert
    /\ \E expiring \in SUBSET {c \in InWallet : ~wallet[c].alerted} :
          /\ expiring # {}
          /\ alerter' = [alerter EXCEPT ![j].listed = expiring]
    /\ UNCHANGED <<wallet, adder, alerts>>

\* Mutant: the UPDATE does not ask whether the alert was sent.
ClaimAlways(j, c) ==
    /\ c \in alerter[j].listed
    /\ alerter[j].claimed = {}
    /\ wallet' = [wallet EXCEPT ![c].alerted = TRUE]
    /\ alerter' = [alerter EXCEPT ![j] = [listed |-> @.listed \ {c}, claimed |-> {c}]]
    /\ UNCHANGED <<adder, alerts>>

\* MarkExpirationAlertSent claims the card, or skips one that another instance
\* has claimed or the user has deleted.
Claim(j, c) ==
    LET free == c \in InWallet /\ ~wallet[c].alerted IN
    /\ c \in alerter[j].listed
    /\ alerter[j].claimed = {}
    /\ wallet' = IF free THEN [wallet EXCEPT ![c].alerted = TRUE] ELSE wallet
    /\ alerter' = [alerter EXCEPT ![j] =
           [listed |-> @.listed \ {c}, claimed |-> IF free THEN {c} ELSE {}]]
    /\ UNCHANGED <<adder, alerts>>

\* DispatchSync, before the next card is looked at.
Alert(j, c) ==
    /\ c \in alerter[j].claimed
    /\ alerts' = [alerts EXCEPT ![c] = @ + 1]
    /\ alerter' = [alerter EXCEPT ![j].claimed = {}]
    /\ UNCHANGED <<wallet, adder>>

\* A restart; a card that was claimed and not announced never will be.
CardsCrash ==
    /\ "crash" \in CardFaults
    /\ adder' = [a \in Adders |-> FALSE]
    /\ alerter' = [j \in Alerters |-> NoAlert]
    /\ UNCHANGED <<wallet, alerts>>

CardsNext ==
    \/ \E a \in Adders :
          \/ CountCards(a)
          \/ \E c \in CardIds, default \in BOOLEAN : AddCard(a, c, default)
          \/ AddFails(a)
    \/ \E c \in CardIds :
          \/ \E default \in BOOLEAN : SetDefault(c, default)
          \/ RemoveCard(c)
    \/ \E j \in Alerters :
          \/ ListExpiring(j)
          \/ \E c \in CardIds : Claim(j, c) \/ Alert(j, c)
    \/ CardsCrash

CardsSpec == CardsInit /\ [][CardsNext]_cardVars

-----------------------------------------------------------------------------
(* Properties *)

\* The cards exceed their maximum by at most the other requests that count at
\* once (handleConfirmPaymentMethod), and never is more than one the default.
WalletIsSound ==
    /\ Cardinality(InWallet) <= MaxCards + Cardinality(Adders) - 1
    /\ \A c, d \in InWallet : wallet[c].default /\ wallet[d].default => c = d

\* The user is told at most once that a card expires, whatever instances and
\* restarts of the job there are (MarkExpirationAlertSent).
AlertedOnce == \A c \in CardIds : alerts[c] <= 1
-----------------------------------------------------------------------------
(* The inductive form *)

Adding == {a \in Adders : adder[a]}

\* Every request that has passed the count may still add a card.
WalletIsCounted ==
    /\ IsFiniteSet(InWallet)
    /\ Cardinality(InWallet) + Cardinality(Adding) <= MaxCards + Cardinality(Adders) - 1

OneDefault ==
    /\ \A c \in CardIds : wallet[c].default => c \in InWallet
    /\ \A c, d \in CardIds : wallet[c].default /\ wallet[d].default => c = d

\* A card is announced by the instance that claimed it, and claimed once.
ClaimsAreOwn ==
    /\ \A c \in CardIds :
          /\ wallet[c].state = "unknown" => ~wallet[c].alerted
          /\ ~wallet[c].alerted => alerts[c] = 0
          /\ alerts[c] <= 1
    /\ \A j \in Alerters : \A c \in alerter[j].claimed :
          /\ wallet[c].alerted
          /\ alerts[c] = 0
          /\ \A k \in Alerters : c \in alerter[k].claimed => k = j

=============================================================================
