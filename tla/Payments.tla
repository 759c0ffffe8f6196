------------------------------ MODULE Payments ------------------------------
(***************************************************************************)
(* Stored cards and their spending limits.                                 *)
(*                                                                         *)
(* executeConnectorAction checks a card's limits, calls the connector and, *)
(* if it succeeds, records the amount: steps with no lock between them,    *)
(* while the user edits and deletes cards.  The monthly limit counts what  *)
(* was recorded in a rolling window.  One user is modelled: every query is *)
(* scoped to one.  How cards are added is in StoredCards.                  *)
(***************************************************************************)
EXTENDS Integers, FiniteSets, FiniteSetsExt, Functions

CONSTANTS
    Cards,          \* the user's cards
    Payers,         \* goroutines executing actions that need a card
    Charges,        \* executions, each of which may leave one transaction row
    Amounts,        \* amounts an action may ask for
    Limits,         \* monthly limits the user may set
    PerCharge,      \* per-transaction limits the user may set
    MonthTicks,     \* the rolling window
    LastTick,       \* bound: the last instant
    PayFaults,      \* failures of the environment: "record", "crash"
    NoLimit,        \* a limit that is NULL
    NoCharge

ASSUME AmountAssumption ==
    /\ Amounts \subseteq Nat
    /\ Limits \subseteq Nat
    /\ PerCharge \subseteq Nat
    /\ NoLimit \notin Nat
ASSUME PaymentsAssumption ==
    /\ {MonthTicks, LastTick} \subseteq Nat
    /\ NoCharge \notin Charges
\* Something is executed, by finitely many goroutines, and amounts are bounded.
ASSUME SpendingAssumption ==
    /\ IsFiniteSet(Charges)
    /\ IsFiniteSet(Payers) /\ Payers # {}
    /\ \E m \in Amounts : \A a \in Amounts : a <= m

VARIABLES
    clock,
    cards,     \* payment_methods
    rows,      \* payment_method_transactions, by the execution that wrote them
    payer,     \* executions in flight
    charged,   \* executions whose connector call succeeded
    cap        \* the largest limit a charge of each card was checked against

payVars == <<clock, cards, rows, payer, charged, cap>>

MonthlyLimit == Limits \cup {NoLimit}

Card == [stored : BOOLEAN, perCharge : PerCharge \cup {NoLimit}, monthly : MonthlyLimit]
NewCard == [stored |-> TRUE, perCharge |-> NoLimit, monthly |-> NoLimit]

\* A transaction row; where there is none, rows holds NoCharge.
TxRow == [card : Cards, amount : Amounts, at : Nat]

\* read: the card row is read; checked: the limits are met; called: to be recorded.
Payer == [pc : {"idle"}]
    \cup [pc : {"read", "checked", "called"}, charge : Charges, card : Cards,
          amount : Amounts, monthly : MonthlyLimit]

PayTypeOK ==
    /\ clock \in Nat
    /\ cards \in [Cards -> Card]
    /\ rows \in [Charges -> TxRow \cup {NoCharge}]
    /\ payer \in [Payers -> Payer]
    /\ charged \in SUBSET Charges
    /\ cap \in [Cards -> Nat \cup {NoLimit}]

AtRest == [pc |-> "idle"]

PayInit ==
    /\ clock = 0
    /\ cards = [c \in Cards |-> NewCard]
    /\ rows = [x \in Charges |-> NoCharge]
    /\ payer = [p \in Payers |-> AtRest]
    /\ charged = {}
    /\ cap = [c \in Cards |-> 0]

-----------------------------------------------------------------------------
(* Executing an action that needs a card *)

Stored == {c \in Cards : cards[c].stored}

\* What the query adds up for card c: the amounts since 30 days ago, inclusive.
Spent(c) ==
    [x \in Charges |->
        IF rows[x] # NoCharge /\ rows[x].card = c /\ rows[x].at >= clock - MonthTicks
        THEN rows[x].amount ELSE 0]

\* GetMonthlySpend: SUM(amount_cents).
MonthlySpend(c) == SumFunction(Spent(c))

\* An execution that was never started: each execution is started once.
Unused(x) == x \notin charged /\ \A p \in Payers : payer[p].pc # "idle" => payer[p].charge # x

\* validatePaymentMethod: the card is read and the per-transaction limit
\* enforced.  A missing card or a larger amount ends the execution.
ReadCard(p, x, c, amount) ==
    /\ payer[p] = AtRest
    /\ Unused(x)
    /\ c \in Stored
    /\ cards[c].perCharge # NoLimit => amount <= cards[c].perCharge
    /\ payer' = [payer EXCEPT ![p] = [pc |-> "read", charge |-> x, card |-> c,
                                      amount |-> amount, monthly |-> cards[c].monthly]]
    /\ UNCHANGED <<clock, cards, rows, charged, cap>>

\* Mutant: the amount asked for is not added to what was spent.
WithinLimitBefore(p) ==
    payer[p].monthly # NoLimit => MonthlySpend(payer[p].card) <= payer[p].monthly

\* amount > limit - spend, with the limit read before the spend.
WithinLimit(p) ==
    payer[p].monthly # NoLimit =>
        payer[p].amount <= payer[p].monthly - MonthlySpend(payer[p].card)

\* NULL is the largest limit.
Larger(l, m) == IF l = NoLimit \/ m = NoLimit THEN NoLimit ELSE Max({l, m})

\* The second query of validatePaymentMethod.
CheckMonth(p) ==
    /\ payer[p].pc = "read"
    /\ \/ /\ WithinLimit(p)
          /\ payer' = [payer EXCEPT ![p].pc = "checked"]
          /\ cap' = [cap EXCEPT ![payer[p].card] = Larger(@, payer[p].monthly)]
       \/ /\ ~WithinLimit(p)
          /\ payer' = [payer EXCEPT ![p] = AtRest]
          /\ UNCHANGED cap
    /\ UNCHANGED <<clock, cards, rows, charged>>

\* Mutant: a call that failed is recorded too.
CallRecordsFailure(p) ==
    /\ payer[p].pc = "checked"
    /\ \/ charged' = charged \cup {payer[p].charge}
       \/ UNCHANGED charged
    /\ payer' = [payer EXCEPT ![p].pc = "called"]
    /\ UNCHANGED <<clock, cards, rows, cap>>

\* action.Execute succeeds, or it fails and nothing is recorded.
Call(p) ==
    /\ payer[p].pc = "checked"
    /\ \/ /\ charged' = charged \cup {payer[p].charge}
          /\ payer' = [payer EXCEPT ![p].pc = "called"]
       \/ /\ payer' = [payer EXCEPT ![p] = AtRest]
          /\ UNCHANGED charged
    /\ UNCHANGED <<clock, cards, rows, cap>>

\* CreatePaymentMethodTransaction: its failure, such as a foreign key to a
\* deleted card or a deadline, is only logged.
Record(p) ==
    /\ payer[p].pc = "called"
    /\ \/ /\ payer[p].card \in Stored
          /\ rows' = [rows EXCEPT ![payer[p].charge] =
                 [card |-> payer[p].card, amount |-> payer[p].amount, at |-> clock]]
       \/ /\ payer[p].card \notin Stored \/ "record" \in PayFaults
          /\ UNCHANGED rows
    /\ payer' = [payer EXCEPT ![p] = AtRest]
    /\ UNCHANGED <<clock, cards, charged, cap>>

-----------------------------------------------------------------------------
(* The user's cards *)

\* handleUpdatePaymentMethod, which rejects a per-transaction limit above a
\* monthly limit of the same request.  A request may leave out a limit it does
\* not change, and is then not checked against it.
EditCard(c, per, month) ==
    /\ c \in Stored
    /\ per \notin {NoLimit, cards[c].perCharge} /\ month \notin {NoLimit, cards[c].monthly}
          => per <= month
    /\ cards' = [cards EXCEPT ![c].perCharge = per, ![c].monthly = month]
    /\ UNCHANGED <<clock, rows, payer, charged, cap>>

\* handleDeletePaymentMethod: the card's transactions go with it (ON DELETE
\* CASCADE).
DeleteCard(c) ==
    /\ c \in Stored
    /\ cards' = [cards EXCEPT ![c].stored = FALSE]
    /\ rows' = [x \in Charges |->
           IF rows[x] # NoCharge /\ rows[x].card = c THEN NoCharge ELSE rows[x]]
    /\ UNCHANGED <<clock, payer, charged, cap>>

-----------------------------------------------------------------------------

PayTick ==
    /\ clock < LastTick
    /\ clock' = clock + 1
    /\ UNCHANGED <<cards, rows, payer, charged, cap>>

\* A restart: money moved by a call in flight is never recorded.
PayCrash ==
    /\ "crash" \in PayFaults
    /\ payer' = [p \in Payers |-> AtRest]
    /\ UNCHANGED <<clock, cards, rows, charged, cap>>

PayNext ==
    \/ \E p \in Payers :
          \/ \E x \in Charges, c \in Cards, amount \in Amounts : ReadCard(p, x, c, amount)
          \/ CheckMonth(p)
          \/ Call(p)
          \/ Record(p)
    \/ \E c \in Cards :
          \/ \E per \in PerCharge \cup {NoLimit}, month \in MonthlyLimit : EditCard(c, per, month)
          \/ DeleteCard(c)
    \/ PayTick
    \/ PayCrash

PaySpec == PayInit /\ [][PayNext]_payVars

-----------------------------------------------------------------------------
(* Properties *)

\* What is checked against card c and may still be recorded.
Flying(c) ==
    [p \in Payers |->
        IF payer[p].pc \in {"checked", "called"} /\ payer[p].card = c THEN payer[p].amount ELSE 0]
InFlight(c) == SumFunction(Flying(c))

\* The overspend that validatePaymentMethod accepts is bounded: what a card
\* spent in a month, with what is still to be recorded, exceeds the largest
\* limit its charges were checked against by at most one charge for every other
\* execution that can be in flight.
OverspendIsBounded ==
    \A c \in Cards : cap[c] # NoLimit =>
        MonthlySpend(c) + InFlight(c) <= cap[c] + (Cardinality(Payers) - 1) * Max(Amounts)

\* A transaction row stands for a connector call that succeeded: neither a failed
\* call nor one cut short by a restart counts against the limit, and a row never
\* outlives its card.
RowsAreCharges ==
    \A x \in Charges : rows[x] # NoCharge => x \in charged /\ rows[x].card \in Stored
=============================================================================
