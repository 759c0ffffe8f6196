--------------------------- MODULE ApprovalPromise ---------------------------
(***************************************************************************)
(* What the approval layer promises, without handlers, clocks or tables:   *)
(* an approval is opened once, leaves "open" once, for good, and only an   *)
(* approved one is handed to a connector, once.  What the agent is told is *)
(* the phase the approval is in.                                           *)
(***************************************************************************)
EXTENDS Naturals

CONSTANT ApprovalIds

VARIABLES
    phase,   \* where each approval stands
    calls,   \* connector calls made for it
    told     \* terminal phases the agent has been given

vars == <<phase, calls, told>>

Decisions == {"approved", "denied", "cancelled"}
Final == Decisions \cup {"expired"}

Init ==
    /\ phase = [a \in ApprovalIds |-> "absent"]
    /\ calls = [a \in ApprovalIds |-> 0]
    /\ told = {}

Move(ids, p) ==
    /\ phase' = [a \in ApprovalIds |-> IF a \in ids THEN p ELSE phase[a]]
    /\ UNCHANGED <<calls, told>>

\* The agent asks for some approvals at once; one whose lifetime has run out
\* before it is stored is born expired.
Open(ids, p) ==
    /\ p \in {"open", "expired"}
    /\ \A a \in ids : phase[a] = "absent"
    /\ Move(ids, p)

\* Time closes some open approvals.
Expire(ids) ==
    /\ \A a \in ids : phase[a] = "open"
    /\ Move(ids, "expired")

\* The approver, or for "cancelled" the agent, closes some open approvals.
Decide(ids, d) ==
    /\ d \in Decisions
    /\ \A a \in ids : phase[a] = "open"
    /\ Move(ids, d)

\* An approved action is executed.
Execute(a) ==
    /\ phase[a] = "approved"
    /\ calls[a] = 0
    /\ calls' = [calls EXCEPT ![a] = 1]
    /\ UNCHANGED <<phase, told>>

\* The agent learns how an approval ended.
Tell(a) ==
    /\ phase[a] \in Final
    /\ told' = told \cup {<<a, phase[a]>>}
    /\ UNCHANGED <<phase, calls>>

Next ==
    \/ \E ids \in SUBSET ApprovalIds :
          \/ \E p \in {"open", "expired"} : Open(ids, p)
          \/ Expire(ids)
          \/ \E d \in Decisions : Decide(ids, d)
    \/ \E a \in ApprovalIds : Execute(a) \/ Tell(a)

Spec == Init /\ [][Next]_vars
=============================================================================
