---- MODULE MCApprovals ----
(***************************************************************************)
(* Approvals for TLC in two settings: single approvals with two racing     *)
(* approver goroutines and failures, and one bulk group with one           *)
(* goroutine.  Both run in half seconds.                                   *)
(***************************************************************************)
EXTENDS Approvals, TLC

CONSTANTS a1, a2, r1, r2, h1, h2

\* In the second setting h2 never moves, so states that differ by it are not reached.
Symmetry == Permutations(ApprovalIds) \cup Permutations(RequestIds) \cup Permutations(Handlers)

VARIABLE setting

Bulk == INSTANCE Approvals WITH Handlers <- {h1}, MaxNow <- 2, Faults <- {}

\* In the first no group is requested, not even an empty one.
SettingsNext ==
    \/ /\ setting = "single"
       /\ Next
       /\ \A a \in ApprovalIds : approvals'[a].group = None
       /\ \A q \in Requesters : draft'[q] # None /\ draft'[q].stage = "inserted" => draft'[q].ids # {}
    \/ /\ setting = "bulk"
       /\ Bulk!Next

SettingsInit == Init /\ setting \in {"single", "bulk"}

SettingsSpec == SettingsInit /\ [][SettingsNext /\ UNCHANGED setting]_<<vars, setting>>
====
