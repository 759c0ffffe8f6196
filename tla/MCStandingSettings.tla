---- MODULE MCStandingSettings ----
(***************************************************************************)
(* StandingApprovals for TLC in two settings, each of the same constants   *)
(* or fewer: how grants change and are asked for, without time and with    *)
(* one goroutine running actions at a time; and how two goroutines run     *)
(* one request, or a grant by hand, while time passes.                     *)
(***************************************************************************)
EXTENDS MCStandingApprovals

VARIABLE setting

Granting == INSTANCE StandingApprovals WITH
    TTLs <- {}, MaxNow <- 0, Faults <- {"metadata", "audit"}
Running == INSTANCE StandingApprovals WITH
    Requests <- {}, RequestIds <- {r1}, Grants <- Open, Scopes <- {"exact"}, Faults <- {"metadata", "crash"}

Busy == {w \in Workers : job[w].pc # "idle"}

SettingsNext ==
    \/ /\ setting = "granting"
       /\ Granting!Next
       /\ Cardinality(Busy') <= 1
    \/ /\ setting = "running"
       /\ Running!Next

SettingsInit == Init /\ setting \in {"granting", "running"}

SettingsSpec == SettingsInit /\ [][SettingsNext /\ UNCHANGED setting]_<<vars, setting>>
====
