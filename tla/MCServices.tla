----------------------------- MODULE MCServices -----------------------------
(***************************************************************************)
(* Small instances, for TLC, of components that share no state:            *)
(* registration, payments, stored cards, the rate limiter, OAuth           *)
(* connections and constraint matching.  A behaviour exercises one of them *)
(* (subject) and leaves the others in an initial state.  Since none reads  *)
(* or writes another's variables, this checks what a run of each would.    *)
(***************************************************************************)
EXTENDS Registration, Payments, StoredCards, RateLimiter, OAuthConnections, MCMatching

CONSTANTS
    i1, i2, a1, a2, w1, w2, c1, c2, reg1, reg2, right1, wrong1,  \* registration
    p1, p2,                                                       \* Payers
    d1, d2, j1, j2,                                               \* Adders, Alerters
    k1, k2,                                                       \* Keys
    o1, o2, r1, r2                                                \* ConnIds, Refreshers

VARIABLE subject

-----------------------------------------------------------------------------
(* Registration: two requests with one invite, two codes, one of them wrong. *)

MCBody ==
    (reg1 :> [kind |-> "register", invite |-> i1]) @@
    (reg2 :> [kind |-> "register", invite |-> i1]) @@
    (right1 :> [kind |-> "verify", agent |-> a1, right |-> TRUE]) @@
    (wrong1 :> [kind |-> "verify", agent |-> a1, right |-> FALSE])

MCStamp == (reg1 :> 0) @@ (reg2 :> 1) @@ (right1 :> 1) @@ (wrong1 :> 0)

-----------------------------------------------------------------------------
\* The components being independent, one permutation may act on several of them:
\* two generators, each of which exchanges a pair in every component it touches.
Permuted ==
    {f1 @@ f2 @@ f3 @@ f4 @@ f5 @@ g1 @@ g2 @@ g3 :
        f1 \in Permutations(Servers), f2 \in Permutations(Payers), f3 \in Permutations(Adders),
        f4 \in Permutations(Keys), f5 \in Permutations(ConnIds),
        g1 \in Permutations(Creators), g2 \in Permutations(Alerters), g3 \in Permutations(Refreshers)}
Fixes(f, S) == \A x \in S : f[x] = x
Symmetry ==
    {f \in Permuted :
        /\ \A S \in {Payers, Adders, Keys, ConnIds} : Fixes(f, S) = Fixes(f, Servers)
        /\ \A S \in {Alerters, Refreshers} : Fixes(f, S) = Fixes(f, Creators)}

services == <<vars, payVars, cardVars, limiterVars, oauthVars, matchVars, subject>>

ServicesInit ==
    /\ subject \in {"registration", "payments", "cards", "limiter", "oauth", "matching"}
    /\ Init
    /\ PayInit
    /\ CardsInit
    /\ LimiterInit
    /\ OAuthInit
    /\ MatchInit
    /\ subject # "matching" =>
          asked = (CHOOSE r \in MCRequests : TRUE) /\ sas = (CHOOSE l \in MCCandidates : TRUE)

ServicesNext ==
    \/ /\ subject = "registration" /\ Next
       /\ UNCHANGED <<payVars, cardVars, limiterVars, oauthVars, matchVars, subject>>
    \/ /\ subject = "payments" /\ PayNext
       /\ UNCHANGED <<vars, cardVars, limiterVars, oauthVars, matchVars, subject>>
    \/ /\ subject = "cards" /\ CardsNext
       /\ UNCHANGED <<vars, payVars, limiterVars, oauthVars, matchVars, subject>>
    \/ /\ subject = "limiter" /\ LimiterNext
       /\ UNCHANGED <<vars, payVars, cardVars, oauthVars, matchVars, subject>>
    \/ /\ subject = "oauth" /\ OAuthNext
       /\ UNCHANGED <<vars, payVars, cardVars, limiterVars, matchVars, subject>>
    \/ /\ subject = "matching" /\ MatchNext
       /\ UNCHANGED <<vars, payVars, cardVars, limiterVars, oauthVars, subject>>

ServicesSpec == ServicesInit /\ [][ServicesNext]_services
=============================================================================
