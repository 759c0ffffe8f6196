--------------------------- MODULE ExecutionProofs ---------------------------
(***************************************************************************)
(* What an execution uses besides the approval: the user's cards and their *)
(* transactions, and OAuth connections with their tokens, for any number   *)
(* of cards, connections and goroutines and any faults.  The three share   *)
(* no state, and each has its own invariant.                               *)
(***************************************************************************)
EXTENDS Payments, StoredCards, OAuthConnections, FiniteSetTheorems, TLAPS

-----------------------------------------------------------------------------
(* Sums over the values of a function, by SumFunction of the library.  A    *)
(* smallest set for which a fact fails stands for the induction.            *)

\* A set of subsets of a finite set has a smallest member.
LEMMA SmallestSubset ==
    ASSUME NEW S, IsFiniteSet(S), NEW T, T \subseteq SUBSET S, T # {}
    PROVE  \E s \in T : \A t \in T : t \subseteq s => t = s
<1>1. IsWellFoundedOn(StrictSubsetOrdering(S), SUBSET S)
  BY FS_StrictSubsetOrderingWellFounded, FS_FiniteSubsetsOfFinite
<1>2. PICK s \in T : \A t \in T : ~(<<t, s>> \in StrictSubsetOrdering(S))
  BY <1>1, WFMin
<1>3. ASSUME NEW t \in T, t \subseteq s, t # s PROVE FALSE
  <2>1. <<t, s>> \in (SUBSET S) \X (SUBSET S)
    OBVIOUS
  <2>2. <<t, s>> \in StrictSubsetOrdering(S)
    BY <2>1, <1>3 DEF StrictSubsetOrdering
  <2> QED
    BY <1>2, <2>2
<1> QED
  BY <1>3

\* The element the library takes out of a set first.
Pick(s) == CHOOSE x \in s : TRUE

LEMMA PickIsIn ==
    ASSUME NEW s, s # {}
    PROVE  Pick(s) \in s
BY DEF Pick

\* g adds up F over every subset of S.
Adds(F, S, g) ==
    \A s \in SUBSET S : g[s] = IF s = {} THEN 0 ELSE F[Pick(s)] + g[s \ {Pick(s)}]

\* There is one such g,
LEMMA AddsUnique ==
    ASSUME NEW S, IsFiniteSet(S), NEW F, NEW g, NEW h, Adds(F, S, g), Adds(F, S, h),
           NEW s \in SUBSET S
    PROVE  g[s] = h[s]
<1> DEFINE T == {t \in SUBSET S : g[t] # h[t]}
<1> HIDE DEF T
<1>1. SUFFICES ASSUME T # {} PROVE FALSE
  BY DEF T
<1>2. PICK t \in T : \A u \in T : u \subseteq t => u = t
  <2>1. T \subseteq SUBSET S
    BY DEF T
  <2> QED
    BY <1>1, <2>1, SmallestSubset
<1>3. t \in SUBSET S /\ g[t] # h[t]
  BY DEF T
<1>4. t # {}
  BY <1>3 DEF Adds
<1>5. Pick(t) \in t
  BY <1>4, PickIsIn
<1>6. t \ {Pick(t)} \in SUBSET S /\ t \ {Pick(t)} \notin T
  BY <1>2, <1>3, <1>5
<1>7. g[t \ {Pick(t)}] = h[t \ {Pick(t)}]
  BY <1>6 DEF T
<1> QED
  BY <1>3, <1>4, <1>7 DEF Adds

LEMMA AddsWithin ==
    ASSUME NEW S, NEW F, NEW g, Adds(F, S, g), NEW s \in SUBSET S
    PROVE  Adds(F, s, g)
<1>1. ASSUME NEW t \in SUBSET s PROVE t \in SUBSET S
  OBVIOUS
<1> QED
  BY <1>1 DEF Adds

\* and there is one.
LEMMA AddsExists ==
    ASSUME NEW S, IsFiniteSet(S), NEW F \in [S -> Nat]
    PROVE  \E g \in [SUBSET S -> Nat] : Adds(F, S, g)
<1> DEFINE Solves(s, g) == g \in [SUBSET s -> Nat] /\ Adds(F, s, g)
           T == {s \in SUBSET S : ~ \E g : Solves(s, g)}
           sol(s) == CHOOSE g : Solves(s, g)
<1>1. SUFFICES ASSUME T # {} PROVE FALSE
  <2>1. S \notin T
    BY <1>1
  <2> QED
    BY <2>1
<1> HIDE DEF T
<1>2. PICK s \in T : \A u \in T : u \subseteq s => u = s
  <2>1. T \subseteq SUBSET S
    BY DEF T
  <2> QED
    BY <1>1, <2>1, SmallestSubset
<1>3. s \in SUBSET S /\ ~ \E g : Solves(s, g)
  BY DEF T
<1>4. ASSUME NEW t \in SUBSET s, t # s PROVE Solves(t, sol(t))
  <2>1. t \notin T /\ t \in SUBSET S
    BY <1>2, <1>3, <1>4
  <2>2. \E g : Solves(t, g)
    BY <2>1 DEF T
  <2> HIDE DEF Solves
  <2> QED
    BY <2>2
<1> HIDE DEF sol
<1>5. ASSUME NEW t \in SUBSET s, t # s, t # {}
      PROVE  sol(t)[t] = F[Pick(t)] + sol(t \ {Pick(t)})[t \ {Pick(t)}]
  <2> DEFINE u == t \ {Pick(t)}
  <2>1. u \in SUBSET s /\ u # s /\ u \in SUBSET t
    BY <1>5
  <2>2. Solves(t, sol(t)) /\ Solves(u, sol(u))
    BY <1>4, <1>5, <2>1
  <2>3. IsFiniteSet(u)
    BY <1>3, <2>1, FS_Subset
  <2>4. Adds(F, u, sol(t))
    BY <2>1, <2>2, AddsWithin
  <2>5. sol(t)[u] = sol(u)[u]
    <3>1. Adds(F, u, sol(u)) /\ u \in SUBSET u
      BY <2>2
    <3> HIDE DEF u, Solves
    <3> QED
      BY <3>1, <2>3, <2>4, AddsUnique
  <2>6. sol(t)[t] = F[Pick(t)] + sol(t)[u]
    BY <2>2, <1>5 DEF Adds
  <2> QED
    BY <2>5, <2>6
<1> DEFINE lower(t) == IF t = {} THEN 0 ELSE sol(t)[t]
           g == [t \in SUBSET s |-> IF t # s THEN lower(t)
                                    ELSE IF s = {} THEN 0 ELSE F[Pick(s)] + lower(s \ {Pick(s)})]
<1>6. ASSUME NEW t \in SUBSET s, t # s PROVE lower(t) \in Nat
  <2>1. CASE t = {}
    BY <2>1
  <2>2. CASE t # {}
    <3>1. Solves(t, sol(t))
      BY <1>4, <1>6
    <3> QED
      BY <3>1, <2>2
  <2> QED
    BY <2>1, <2>2
<1>7. s # {} => Pick(s) \in s /\ F[Pick(s)] \in Nat /\ s \ {Pick(s)} \in SUBSET s /\ s \ {Pick(s)} # s
  BY <1>3, PickIsIn
<1>8. g \in [SUBSET s -> Nat]
  <2>1. ASSUME NEW t \in SUBSET s
        PROVE (IF t # s THEN lower(t)
               ELSE IF s = {} THEN 0 ELSE F[Pick(s)] + lower(s \ {Pick(s)})) \in Nat
    <3> HIDE DEF lower
    <3>1. CASE t # s
      BY <3>1, <1>6
    <3>2. CASE s = {}
      BY <3>1, <3>2
    <3>3. CASE t = s /\ s # {}
      <4>1. lower(s \ {Pick(s)}) \in Nat
        BY <1>6, <1>7, <3>3
      <4> QED
        BY <4>1, <1>7, <3>3
    <3> QED
      BY <3>1, <3>2, <3>3
  <2> HIDE DEF lower
  <2> QED
    BY <2>1
<1>9. ASSUME NEW t \in SUBSET s
      PROVE  g[t] = IF t = {} THEN 0 ELSE F[Pick(t)] + g[t \ {Pick(t)}]
  <2>1. CASE t = {}
    BY <2>1
  <2>2. CASE t # {}
    <3> DEFINE u == t \ {Pick(t)}
    <3>1. Pick(t) \in t /\ u \in SUBSET s /\ u # s
      BY <2>2, PickIsIn
    <3>2. g[u] = lower(u)
      BY <3>1
    <3>3. CASE t = s
      <4> HIDE DEF lower
      <4> QED
        BY <2>2, <3>2, <3>3
    <3>4. CASE t # s
      <4>1. g[t] = sol(t)[t]
        BY <2>2, <3>4
      <4>2. sol(t)[t] = F[Pick(t)] + sol(u)[u]
        BY <1>5, <2>2, <3>4
      <4>3. sol(u)[u] = lower(u)
        <5>1. CASE u = {}
          <6>1. Solves(u, sol(u))
            BY <1>4, <3>1
          <6>2. sol(u)[u] = 0
            BY <6>1, <5>1 DEF Adds
          <6> QED
            BY <6>2, <5>1
        <5>2. CASE u # {}
          BY <5>2
        <5> QED
          BY <5>1, <5>2
      <4> QED
        BY <2>2, <3>2, <4>1, <4>2, <4>3
    <3> QED
      BY <3>3, <3>4
  <2> QED
    BY <2>1, <2>2
<1>10. Adds(F, s, g)
  <2> HIDE DEF g
  <2> QED
    BY <1>9 DEF Adds
<1>11. Solves(s, g)
  BY <1>8, <1>10
<1> HIDE DEF g, Solves
<1> QED
  BY <1>3, <1>11

\* The sums of F over the subsets of its domain.
SumOver(F) == CHOOSE g : g = [s \in SUBSET DOMAIN F |->
    IF s = {} THEN 0 ELSE F[Pick(s)] + g[s \ {Pick(s)}]]

\* The library's sum is this one (SumFunction).
LEMMA SumIsSumOver ==
    ASSUME NEW F
    PROVE  SumFunction(F) = SumOver(F)[DOMAIN F]
BY DEF SumFunction, SumFunctionOnSet, FoldFunctionOnSet, MapThenFoldSet, SumOver, Pick

LEMMA SumOverAdds ==
    ASSUME NEW S, IsFiniteSet(S), NEW F \in [S -> Nat]
    PROVE  SumOver(F) \in [SUBSET S -> Nat] /\ Adds(F, S, SumOver(F))
<1> DEFINE body(g) == [s \in SUBSET S |-> IF s = {} THEN 0 ELSE F[Pick(s)] + g[s \ {Pick(s)}]]
<1>1. DOMAIN F = S
  OBVIOUS
<1>2. PICK g \in [SUBSET S -> Nat] : Adds(F, S, g)
  BY AddsExists
<1>3. g = body(g)
  BY <1>2 DEF Adds
<1>4. SumOver(F) = (CHOOSE h : h = body(h))
  BY <1>1 DEF SumOver
<1>5. SumOver(F) = body(SumOver(F))
  <2> HIDE DEF body
  <2> QED
    BY <1>3, <1>4
<1>6. Adds(F, S, SumOver(F))
  BY <1>5 DEF Adds
<1>7. ASSUME NEW s \in SUBSET S PROVE SumOver(F)[s] \in Nat
  <2>1. SumOver(F)[s] = g[s]
    BY <1>2, <1>6, AddsUnique
  <2> QED
    BY <2>1
<1>8. SumOver(F) = [s \in SUBSET S |-> SumOver(F)[s]]
  BY <1>5
<1> QED
  BY <1>6, <1>7, <1>8

\* Whichever element is taken out first, the sum is the same.
LEMMA SumRemove ==
    ASSUME NEW S, IsFiniteSet(S), NEW F \in [S -> Nat], NEW s \in SUBSET S, NEW x \in s
    PROVE  SumOver(F)[s] = F[x] + SumOver(F)[s \ {x}]
<1> DEFINE A == SumOver(F)
           T == {t \in SUBSET S : \E y \in t : A[t] # F[y] + A[t \ {y}]}
<1>1. A \in [SUBSET S -> Nat] /\ Adds(F, S, A)
  BY SumOverAdds
<1> HIDE DEF A, T
<1>2. SUFFICES ASSUME T # {} PROVE FALSE
  BY DEF T, A
<1>3. PICK t \in T : \A u \in T : u \subseteq t => u = t
  <2>1. T \subseteq SUBSET S
    BY DEF T
  <2> QED
    BY <1>2, <2>1, SmallestSubset
<1>4. PICK y \in t : A[t] # F[y] + A[t \ {y}]
  BY DEF T
<1>5. t \in SUBSET S
  BY DEF T
<1> DEFINE p == Pick(t)
<1>6. p \in t /\ A[t] = F[p] + A[t \ {p}]
  BY <1>1, <1>5, PickIsIn DEF Adds
<1> HIDE DEF p
<1>7. y # p
  BY <1>4, <1>6
<1>8. t \ {p} \in SUBSET S /\ y \in t \ {p} /\ t \ {p} \notin T
  BY <1>3, <1>5, <1>6, <1>7
<1>9. A[t \ {p}] = F[y] + A[(t \ {p}) \ {y}]
  BY <1>8 DEF T
<1>10. t \ {y} \in SUBSET S /\ p \in t \ {y} /\ t \ {y} \notin T
  BY <1>3, <1>5, <1>6, <1>7
<1>11. A[t \ {y}] = F[p] + A[(t \ {y}) \ {p}]
  BY <1>10 DEF T
<1>12. (t \ {p}) \ {y} = (t \ {y}) \ {p}
  OBVIOUS
<1>13. F[p] \in Nat /\ F[y] \in Nat /\ A[(t \ {y}) \ {p}] \in Nat
  BY <1>1, <1>5, <1>6
<1>14. A[(t \ {p}) \ {y}] = A[(t \ {y}) \ {p}]
  BY <1>12
<1>15. ASSUME NEW a \in Nat, NEW b \in Nat, NEW c \in Nat PROVE a + (b + c) = b + (a + c)
  OBVIOUS
<1>16. F[p] + A[t \ {p}] = F[y] + A[t \ {y}]
  BY <1>9, <1>11, <1>13, <1>14, <1>15
<1> QED
  BY <1>4, <1>6, <1>16

\* Smaller summands, a smaller sum.
LEMMA SumMonotone ==
    ASSUME NEW S, IsFiniteSet(S), NEW F \in [S -> Nat], NEW G \in [S -> Nat],
           NEW s \in SUBSET S, \A x \in s : F[x] <= G[x]
    PROVE  SumOver(F)[s] <= SumOver(G)[s]
<1> DEFINE A == SumOver(F)
           B == SumOver(G)
           T == {t \in SUBSET s : ~(A[t] <= B[t])}
<1>1. /\ A \in [SUBSET S -> Nat] /\ Adds(F, S, A)
      /\ B \in [SUBSET S -> Nat] /\ Adds(G, S, B)
  BY SumOverAdds
<1>2. ASSUME NEW t \in SUBSET s, NEW x \in t
      PROVE  A[t] = F[x] + A[t \ {x}] /\ B[t] = G[x] + B[t \ {x}]
  BY SumRemove
<1> HIDE DEF A, B, T
<1>3. SUFFICES ASSUME T # {} PROVE FALSE
  BY DEF T, A, B
<1>4. PICK t \in T : \A u \in T : u \subseteq t => u = t
  <2>1. T \subseteq SUBSET S
    BY DEF T
  <2> QED
    BY <1>3, <2>1, SmallestSubset
<1>5. t \in SUBSET s /\ t \in SUBSET S /\ ~(A[t] <= B[t])
  BY DEF T
<1>6. t # {}
  <2>1. A[{}] = 0 /\ B[{}] = 0
    BY <1>1 DEF Adds
  <2> QED
    BY <1>5, <2>1
<1>7. PICK x \in t : TRUE
  BY <1>6
<1>8. t \ {x} \in SUBSET s /\ t \ {x} \in SUBSET S /\ t \ {x} \notin T
  BY <1>4, <1>5
<1>9. A[t \ {x}] <= B[t \ {x}]
  BY <1>8 DEF T
<1>10. F[x] \in Nat /\ G[x] \in Nat /\ F[x] <= G[x] /\ A[t \ {x}] \in Nat /\ B[t \ {x}] \in Nat
  BY <1>1, <1>5, <1>8
<1>11. A[t] = F[x] + A[t \ {x}] /\ B[t] = G[x] + B[t \ {x}]
  BY <1>2, <1>5
<1>12. F[x] + A[t \ {x}] <= G[x] + B[t \ {x}]
  BY <1>9, <1>10
<1> QED
  BY <1>5, <1>11, <1>12

\* A sum is at most so many times the largest summand.
LEMMA SumBounded ==
    ASSUME NEW S, IsFiniteSet(S), NEW F \in [S -> Nat], NEW M \in Nat, \A x \in S : F[x] <= M,
           NEW s \in SUBSET S
    PROVE  SumOver(F)[s] <= Cardinality(s) * M
<1> DEFINE A == SumOver(F)
           T == {t \in SUBSET S : ~(A[t] <= Cardinality(t) * M)}
<1>1. A \in [SUBSET S -> Nat] /\ Adds(F, S, A)
  BY SumOverAdds
<1>2. ASSUME NEW t \in SUBSET S, NEW x \in t
      PROVE  A[t] = F[x] + A[t \ {x}]
  BY SumRemove
<1> HIDE DEF A, T
<1>3. SUFFICES ASSUME T # {} PROVE FALSE
  BY DEF T, A
<1>4. PICK t \in T : \A u \in T : u \subseteq t => u = t
  <2>1. T \subseteq SUBSET S
    BY DEF T
  <2> QED
    BY <1>3, <2>1, SmallestSubset
<1>5. t \in SUBSET S /\ ~(A[t] <= Cardinality(t) * M)
  BY DEF T
<1>6. t # {}
  <2>1. A[{}] = 0
    BY <1>1 DEF Adds
  <2>2. Cardinality({}) * M = 0
    BY FS_EmptySet
  <2> QED
    BY <1>5, <2>1, <2>2
<1>7. PICK x \in t : TRUE
  BY <1>6
<1>8. t \ {x} \in SUBSET S /\ t \ {x} \notin T
  BY <1>4, <1>5
<1>9. A[t \ {x}] <= Cardinality(t \ {x}) * M
  BY <1>8 DEF T
<1>10. IsFiniteSet(t) /\ IsFiniteSet(t \ {x})
  BY <1>5, <1>8, FS_Subset
<1>11. Cardinality(t) \in Nat /\ Cardinality(t \ {x}) = Cardinality(t) - 1
  BY <1>10, FS_RemoveElement, FS_CardinalityType, Zenon
<1>12. Cardinality(t) * M = Cardinality(t \ {x}) * M + M
  BY <1>11
<1>13. Cardinality(t \ {x}) * M \in Int /\ F[x] <= M /\ F[x] \in Nat /\ A[t \ {x}] \in Nat
  BY <1>1, <1>5, <1>8, <1>11
<1>14. F[x] + A[t \ {x}] <= Cardinality(t \ {x}) * M + M
  BY <1>9, <1>13
<1>15. A[t] = F[x] + A[t \ {x}]
  BY <1>2, <1>5
<1> QED
  BY <1>5, <1>12, <1>14, <1>15

\* One summand changes.
LEMMA SumReplace ==
    ASSUME NEW S, IsFiniteSet(S), NEW F \in [S -> Nat], NEW G \in [S -> Nat], NEW x \in S,
           \A y \in S \ {x} : F[y] = G[y]
    PROVE  /\ SumFunction(F) \in Nat /\ SumFunction(G) \in Nat
           /\ SumFunction(G) = SumFunction(F) - F[x] + G[x]
<1>1. SumFunction(F) = SumOver(F)[S] /\ SumFunction(G) = SumOver(G)[S]
  BY SumIsSumOver
<1>2. SumOver(F)[S] = F[x] + SumOver(F)[S \ {x}] /\ SumOver(G)[S] = G[x] + SumOver(G)[S \ {x}]
  BY SumRemove
<1>3. SumOver(F) \in [SUBSET S -> Nat] /\ SumOver(G) \in [SUBSET S -> Nat]
  BY SumOverAdds
<1>4. F[x] \in Nat /\ G[x] \in Nat /\ S \ {x} \in SUBSET S
  OBVIOUS
<1>5. SumOver(F)[S \ {x}] <= SumOver(G)[S \ {x}]
  <2>1. \A y \in S \ {x} : F[y] <= G[y]
    OBVIOUS
  <2> QED
    BY <1>4, <2>1, SumMonotone
<1>6. SumOver(G)[S \ {x}] <= SumOver(F)[S \ {x}]
  <2>1. \A y \in S \ {x} : G[y] <= F[y]
    OBVIOUS
  <2> QED
    BY <1>4, <2>1, SumMonotone
<1> QED
  BY <1>1, <1>2, <1>3, <1>4, <1>5, <1>6

LEMMA SumLess ==
    ASSUME NEW S, IsFiniteSet(S), NEW F \in [S -> Nat], NEW G \in [S -> Nat],
           \A y \in S : F[y] <= G[y]
    PROVE  SumFunction(F) \in Nat /\ SumFunction(G) \in Nat /\ SumFunction(F) <= SumFunction(G)
<1>1. SumFunction(F) = SumOver(F)[S] /\ SumFunction(G) = SumOver(G)[S]
  BY SumIsSumOver
<1>2. SumOver(F) \in [SUBSET S -> Nat] /\ SumOver(G) \in [SUBSET S -> Nat]
  BY SumOverAdds
<1>3. SumOver(F)[S] <= SumOver(G)[S]
  BY SumMonotone
<1> QED
  BY <1>1, <1>2, <1>3

\* The sum of all but one summand.
LEMMA SumOthers ==
    ASSUME NEW S, IsFiniteSet(S), NEW F \in [S -> Nat], NEW M \in Nat, \A y \in S : F[y] <= M,
           NEW x \in S
    PROVE  SumFunction(F) \in Nat /\ SumFunction(F) <= F[x] + (Cardinality(S) - 1) * M
<1>1. SumFunction(F) = SumOver(F)[S]
  BY SumIsSumOver
<1>2. SumOver(F)[S] = F[x] + SumOver(F)[S \ {x}]
  BY SumRemove
<1>3. SumOver(F)[S \ {x}] <= Cardinality(S \ {x}) * M
  BY SumBounded
<1>4. Cardinality(S) \in Nat /\ Cardinality(S \ {x}) = Cardinality(S) - 1
  BY FS_RemoveElement, FS_CardinalityType, Zenon
<1>5. SumOver(F) \in [SUBSET S -> Nat]
  BY SumOverAdds
<1>6. F[x] \in Nat /\ SumOver(F)[S \ {x}] \in Nat /\ SumOver(F)[S] \in Nat
  BY <1>5
<1>7. Cardinality(S \ {x}) * M = (Cardinality(S) - 1) * M
  BY <1>4
<1>8. (Cardinality(S) - 1) * M \in Int
  BY <1>4
<1> QED
  BY <1>1, <1>2, <1>3, <1>6, <1>7, <1>8

-----------------------------------------------------------------------------
(* Payments: transaction rows *)

\* Only a call that succeeded is about to be recorded.
CalledIsCharged == \A p \in Payers : payer[p].pc = "called" => payer[p].charge \in charged

PayInv == PayTypeOK /\ RowsAreCharges /\ CalledIsCharged

LEMMA PayInvInit == PayInit => PayInv
<1> SUFFICES ASSUME PayInit
             PROVE  PayInv
  OBVIOUS
<1>1. PayTypeOK
  BY DEF PayInit, PayTypeOK, NewCard, Card, MonthlyLimit, AtRest, Payer
<1>2. RowsAreCharges /\ CalledIsCharged
  BY DEF PayInit, RowsAreCharges, CalledIsCharged, AtRest
<1> QED
  BY <1>1, <1>2 DEF PayInv

\* The larger of two limits is a limit, and no smaller than either.
LEMMA LargerIsLimit ==
    ASSUME NEW l \in Nat \cup {NoLimit}, NEW m \in Nat \cup {NoLimit}
    PROVE  /\ Larger(l, m) \in Nat \cup {NoLimit}
           /\ Larger(l, m) # NoLimit => m \in Nat /\ m <= Larger(l, m)
<1>1. CASE l = NoLimit \/ m = NoLimit
  BY <1>1 DEF Larger
<1>2. CASE l \in Nat /\ m \in Nat
  <2>1. \E x \in {l, m} : \A y \in {l, m} : x >= y
    BY <1>2
  <2>2. Max({l, m}) \in {l, m} /\ \A y \in {l, m} : Max({l, m}) >= y
    BY <2>1 DEF Max
  <2>3. Larger(l, m) = Max({l, m})
    BY <1>2, AmountAssumption DEF Larger
  <2>4. QED
    BY <1>2, <2>2, <2>3
<1> QED
  BY <1>1, <1>2

LEMMA PayerFields ==
    ASSUME PayTypeOK, NEW p \in Payers, payer[p].pc # "idle"
    PROVE  /\ payer[p] \in [pc : {"read", "checked", "called"}, charge : Charges, card : Cards,
                            amount : Amounts, monthly : MonthlyLimit]
           /\ payer[p].charge \in Charges /\ payer[p].card \in Cards
           /\ payer[p].amount \in Amounts /\ payer[p].monthly \in MonthlyLimit
BY DEF PayTypeOK, Payer

LEMMA PayInvStep == PayInv /\ [PayNext]_payVars => PayInv'
<1> SUFFICES ASSUME PayInv, [PayNext]_payVars
             PROVE  PayInv'
  OBVIOUS
<1> USE DEF PayInv
<1>1. ASSUME NEW p \in Payers, NEW x \in Charges, NEW c \in Cards, NEW amount \in Amounts,
             ReadCard(p, x, c, amount)
      PROVE  PayInv'
  <2>1. cards[c].monthly \in MonthlyLimit
    BY DEF PayTypeOK, Card
  <2>2. PayTypeOK'
    BY <1>1, <2>1 DEF ReadCard, PayTypeOK, Payer
  <2>3. RowsAreCharges' /\ CalledIsCharged'
    BY <1>1 DEF ReadCard, PayTypeOK, RowsAreCharges, CalledIsCharged, Stored
  <2>4. QED
    BY <2>2, <2>3
<1>2. ASSUME NEW p \in Payers, CheckMonth(p)
      PROVE  PayInv'
  <2>1. /\ payer[p] \in [pc : {"read", "checked", "called"}, charge : Charges, card : Cards,
                         amount : Amounts, monthly : MonthlyLimit]
        /\ payer[p].card \in Cards /\ payer[p].monthly \in MonthlyLimit
    BY <1>2, PayerFields DEF CheckMonth
  <2>2. Larger(cap[payer[p].card], payer[p].monthly) \in Nat \cup {NoLimit}
    BY <2>1, LargerIsLimit, AmountAssumption DEF PayTypeOK, MonthlyLimit
  <2>3. PayTypeOK'
    BY <1>2, <2>1, <2>2 DEF CheckMonth, PayTypeOK, Payer, AtRest
  <2>4. RowsAreCharges' /\ CalledIsCharged'
    BY <1>2, <2>1 DEF CheckMonth, PayTypeOK, RowsAreCharges, CalledIsCharged, Stored, AtRest
  <2>5. QED
    BY <2>3, <2>4
<1>3. ASSUME NEW p \in Payers, Call(p)
      PROVE  PayInv'
  <2>1. /\ payer[p] \in [pc : {"read", "checked", "called"}, charge : Charges, card : Cards,
                         amount : Amounts, monthly : MonthlyLimit]
        /\ payer[p].charge \in Charges
    BY <1>3, PayerFields DEF Call
  <2>2. PayTypeOK'
    BY <1>3, <2>1 DEF Call, PayTypeOK, Payer, AtRest
  <2>3. RowsAreCharges' /\ CalledIsCharged'
    BY <1>3, <2>1 DEF Call, PayTypeOK, RowsAreCharges, CalledIsCharged, Stored, AtRest
  <2>4. QED
    BY <2>2, <2>3
<1>4. ASSUME NEW p \in Payers, Record(p)
      PROVE  PayInv'
  <2>1. /\ payer[p].charge \in Charges /\ payer[p].card \in Cards /\ payer[p].amount \in Amounts
        /\ payer[p].charge \in charged
    BY <1>4, PayerFields DEF Record, CalledIsCharged
  <2>2. PayTypeOK'
    BY <1>4, <2>1 DEF Record, PayTypeOK, Payer, AtRest, TxRow
  <2>3. RowsAreCharges' /\ CalledIsCharged'
    BY <1>4, <2>1 DEF Record, PayTypeOK, RowsAreCharges, CalledIsCharged, Stored, AtRest
  <2>4. QED
    BY <2>2, <2>3
<1>5. ASSUME NEW c \in Cards, NEW per \in PerCharge \cup {NoLimit}, NEW month \in MonthlyLimit,
             EditCard(c, per, month)
      PROVE  PayInv'
  <2>1. cards[c] \in Card
    BY DEF PayTypeOK
  <2>2. cards' \in [Cards -> Card]
    BY <1>5, <2>1 DEF EditCard, PayTypeOK, Card
  <2>3. \A d \in Cards : cards'[d].stored = cards[d].stored
    BY <1>5, <2>1 DEF EditCard, PayTypeOK, Card
  <2>4. PayTypeOK'
    BY <1>5, <2>2 DEF EditCard, PayTypeOK
  <2>5. RowsAreCharges' /\ CalledIsCharged'
    BY <1>5, <2>3 DEF EditCard, RowsAreCharges, CalledIsCharged, Stored
  <2>6. QED
    BY <2>4, <2>5
<1>6. ASSUME NEW c \in Cards, DeleteCard(c)
      PROVE  PayInv'
  <2>1. cards[c] \in Card
    BY DEF PayTypeOK
  <2>2. /\ cards' \in [Cards -> Card]
        /\ \A d \in Cards \ {c} : cards'[d] = cards[d]
    BY <1>6, <2>1 DEF DeleteCard, PayTypeOK, Card
  <2>3. PayTypeOK'
    BY <1>6, <2>2 DEF DeleteCard, PayTypeOK
  <2>4. RowsAreCharges' /\ CalledIsCharged'
    BY <1>6, <2>2 DEF DeleteCard, PayTypeOK, RowsAreCharges, CalledIsCharged, Stored
  <2>5. QED
    BY <2>3, <2>4
<1>7. CASE PayTick
  BY <1>7 DEF PayTick, PayTypeOK, RowsAreCharges, CalledIsCharged, Stored
<1>8. CASE PayCrash
  BY <1>8 DEF PayCrash, PayTypeOK, Payer, AtRest, RowsAreCharges, CalledIsCharged, Stored
<1>9. CASE UNCHANGED payVars
  BY <1>9 DEF payVars, PayTypeOK, RowsAreCharges, CalledIsCharged, Stored
<1> QED
  BY <1>1, <1>2, <1>3, <1>4, <1>5, <1>6, <1>7, <1>8, <1>9 DEF PayNext

LEMMA PayInvHolds == PaySpec => []PayInv
<1> QED
  BY PayInvInit, PayInvStep, PTL DEF PaySpec

\* Every value executions, edits, deletions and restarts leave in the payment
\* tables has its type (payment_methods, payment_method_transactions).
THEOREM PaymentsTyped == PaySpec => []PayTypeOK
<1>1. PayInv => PayTypeOK
  BY DEF PayInv
<1> QED
  BY <1>1, PayInvHolds, PTL

\* A transaction row stands for a call that succeeded and goes with its card,
\* however many executions, deletions and restarts overlap
\* (CreatePaymentMethodTransaction, ON DELETE CASCADE).
THEOREM ChargesAreReal == PaySpec => []RowsAreCharges
<1>1. PayInv => RowsAreCharges
  BY DEF PayInv
<1> QED
  BY <1>1, PayInvHolds, PTL

-----------------------------------------------------------------------------
(* Payments: what is spent *)

Margin == (Cardinality(Payers) - 1) * Max(Amounts)

\* OverspendIsBounded, card by card.
Bounded(c) == cap[c] # NoLimit => MonthlySpend(c) + InFlight(c) <= cap[c] + Margin

LEMMA MarginIsNat ==
    /\ Max(Amounts) \in Amounts /\ Max(Amounts) \in Nat
    /\ \A a \in Amounts : a \in Nat /\ a <= Max(Amounts)
    /\ Margin \in Nat
<1>1. PICK m \in Amounts : \A a \in Amounts : a <= m
  BY SpendingAssumption
<1>2. \A a \in Amounts : m >= a
  BY <1>1, AmountAssumption
<1>3. Max(Amounts) \in Amounts /\ \A a \in Amounts : Max(Amounts) >= a
  BY <1>2 DEF Max
<1>4. Max(Amounts) \in Nat /\ \A a \in Amounts : a \in Nat /\ a <= Max(Amounts)
  BY <1>3, AmountAssumption
<1>5. Cardinality(Payers) \in Nat /\ Cardinality(Payers) # 0
  BY SpendingAssumption, FS_CardinalityType, FS_EmptySet
<1>6. Cardinality(Payers) - 1 \in Nat
  BY <1>5
<1>7. Margin \in Nat
  BY <1>4, <1>6 DEF Margin
<1> QED
  BY <1>3, <1>4, <1>7

SpendTyped ==
    \A c \in Cards :
        /\ Spent(c) \in [Charges -> Nat] /\ Flying(c) \in [Payers -> Nat]
        /\ \A p \in Payers : Flying(c)[p] <= Max(Amounts)
        /\ MonthlySpend(c) \in Nat /\ InFlight(c) \in Nat

LEMMA SpendTypes == PayTypeOK => SpendTyped
<1> SUFFICES ASSUME PayTypeOK, NEW c \in Cards
             PROVE  /\ Spent(c) \in [Charges -> Nat] /\ Flying(c) \in [Payers -> Nat]
                    /\ \A p \in Payers : Flying(c)[p] <= Max(Amounts)
                    /\ MonthlySpend(c) \in Nat /\ InFlight(c) \in Nat
  BY DEF SpendTyped
<1>1. ASSUME NEW x \in Charges, rows[x] # NoCharge PROVE rows[x].amount \in Nat
  BY <1>1, AmountAssumption DEF PayTypeOK, TxRow
<1>2. Spent(c) \in [Charges -> Nat]
  BY <1>1 DEF Spent
<1>3. ASSUME NEW p \in Payers, payer[p].pc \in {"checked", "called"}
      PROVE  payer[p].amount \in Nat /\ payer[p].amount <= Max(Amounts)
  BY <1>3, PayerFields, MarginIsNat
<1>4. Flying(c) \in [Payers -> Nat] /\ \A p \in Payers : Flying(c)[p] <= Max(Amounts)
  BY <1>3, MarginIsNat DEF Flying
<1>5. MonthlySpend(c) \in Nat
  <2>1. \A x \in Charges : Spent(c)[x] <= Spent(c)[x]
    BY <1>2
  <2> QED
    BY <1>2, <2>1, SumLess, SpendingAssumption DEF MonthlySpend
<1>6. InFlight(c) \in Nat
  <2>1. \A p \in Payers : Flying(c)[p] <= Flying(c)[p]
    BY <1>4
  <2> QED
    BY <1>4, <2>1, SumLess, SpendingAssumption DEF InFlight
<1> QED
  BY <1>2, <1>4, <1>5, <1>6

\* Nothing is added to what card c spends.
SpendsLess(c) ==
    /\ cap'[c] = cap[c]
    /\ \A x \in Charges : Spent(c)'[x] <= Spent(c)[x]
    /\ \A p \in Payers : Flying(c)'[p] <= Flying(c)[p]

LEMMA SpendsLessKeeps ==
    ASSUME PayTypeOK, PayTypeOK', NEW c \in Cards, Bounded(c), SpendsLess(c)
    PROVE  Bounded(c)'
<1>1. /\ Spent(c) \in [Charges -> Nat] /\ Flying(c) \in [Payers -> Nat]
      /\ Spent(c)' \in [Charges -> Nat] /\ Flying(c)' \in [Payers -> Nat]
      /\ MonthlySpend(c) \in Nat /\ InFlight(c) \in Nat
      /\ MonthlySpend(c)' \in Nat /\ InFlight(c)' \in Nat
  <2>1. PayTypeOK' => SpendTyped'
    BY SpendTypes, PTL
  <2> QED
    BY <2>1, SpendTypes DEF SpendTyped
<1>2. MonthlySpend(c)' <= MonthlySpend(c)
  BY <1>1, SumLess, SpendingAssumption DEF MonthlySpend, SpendsLess
<1>3. InFlight(c)' <= InFlight(c)
  BY <1>1, SumLess, SpendingAssumption DEF InFlight, SpendsLess
<1>4. cap'[c] = cap[c] /\ cap[c] \in Nat \cup {NoLimit}
  BY DEF SpendsLess, PayTypeOK
<1>5. Margin \in Nat /\ Margin' = Margin
  BY MarginIsNat DEF Margin
<1> QED
  BY <1>1, <1>2, <1>3, <1>4, <1>5 DEF Bounded

\* The check leaves room for the amount under the limit it read; the others in
\* flight are the margin.
LEMMA CheckedIsBounded ==
    ASSUME PayTypeOK, PayTypeOK', NEW p \in Payers, NEW c \in Cards, payer[p].card = c,
           CheckMonth(p), WithinLimit(p),
           payer' = [payer EXCEPT ![p].pc = "checked"],
           cap' = [cap EXCEPT ![payer[p].card] = Larger(@, payer[p].monthly)]
    PROVE  Bounded(c)'
<1> DEFINE m == payer[p].monthly
           a == payer[p].amount
<1>1. payer[p] \in [pc : {"read", "checked", "called"}, charge : Charges, card : Cards,
                    amount : Amounts, monthly : MonthlyLimit]
  BY PayerFields DEF CheckMonth
<1>2. a \in Amounts /\ m \in MonthlyLimit
  BY <1>1
<1>3. /\ payer'[p].pc = "checked" /\ payer'[p].card = c /\ payer'[p].amount = a
      /\ UNCHANGED <<rows, clock>>
  BY <1>1 DEF CheckMonth, PayTypeOK
<1>4. cap[c] \in Nat \cup {NoLimit} /\ m \in Nat \cup {NoLimit}
  BY <1>2, AmountAssumption DEF PayTypeOK, MonthlyLimit
<1>5. cap'[c] = Larger(cap[c], m) /\ cap'[c] \in Nat \cup {NoLimit}
  BY <1>2 DEF PayTypeOK
<1>6. m # NoLimit => a <= m - MonthlySpend(c)
  BY DEF WithinLimit
<1> HIDE DEF m, a
<1>7. ASSUME cap'[c] # NoLimit
      PROVE  m \in Nat /\ cap'[c] \in Nat /\ m <= cap'[c] /\ a <= m - MonthlySpend(c)
  <2>1. m \in Nat /\ m <= cap'[c]
    BY <1>4, <1>5, <1>7, LargerIsLimit
  <2> QED
    BY <1>5, <1>6, <1>7, <2>1, AmountAssumption
<1>8. /\ SpendTyped /\ SpendTyped'
  <2>1. PayTypeOK' => SpendTyped'
    BY SpendTypes, PTL
  <2> QED
    BY <2>1, SpendTypes
<1>9. /\ MonthlySpend(c) \in Nat /\ MonthlySpend(c)' \in Nat /\ InFlight(c)' \in Nat
      /\ Flying(c)' \in [Payers -> Nat]
      /\ \A q \in Payers : Flying(c)'[q] <= Max(Amounts)
  BY <1>8 DEF SpendTyped
<1>10. MonthlySpend(c)' = MonthlySpend(c)
  BY <1>3 DEF MonthlySpend, Spent
<1>11. Flying(c)'[p] = a
  BY <1>3 DEF Flying
<1>12. InFlight(c)' <= a + Margin
  BY <1>9, <1>11, SumOthers, MarginIsNat, SpendingAssumption DEF InFlight, Margin
<1>13. a \in Nat /\ Margin \in Nat /\ Margin' = Margin
  BY <1>2, MarginIsNat DEF Margin
<1>14. ASSUME cap'[c] # NoLimit PROVE MonthlySpend(c)' + InFlight(c)' <= cap'[c] + Margin
  <2>1. m \in Nat /\ cap'[c] \in Nat /\ m <= cap'[c] /\ a <= m - MonthlySpend(c)
    BY <1>7, <1>14
  <2> QED
    BY <1>9, <1>10, <1>12, <1>13, <2>1
<1> QED
  BY <1>13, <1>14 DEF Bounded

\* A recorded charge moves from what is in flight to what was spent.
LEMMA RecordedIsBounded ==
    ASSUME PayTypeOK, PayTypeOK', NEW p \in Payers, NEW c \in Cards, payer[p].card = c,
           Bounded(c), Record(p),
           rows' = [rows EXCEPT ![payer[p].charge] =
                      [card |-> payer[p].card, amount |-> payer[p].amount, at |-> clock]]
    PROVE  Bounded(c)'
<1> DEFINE x == payer[p].charge
           a == payer[p].amount
<1>1. x \in Charges /\ a \in Amounts /\ payer[p].pc = "called"
  BY PayerFields DEF Record
<1>2. /\ payer'[p].pc = "idle" /\ \A q \in Payers \ {p} : payer'[q] = payer[q]
      /\ rows'[x] = [card |-> c, amount |-> a, at |-> clock]
      /\ \A y \in Charges \ {x} : rows'[y] = rows[y]
      /\ cap' = cap /\ clock' = clock
  BY <1>1 DEF Record, PayTypeOK, AtRest
<1>3. SpendTyped /\ SpendTyped'
  <2>1. PayTypeOK' => SpendTyped'
    BY SpendTypes, PTL
  <2> QED
    BY <2>1, SpendTypes
<1>4. /\ Spent(c) \in [Charges -> Nat] /\ Flying(c) \in [Payers -> Nat]
      /\ Spent(c)' \in [Charges -> Nat] /\ Flying(c)' \in [Payers -> Nat]
  BY <1>3 DEF SpendTyped
<1> HIDE DEF x, a
<1>5. a \in Nat /\ Margin \in Nat /\ Margin' = Margin
  BY <1>1, MarginIsNat DEF Margin
<1>6. Spent(c)'[x] \in {0, a} /\ \A y \in Charges \ {x} : Spent(c)[y] = Spent(c)'[y]
  BY <1>1, <1>2 DEF Spent
<1>7. Flying(c)[p] = a /\ Flying(c)'[p] = 0 /\ \A q \in Payers \ {p} : Flying(c)[q] = Flying(c)'[q]
  BY <1>1, <1>2 DEF Flying, a
<1>8. /\ MonthlySpend(c) \in Nat /\ MonthlySpend(c)' \in Nat
      /\ MonthlySpend(c)' = MonthlySpend(c) - Spent(c)[x] + Spent(c)'[x]
  BY <1>1, <1>4, <1>6, SumReplace, SpendingAssumption DEF MonthlySpend
<1>9. /\ InFlight(c) \in Nat /\ InFlight(c)' \in Nat
      /\ InFlight(c)' = InFlight(c) - a + 0
  BY <1>4, <1>7, SumReplace, SpendingAssumption DEF InFlight
<1>10. Spent(c)[x] \in Nat
  BY <1>1, <1>4
<1>11. MonthlySpend(c)' + InFlight(c)' <= MonthlySpend(c) + InFlight(c)
  BY <1>5, <1>6, <1>8, <1>9, <1>10
<1>12. cap'[c] = cap[c] /\ cap[c] \in Nat \cup {NoLimit}
  BY <1>2 DEF PayTypeOK
<1> QED
  BY <1>5, <1>8, <1>9, <1>11, <1>12 DEF Bounded

\* Every step keeps the bound: two add to one side, the others to none.
LEMMA BoundedStep ==
    ASSUME PayTypeOK, PayTypeOK', [PayNext]_payVars, NEW c \in Cards, Bounded(c)
    PROVE  Bounded(c)'
<1> DEFINE SameSpent == \A x \in Charges : Spent(c)'[x] <= Spent(c)[x]
           SameFlying == \A q \in Payers : Flying(c)'[q] <= Flying(c)[q]
<1>1. /\ Spent(c) \in [Charges -> Nat] /\ Flying(c) \in [Payers -> Nat]
  BY SpendTypes DEF SpendTyped
<1>2. ASSUME UNCHANGED <<rows, clock>> PROVE SameSpent
  <2>1. Spent(c)' = Spent(c)
    BY <1>2 DEF Spent
  <2> QED
    BY <1>1, <2>1
<1>3. ASSUME UNCHANGED payer PROVE SameFlying
  <2>1. Flying(c)' = Flying(c)
    BY <1>3 DEF Flying
  <2> QED
    BY <1>1, <2>1
\* A goroutine that was not, or is no more, in flight for c.
<1>4. ASSUME NEW p \in Payers, \A q \in Payers \ {p} : payer'[q] = payer[q],
             payer'[p].pc \in {"checked", "called"} =>
                 \/ payer'[p].card # c
                 \/ /\ payer[p].pc \in {"checked", "called"}
                    /\ payer'[p].card = payer[p].card /\ payer'[p].amount = payer[p].amount
      PROVE  SameFlying
  <2>1. ASSUME NEW q \in Payers \ {p} PROVE Flying(c)'[q] = Flying(c)[q]
    BY <1>4 DEF Flying
  <2>2. Flying(c)'[p] = 0 \/ Flying(c)'[p] = Flying(c)[p]
    BY <1>4 DEF Flying
  <2>3. ASSUME NEW q \in Payers PROVE Flying(c)'[q] <= Flying(c)[q]
    <3>1. Flying(c)[q] \in Nat
      BY <1>1
    <3>2. Flying(c)'[q] = 0 \/ Flying(c)'[q] = Flying(c)[q]
      BY <2>1, <2>2
    <3> QED
      BY <3>1, <3>2
  <2> QED
    BY <2>3
<1>5. ASSUME SameSpent, SameFlying, cap'[c] = cap[c] PROVE Bounded(c)'
  BY <1>5, SpendsLessKeeps DEF SpendsLess
<1> HIDE DEF SameSpent, SameFlying
<1>6. ASSUME NEW p \in Payers, NEW x \in Charges, NEW d \in Cards, NEW amount \in Amounts,
             ReadCard(p, x, d, amount)
      PROVE  Bounded(c)'
  <2>1. payer'[p].pc = "read" /\ \A q \in Payers \ {p} : payer'[q] = payer[q]
    BY <1>6 DEF ReadCard, PayTypeOK
  <2> QED
    BY <1>2, <1>4, <1>5, <1>6, <2>1 DEF ReadCard
<1>7. ASSUME NEW p \in Payers, CheckMonth(p)
      PROVE  Bounded(c)'
  <2>0. payer[p] \in [pc : {"read", "checked", "called"}, charge : Charges, card : Cards,
                      amount : Amounts, monthly : MonthlyLimit]
    BY <1>7, PayerFields DEF CheckMonth
  <2>1. CASE /\ WithinLimit(p)
             /\ payer' = [payer EXCEPT ![p].pc = "checked"]
             /\ cap' = [cap EXCEPT ![payer[p].card] = Larger(@, payer[p].monthly)]
    <3>1. CASE payer[p].card = c
      BY <1>7, <2>1, <3>1, CheckedIsBounded
    <3>2. CASE payer[p].card # c
      <4>1. payer'[p].card # c /\ \A q \in Payers \ {p} : payer'[q] = payer[q]
        BY <2>0, <2>1, <3>2 DEF PayTypeOK
      <4>2. cap'[c] = cap[c]
        BY <2>1, <3>2 DEF PayTypeOK
      <4> QED
        BY <1>2, <1>4, <1>5, <1>7, <4>1, <4>2 DEF CheckMonth
    <3> QED
      BY <3>1, <3>2
  <2>2. CASE payer' = [payer EXCEPT ![p] = AtRest] /\ UNCHANGED cap
    <3>1. payer'[p].pc = "idle" /\ \A q \in Payers \ {p} : payer'[q] = payer[q]
      BY <2>2 DEF PayTypeOK, AtRest
    <3> QED
      BY <1>2, <1>4, <1>5, <1>7, <2>2, <3>1 DEF CheckMonth
  <2> QED
    BY <1>7, <2>1, <2>2 DEF CheckMonth
<1>8. ASSUME NEW p \in Payers, Call(p)
      PROVE  Bounded(c)'
  <2>0. payer[p] \in [pc : {"read", "checked", "called"}, charge : Charges, card : Cards,
                      amount : Amounts, monthly : MonthlyLimit]
    BY <1>8, PayerFields DEF Call
  <2>1. payer[p].pc = "checked" /\ UNCHANGED <<rows, clock, cap>>
    BY <1>8 DEF Call
  <2>2. CASE payer' = [payer EXCEPT ![p].pc = "called"]
    <3>1. /\ payer'[p].card = payer[p].card /\ payer'[p].amount = payer[p].amount
          /\ \A q \in Payers \ {p} : payer'[q] = payer[q]
      BY <2>0, <2>2 DEF PayTypeOK
    <3> QED
      BY <1>2, <1>4, <1>5, <2>1, <3>1
  <2>3. CASE payer' = [payer EXCEPT ![p] = AtRest]
    <3>1. payer'[p].pc = "idle" /\ \A q \in Payers \ {p} : payer'[q] = payer[q]
      BY <2>3 DEF PayTypeOK, AtRest
    <3> QED
      BY <1>2, <1>4, <1>5, <2>1, <3>1
  <2> QED
    BY <1>8, <2>2, <2>3 DEF Call
<1>9. ASSUME NEW p \in Payers, Record(p)
      PROVE  Bounded(c)'
  <2>1. /\ payer'[p].pc = "idle" /\ \A q \in Payers \ {p} : payer'[q] = payer[q]
        /\ UNCHANGED <<clock, cap>>
    BY <1>9 DEF Record, PayTypeOK, AtRest
  <2>2. CASE UNCHANGED rows
    BY <1>2, <1>4, <1>5, <2>1, <2>2
  <2>3. CASE rows' = [rows EXCEPT ![payer[p].charge] =
                 [card |-> payer[p].card, amount |-> payer[p].amount, at |-> clock]]
    <3>1. CASE payer[p].card = c
      BY <1>9, <2>3, <3>1, RecordedIsBounded
    <3>2. CASE payer[p].card # c
      <4>1. ASSUME NEW x \in Charges PROVE Spent(c)'[x] = 0 \/ Spent(c)'[x] = Spent(c)[x]
        <5>1. CASE x = payer[p].charge
          <6>1. rows'[x].card # c
            BY <2>3, <3>2, <5>1 DEF PayTypeOK
          <6> QED
            BY <6>1 DEF Spent
        <5>2. CASE x # payer[p].charge
          <6>1. rows'[x] = rows[x]
            BY <2>3, <5>2 DEF PayTypeOK
          <6> QED
            BY <2>1, <6>1 DEF Spent
        <5> QED
          BY <5>1, <5>2
      <4>2. SameSpent
        <5>1. ASSUME NEW x \in Charges PROVE Spent(c)'[x] <= Spent(c)[x]
          <6>1. Spent(c)[x] \in Nat
            BY <1>1
          <6> QED
            BY <4>1, <6>1
        <5> QED
          BY <5>1 DEF SameSpent
      <4> QED
        BY <1>4, <1>5, <2>1, <4>2
    <3> QED
      BY <3>1, <3>2
  <2> QED
    BY <1>9, <2>2, <2>3 DEF Record
<1>10. ASSUME NEW d \in Cards, DeleteCard(d)
       PROVE  Bounded(c)'
  <2>1. ASSUME NEW x \in Charges PROVE Spent(c)'[x] <= Spent(c)[x]
    <3>1. rows'[x] = NoCharge \/ rows'[x] = rows[x]
      BY <1>10 DEF DeleteCard
    <3>2. Spent(c)'[x] = 0 \/ Spent(c)'[x] = Spent(c)[x]
      BY <1>10, <3>1 DEF DeleteCard, Spent
    <3>3. Spent(c)[x] \in Nat
      BY <1>1
    <3> QED
      BY <3>2, <3>3
  <2>2. SameSpent
    BY <2>1 DEF SameSpent
  <2> QED
    BY <1>3, <1>5, <1>10, <2>2 DEF DeleteCard
<1>11. CASE PayTick
  <2>1. ASSUME NEW x \in Charges PROVE Spent(c)'[x] <= Spent(c)[x]
    <3>1. Spent(c)[x] \in Nat
      BY <1>1
    <3>2. rows[x] # NoCharge => rows[x].at \in Nat
      BY DEF PayTypeOK, TxRow
    <3>3. rows[x] # NoCharge /\ rows[x].at >= clock' - MonthTicks => rows[x].at >= clock - MonthTicks
      BY <1>11, <3>2, PaymentsAssumption DEF PayTick, PayTypeOK
    <3>4. Spent(c)'[x] = 0 \/ Spent(c)'[x] = Spent(c)[x]
      BY <1>11, <3>3 DEF PayTick, Spent
    <3> QED
      BY <3>1, <3>4
  <2>2. SameSpent
    BY <2>1 DEF SameSpent
  <2> QED
    BY <1>3, <1>5, <1>11, <2>2 DEF PayTick
<1>12. CASE PayCrash
  <2>1. ASSUME NEW q \in Payers PROVE Flying(c)'[q] <= Flying(c)[q]
    <3>1. Flying(c)'[q] = 0
      BY <1>12 DEF PayCrash, Flying, AtRest
    <3>2. Flying(c)[q] \in Nat
      BY <1>1
    <3> QED
      BY <3>1, <3>2
  <2>2. SameFlying
    BY <2>1 DEF SameFlying
  <2> QED
    BY <1>2, <1>5, <1>12, <2>2 DEF PayCrash
<1>13. ASSUME NEW d \in Cards, NEW per \in PerCharge \cup {NoLimit}, NEW month \in MonthlyLimit,
              EditCard(d, per, month)
       PROVE  Bounded(c)'
  BY <1>2, <1>3, <1>5, <1>13 DEF EditCard
<1>14. CASE UNCHANGED payVars
  BY <1>2, <1>3, <1>5, <1>14 DEF payVars
<1> QED
  BY <1>6, <1>7, <1>8, <1>9, <1>10, <1>11, <1>12, <1>13, <1>14 DEF PayNext

LEMMA BoundedInit == PayInit /\ PayTypeOK => \A c \in Cards : Bounded(c)
<1> SUFFICES ASSUME PayInit, PayTypeOK, NEW c \in Cards
             PROVE  Bounded(c)
  OBVIOUS
<1>1. Spent(c) \in [Charges -> Nat] /\ Flying(c) \in [Payers -> Nat]
  BY SpendTypes DEF SpendTyped
<1>2. \A x \in Charges : Spent(c)[x] <= 0
  BY DEF PayInit, Spent
<1>3. \A p \in Payers : Flying(c)[p] <= 0
  BY DEF PayInit, Flying, AtRest
<1>4. MonthlySpend(c) = 0
  <2>1. SumFunction(Spent(c)) = SumOver(Spent(c))[Charges]
    BY <1>1, SumIsSumOver
  <2>2. SumOver(Spent(c))[Charges] <= Cardinality(Charges) * 0
    BY <1>1, <1>2, SumBounded, SpendingAssumption
  <2>3. Cardinality(Charges) * 0 = 0
    BY FS_CardinalityType, SpendingAssumption
  <2>4. MonthlySpend(c) \in Nat
    BY SpendTypes DEF SpendTyped
  <2> QED
    BY <2>1, <2>2, <2>3, <2>4 DEF MonthlySpend
<1>5. InFlight(c) = 0
  <2>1. SumFunction(Flying(c)) = SumOver(Flying(c))[Payers]
    BY <1>1, SumIsSumOver
  <2>2. SumOver(Flying(c))[Payers] <= Cardinality(Payers) * 0
    BY <1>1, <1>3, SumBounded, SpendingAssumption
  <2>3. Cardinality(Payers) * 0 = 0
    BY FS_CardinalityType, SpendingAssumption
  <2>4. InFlight(c) \in Nat
    BY SpendTypes DEF SpendTyped
  <2> QED
    BY <2>1, <2>2, <2>3, <2>4 DEF InFlight
<1>6. cap[c] = 0
  BY DEF PayInit
<1> QED
  BY <1>4, <1>5, <1>6, MarginIsNat DEF Bounded

LEMMA SpendingHolds == PaySpec => [](PayInv /\ \A c \in Cards : Bounded(c))
<1> DEFINE Inv == PayInv /\ \A c \in Cards : Bounded(c)
<1>1. PayInit => Inv
  BY PayInvInit, BoundedInit DEF PayInv
<1>2. Inv /\ [PayNext]_payVars => Inv'
  <2> SUFFICES ASSUME Inv, [PayNext]_payVars
               PROVE  Inv'
    OBVIOUS
  <2>1. PayInv'
    BY PayInvStep
  <2>2. ASSUME NEW c \in Cards PROVE Bounded(c)'
    BY <2>1, BoundedStep DEF PayInv
  <2> QED
    BY <2>1, <2>2
<1> QED
  BY <1>1, <1>2, PTL DEF PaySpec

\* However many executions check a card's limit before any of them is recorded,
\* what it spends in a month exceeds the largest limit they were checked against
\* by at most one charge for every other execution (validatePaymentMethod).
THEOREM SpendingBounded == PaySpec => []OverspendIsBounded
<1>1. (\A c \in Cards : Bounded(c)) => OverspendIsBounded
  BY DEF Bounded, OverspendIsBounded, Margin
<1> QED
  BY <1>1, SpendingHolds, PTL

-----------------------------------------------------------------------------
(* Stored cards: types *)

CardInv == CardsTypeOK /\ WalletIsCounted /\ OneDefault /\ ClaimsAreOwn

\* What clearing the default leaves.
LEMMA UndefaultKeeps ==
    ASSUME CardsTypeOK
    PROVE  /\ Undefault \in [CardIds -> WalletRow]
           /\ \A c \in CardIds : /\ Undefault[c].state = wallet[c].state
                                 /\ Undefault[c].alerted = wallet[c].alerted
                                 /\ Undefault[c].default = FALSE
<1>1. \A c \in CardIds : wallet[c] \in WalletRow
  BY DEF CardsTypeOK
<1> QED
  BY <1>1 DEF Undefault, WalletRow

\* Adding a card changes that row, and of the others at most the default.
LEMMA AddCardWallet ==
    ASSUME CardsTypeOK, NEW a \in Adders, NEW c \in CardIds, NEW default \in BOOLEAN,
           AddCard(a, c, default)
    PROVE  /\ wallet' \in [CardIds -> WalletRow]
           /\ wallet'[c].state = "stored"
           /\ wallet'[c].default = default
           /\ wallet'[c].alerted = FALSE
           /\ \A d \in CardIds \ {c} :
                 /\ wallet'[d].state = wallet[d].state
                 /\ wallet'[d].alerted = wallet[d].alerted
                 /\ wallet'[d].default = (~default /\ wallet[d].default)
<1>1. [state |-> "stored", default |-> default, alerted |-> FALSE] \in WalletRow
  BY DEF WalletRow
<1>2. CASE default
  <2>1. wallet' = [Undefault EXCEPT ![c] = [state |-> "stored", default |-> default, alerted |-> FALSE]]
    BY <1>2 DEF AddCard
  <2>2. QED
    BY <1>1, <1>2, <2>1, UndefaultKeeps
<1>3. CASE ~default
  <2>1. wallet' = [wallet EXCEPT ![c] = [state |-> "stored", default |-> default, alerted |-> FALSE]]
    BY <1>3 DEF AddCard
  <2>2. \A d \in CardIds : wallet[d] \in WalletRow
    BY DEF CardsTypeOK
  <2>3. QED
    BY <1>1, <1>3, <2>1, <2>2 DEF CardsTypeOK, WalletRow
<1> QED
  BY <1>2, <1>3

\* Choosing a default changes nothing else.
LEMMA SetDefaultWallet ==
    ASSUME CardsTypeOK, NEW c \in CardIds, NEW default \in BOOLEAN, SetDefault(c, default)
    PROVE  /\ wallet' \in [CardIds -> WalletRow]
           /\ \A d \in CardIds :
                 /\ wallet'[d].state = wallet[d].state
                 /\ wallet'[d].alerted = wallet[d].alerted
           /\ wallet'[c].default = default
           /\ \A d \in CardIds \ {c} : wallet'[d].default = (~default /\ wallet[d].default)
<1>1. \A d \in CardIds : wallet[d] \in WalletRow
  BY DEF CardsTypeOK
<1>2. CASE default
  <2>1. wallet' = [Undefault EXCEPT ![c].default = default]
    BY <1>2 DEF SetDefault
  <2>2. Undefault \in [CardIds -> WalletRow] /\ Undefault[c] \in WalletRow
    BY UndefaultKeeps
  <2>3. /\ wallet' \in [CardIds -> WalletRow]
        /\ \A d \in CardIds \ {c} : wallet'[d] = Undefault[d]
        /\ wallet'[c].default = default
        /\ wallet'[c].state = Undefault[c].state
        /\ wallet'[c].alerted = Undefault[c].alerted
    BY <2>1, <2>2 DEF WalletRow
  <2>4. QED
    BY <1>2, <2>3, UndefaultKeeps
<1>3. CASE ~default
  <2>1. wallet' = [wallet EXCEPT ![c].default = default]
    BY <1>3 DEF SetDefault
  <2>2. QED
    BY <1>1, <1>3, <2>1 DEF CardsTypeOK, WalletRow
<1> QED
  BY <1>2, <1>3

LEMMA RemoveCardWallet ==
    ASSUME CardsTypeOK, NEW c \in CardIds, RemoveCard(c)
    PROVE  /\ wallet' \in [CardIds -> WalletRow]
           /\ wallet'[c].state = "deleted" /\ wallet'[c].default = FALSE
           /\ wallet'[c].alerted = wallet[c].alerted
           /\ \A d \in CardIds \ {c} : wallet'[d] = wallet[d]
<1>1. wallet[c] \in WalletRow
  BY DEF CardsTypeOK
<1> QED
  BY <1>1 DEF RemoveCard, CardsTypeOK, WalletRow

\* A claim marks a card nobody has claimed, or does nothing to the table.
LEMMA ClaimWallet ==
    ASSUME CardsTypeOK, NEW j \in Alerters, NEW c \in CardIds, Claim(j, c)
    PROVE  /\ wallet' \in [CardIds -> WalletRow]
           /\ \A d \in CardIds : wallet'[d].state = wallet[d].state /\ wallet'[d].default = wallet[d].default
           /\ \A d \in CardIds \ {c} : wallet'[d].alerted = wallet[d].alerted
           /\ alerter' \in [Alerters -> Alerter]
           /\ \A k \in Alerters \ {j} : alerter'[k] = alerter[k]
           /\ \/ /\ c \in InWallet /\ ~wallet[c].alerted
                 /\ wallet'[c].alerted
                 /\ alerter'[j].claimed = {c}
              \/ /\ wallet' = wallet
                 /\ alerter'[j].claimed = {}
<1>1. wallet[c] \in WalletRow /\ alerter[j] \in Alerter
  BY DEF CardsTypeOK
<1>2. CASE c \in InWallet /\ ~wallet[c].alerted
  <2>1. /\ wallet' = [wallet EXCEPT ![c].alerted = TRUE]
        /\ alerter' = [alerter EXCEPT ![j] = [listed |-> @.listed \ {c}, claimed |-> {c}]]
    BY <1>2 DEF Claim
  <2>2. QED
    BY <1>1, <1>2, <2>1 DEF CardsTypeOK, WalletRow, Alerter
<1>3. CASE ~(c \in InWallet /\ ~wallet[c].alerted)
  <2>1. /\ wallet' = wallet
        /\ alerter' = [alerter EXCEPT ![j] = [listed |-> @.listed \ {c}, claimed |-> {}]]
    BY <1>3 DEF Claim
  <2>2. QED
    BY <1>1, <2>1 DEF CardsTypeOK, WalletRow, Alerter
<1> QED
  BY <1>2, <1>3

LEMMA CardsTypeStep == CardsTypeOK /\ [CardsNext]_cardVars => CardsTypeOK'
<1> SUFFICES ASSUME CardsTypeOK, [CardsNext]_cardVars
             PROVE  CardsTypeOK'
  OBVIOUS
<1>1. ASSUME NEW a \in Adders, CountCards(a) \/ AddFails(a)
      PROVE  CardsTypeOK'
  BY <1>1 DEF CountCards, AddFails, CardsTypeOK
<1>2. ASSUME NEW a \in Adders, NEW c \in CardIds, NEW default \in BOOLEAN, AddCard(a, c, default)
      PROVE  CardsTypeOK'
  BY <1>2, AddCardWallet DEF AddCard, CardsTypeOK
<1>3. ASSUME NEW c \in CardIds, NEW default \in BOOLEAN, SetDefault(c, default)
      PROVE  CardsTypeOK'
  BY <1>3, SetDefaultWallet DEF SetDefault, CardsTypeOK
<1>4. ASSUME NEW c \in CardIds, RemoveCard(c)
      PROVE  CardsTypeOK'
  BY <1>4, RemoveCardWallet DEF RemoveCard, CardsTypeOK
<1>5. ASSUME NEW j \in Alerters, ListExpiring(j)
      PROVE  CardsTypeOK'
  <2>1. PICK expiring \in SUBSET {c \in InWallet : ~wallet[c].alerted} :
            alerter' = [alerter EXCEPT ![j].listed = expiring]
    BY <1>5 DEF ListExpiring
  <2>2. expiring \in SUBSET CardIds /\ alerter[j] \in Alerter
    BY <2>1 DEF InWallet, CardsTypeOK
  <2>3. alerter' \in [Alerters -> Alerter]
    BY <2>1, <2>2 DEF CardsTypeOK, Alerter
  <2>4. QED
    BY <1>5, <2>3 DEF ListExpiring, CardsTypeOK
<1>6. ASSUME NEW j \in Alerters, NEW c \in CardIds, Claim(j, c)
      PROVE  CardsTypeOK'
  <2>1. adder' = adder /\ alerts' = alerts
    BY <1>6 DEF Claim
  <2>2. wallet' \in [CardIds -> WalletRow] /\ alerter' \in [Alerters -> Alerter]
    BY <1>6, ClaimWallet
  <2>3. QED
    BY <2>1, <2>2 DEF CardsTypeOK
<1>7. ASSUME NEW j \in Alerters, NEW c \in CardIds, Alert(j, c)
      PROVE  CardsTypeOK'
  <2>1. alerter[j] \in Alerter
    BY DEF CardsTypeOK
  <2>2. QED
    BY <1>7, <2>1 DEF Alert, CardsTypeOK, Alerter
<1>8. CASE CardsCrash
  <2>1. NoAlert \in Alerter
    BY DEF NoAlert, Alerter
  <2>2. QED
    BY <1>8, <2>1 DEF CardsCrash, CardsTypeOK
<1>9. CASE UNCHANGED cardVars
  BY <1>9 DEF cardVars, CardsTypeOK
<1> QED
  BY <1>1, <1>2, <1>3, <1>4, <1>5, <1>6, <1>7, <1>8, <1>9 DEF CardsNext

-----------------------------------------------------------------------------
(* Stored cards: how many there are *)

LEMMA AddingIsFinite ==
    /\ IsFiniteSet(Adding) /\ Cardinality(Adding) \in Nat
    /\ Cardinality(Adders) \in Nat /\ Cardinality(Adding) <= Cardinality(Adders)
<1>1. Adding \subseteq Adders
  BY DEF Adding
<1> QED
  BY <1>1, AddersAssumption, FS_Subset, FS_CardinalityType

\* Fewer cards and fewer requests about to add one keep the bound.
LEMMA WalletShrinks ==
    ASSUME WalletIsCounted, InWallet' \subseteq InWallet, Adding' \subseteq Adding
    PROVE  WalletIsCounted'
<1>1. /\ IsFiniteSet(InWallet') /\ Cardinality(InWallet') <= Cardinality(InWallet)
      /\ Cardinality(InWallet) \in Nat /\ Cardinality(InWallet') \in Nat
  BY FS_Subset, FS_CardinalityType DEF WalletIsCounted
<1>2. /\ Cardinality(Adding') <= Cardinality(Adding)
      /\ Cardinality(Adding) \in Nat /\ Cardinality(Adding') \in Nat
  BY AddingIsFinite, FS_Subset, FS_CardinalityType
<1>3. Cardinality(InWallet') + Cardinality(Adding') <= MaxCards + Cardinality(Adders) - 1
  BY <1>1, <1>2, MaxCardsAssumption, AddingIsFinite DEF WalletIsCounted
<1> QED
  BY <1>1, <1>3 DEF WalletIsCounted

\* A request that counts finds room for one card, whatever the others add.
LEMMA CountCardsCounts ==
    ASSUME CardsTypeOK, WalletIsCounted, NEW a \in Adders, CountCards(a)
    PROVE  WalletIsCounted'
<1>1. InWallet' = InWallet /\ Cardinality(InWallet) < MaxCards
  BY DEF CountCards, InWallet
<1>2. Cardinality(InWallet) \in Nat
  BY FS_CardinalityType DEF WalletIsCounted
<1>3. Adding' \subseteq Adders
  BY DEF Adding
<1>4. Cardinality(Adding') \in Nat /\ Cardinality(Adding') <= Cardinality(Adders)
  BY <1>3, AddersAssumption, FS_Subset, FS_CardinalityType
<1>5. Cardinality(InWallet') + Cardinality(Adding') <= MaxCards + Cardinality(Adders) - 1
  BY <1>1, <1>2, <1>4, MaxCardsAssumption, AddingIsFinite
<1> QED
  BY <1>1, <1>5 DEF WalletIsCounted

\* Adding a card uses up the count that was made for it.
LEMMA AddCardCounts ==
    ASSUME CardsTypeOK, WalletIsCounted, NEW a \in Adders, NEW c \in CardIds,
           NEW default \in BOOLEAN, AddCard(a, c, default)
    PROVE  WalletIsCounted'
<1>1. InWallet' = InWallet \cup {c} /\ c \notin InWallet
  <2>1. \A d \in CardIds : wallet'[d].state = IF d = c THEN "stored" ELSE wallet[d].state
    BY AddCardWallet
  <2>2. QED
    BY <2>1 DEF InWallet, AddCard
<1>2. Adding' = Adding \ {a} /\ a \in Adding
  BY DEF AddCard, Adding, CardsTypeOK
<1>3. IsFiniteSet(InWallet') /\ Cardinality(InWallet) \in Nat
  BY <1>1, FS_AddElement, FS_CardinalityType DEF WalletIsCounted
<1>4. Cardinality(InWallet') = Cardinality(InWallet) + 1
  <2>1. Cardinality(InWallet \cup {c}) =
          IF c \in InWallet THEN Cardinality(InWallet) ELSE Cardinality(InWallet) + 1
    BY FS_AddElement, Zenon DEF WalletIsCounted
  <2>2. QED
    BY <1>1, <2>1
<1>5. Cardinality(Adding') = Cardinality(Adding) - 1
  <2>1. Cardinality(Adding \ {a}) =
          IF a \in Adding THEN Cardinality(Adding) - 1 ELSE Cardinality(Adding)
    BY AddingIsFinite, FS_RemoveElement, Zenon
  <2>2. QED
    BY <1>2, <2>1
<1>6. Cardinality(InWallet') + Cardinality(Adding') <= MaxCards + Cardinality(Adders) - 1
  BY <1>3, <1>4, <1>5, AddingIsFinite, MaxCardsAssumption DEF WalletIsCounted
<1> QED
  BY <1>3, <1>6 DEF WalletIsCounted

LEMMA WalletIsCountedStep == CardsTypeOK /\ WalletIsCounted /\ [CardsNext]_cardVars => WalletIsCounted'
<1> SUFFICES ASSUME CardsTypeOK, WalletIsCounted, [CardsNext]_cardVars
             PROVE  WalletIsCounted'
  OBVIOUS
<1>1. ASSUME NEW a \in Adders, CountCards(a)
      PROVE  WalletIsCounted'
  BY <1>1, CountCardsCounts
<1>2. ASSUME NEW a \in Adders, NEW c \in CardIds, NEW default \in BOOLEAN, AddCard(a, c, default)
      PROVE  WalletIsCounted'
  BY <1>2, AddCardCounts
<1>3. ASSUME NEW a \in Adders, AddFails(a)
      PROVE  WalletIsCounted'
  <2>1. InWallet' \subseteq InWallet /\ Adding' \subseteq Adding
    BY <1>3 DEF AddFails, InWallet, Adding, CardsTypeOK
  <2>2. QED
    BY <2>1, WalletShrinks
<1>4. ASSUME NEW c \in CardIds, NEW default \in BOOLEAN, SetDefault(c, default)
      PROVE  WalletIsCounted'
  <2>1. InWallet' \subseteq InWallet
    BY <1>4, SetDefaultWallet DEF InWallet
  <2>2. Adding' \subseteq Adding
    BY <1>4 DEF SetDefault, Adding
  <2>3. QED
    BY <2>1, <2>2, WalletShrinks
<1>5. ASSUME NEW c \in CardIds, RemoveCard(c)
      PROVE  WalletIsCounted'
  <2>1. InWallet' \subseteq InWallet
    BY <1>5, RemoveCardWallet DEF InWallet
  <2>2. Adding' \subseteq Adding
    BY <1>5 DEF RemoveCard, Adding
  <2>3. QED
    BY <2>1, <2>2, WalletShrinks
<1>6. ASSUME NEW j \in Alerters, NEW c \in CardIds, Claim(j, c)
      PROVE  WalletIsCounted'
  <2>1. InWallet' \subseteq InWallet
    BY <1>6, ClaimWallet DEF InWallet
  <2>2. Adding' \subseteq Adding
    BY <1>6 DEF Claim, Adding
  <2>3. QED
    BY <2>1, <2>2, WalletShrinks
<1>7. ASSUME \/ \E j \in Alerters : ListExpiring(j) \/ \E c \in CardIds : Alert(j, c)
             \/ CardsCrash
             \/ UNCHANGED cardVars
      PROVE  WalletIsCounted'
  <2>1. InWallet' \subseteq InWallet /\ Adding' \subseteq Adding
    BY <1>7 DEF ListExpiring, Alert, CardsCrash, cardVars, InWallet, Adding
  <2>2. QED
    BY <2>1, WalletShrinks
<1> QED
  BY <1>1, <1>2, <1>3, <1>4, <1>5, <1>6, <1>7 DEF CardsNext

-----------------------------------------------------------------------------
(* Stored cards: the default *)

LEMMA OneDefaultStep == CardsTypeOK /\ OneDefault /\ [CardsNext]_cardVars => OneDefault'
<1> SUFFICES ASSUME CardsTypeOK, OneDefault, [CardsNext]_cardVars
             PROVE  OneDefault'
  OBVIOUS
<1>1. ASSUME NEW a \in Adders, NEW c \in CardIds, NEW default \in BOOLEAN, AddCard(a, c, default)
      PROVE  OneDefault'
  <2>1. /\ wallet'[c].state = "stored" /\ wallet'[c].default = default
        /\ \A d \in CardIds \ {c} :
              /\ wallet'[d].state = wallet[d].state
              /\ wallet'[d].default = (~default /\ wallet[d].default)
    BY <1>1, AddCardWallet
  <2>2. QED
    BY <2>1 DEF OneDefault, InWallet
<1>2. ASSUME NEW c \in CardIds, NEW default \in BOOLEAN, SetDefault(c, default)
      PROVE  OneDefault'
  <2>1. /\ \A d \in CardIds : wallet'[d].state = wallet[d].state
        /\ wallet'[c].default = default
        /\ \A d \in CardIds \ {c} : wallet'[d].default = (~default /\ wallet[d].default)
        /\ wallet[c].state = "stored"
    BY <1>2, SetDefaultWallet DEF SetDefault, InWallet
  <2>2. QED
    BY <2>1 DEF OneDefault, InWallet
<1>3. ASSUME NEW c \in CardIds, RemoveCard(c)
      PROVE  OneDefault'
  BY <1>3, RemoveCardWallet DEF OneDefault, InWallet
<1>4. ASSUME NEW j \in Alerters, NEW c \in CardIds, Claim(j, c)
      PROVE  OneDefault'
  BY <1>4, ClaimWallet DEF OneDefault, InWallet
<1>5. ASSUME \/ \E a \in Adders : CountCards(a) \/ AddFails(a)
             \/ \E j \in Alerters : ListExpiring(j) \/ \E c \in CardIds : Alert(j, c)
             \/ CardsCrash
             \/ UNCHANGED cardVars
      PROVE  OneDefault'
  BY <1>5 DEF CountCards, AddFails, ListExpiring, Alert, CardsCrash, cardVars, OneDefault, InWallet
<1> QED
  BY <1>1, <1>2, <1>3, <1>4, <1>5 DEF CardsNext

-----------------------------------------------------------------------------
(* Stored cards: the expiry alert *)

LEMMA ClaimsAreOwnStep == CardsTypeOK /\ ClaimsAreOwn /\ [CardsNext]_cardVars => ClaimsAreOwn'
<1> SUFFICES ASSUME CardsTypeOK, ClaimsAreOwn, [CardsNext]_cardVars
             PROVE  ClaimsAreOwn'
  OBVIOUS
<1>0. \A j \in Alerters : alerter[j] \in Alerter /\ alerter[j].claimed \subseteq CardIds
  BY DEF CardsTypeOK, Alerter
<1>1. ASSUME NEW a \in Adders, NEW c \in CardIds, NEW default \in BOOLEAN, AddCard(a, c, default)
      PROVE  ClaimsAreOwn'
  <2>1. /\ wallet[c].state = "unknown"
        /\ alerter' = alerter /\ alerts' = alerts
    BY <1>1 DEF AddCard
  <2>2. /\ ~wallet'[c].alerted /\ wallet'[c].state = "stored"
        /\ \A d \in CardIds \ {c} : wallet'[d].state = wallet[d].state /\ wallet'[d].alerted = wallet[d].alerted
    BY <1>1, AddCardWallet
  <2>3. ~wallet[c].alerted
    BY <2>1 DEF ClaimsAreOwn
  <2>4. QED
    BY <1>0, <2>1, <2>2, <2>3 DEF ClaimsAreOwn
<1>2. ASSUME NEW c \in CardIds, NEW default \in BOOLEAN, SetDefault(c, default)
      PROVE  ClaimsAreOwn'
  <2>1. /\ \A d \in CardIds : wallet'[d].state = wallet[d].state /\ wallet'[d].alerted = wallet[d].alerted
        /\ alerter' = alerter /\ alerts' = alerts
    BY <1>2, SetDefaultWallet DEF SetDefault
  <2>2. QED
    BY <1>0, <2>1 DEF ClaimsAreOwn
<1>3. ASSUME NEW c \in CardIds, RemoveCard(c)
      PROVE  ClaimsAreOwn'
  <2>1. /\ \A d \in CardIds : /\ wallet'[d].alerted = wallet[d].alerted
                              /\ wallet'[d].state = "unknown" => wallet[d].state = "unknown"
        /\ alerter' = alerter /\ alerts' = alerts
    BY <1>3, RemoveCardWallet DEF RemoveCard
  <2>2. QED
    BY <1>0, <2>1 DEF ClaimsAreOwn
<1>4. ASSUME NEW j \in Alerters, ListExpiring(j)
      PROVE  ClaimsAreOwn'
  <2>1. /\ \A k \in Alerters : alerter'[k].claimed = alerter[k].claimed
        /\ wallet' = wallet /\ alerts' = alerts
    BY <1>0, <1>4 DEF ListExpiring, CardsTypeOK, Alerter
  <2>2. QED
    BY <2>1 DEF ClaimsAreOwn
<1>5. ASSUME NEW j \in Alerters, NEW c \in CardIds, Claim(j, c)
      PROVE  ClaimsAreOwn'
  <2>1. alerts' = alerts
    BY <1>5 DEF Claim
  <2>2. /\ \A d \in CardIds : wallet'[d].state = wallet[d].state
        /\ \A d \in CardIds \ {c} : wallet'[d].alerted = wallet[d].alerted
        /\ \A k \in Alerters \ {j} : alerter'[k] = alerter[k]
        /\ \/ /\ c \in InWallet /\ ~wallet[c].alerted
              /\ wallet'[c].alerted
              /\ alerter'[j].claimed = {c}
           \/ /\ wallet' = wallet
              /\ alerter'[j].claimed = {}
    BY <1>5, ClaimWallet
  <2>3. CASE wallet' = wallet /\ alerter'[j].claimed = {}
    BY <2>1, <2>2, <2>3 DEF ClaimsAreOwn
  <2>4. CASE c \in InWallet /\ ~wallet[c].alerted /\ wallet'[c].alerted /\ alerter'[j].claimed = {c}
    <3>1. alerts[c] = 0 /\ wallet[c].state # "unknown" /\ \A k \in Alerters : c \notin alerter[k].claimed
      BY <2>4 DEF ClaimsAreOwn, InWallet
    <3>2. QED
      BY <1>0, <2>1, <2>2, <2>4, <3>1 DEF ClaimsAreOwn
  <2>5. QED
    BY <2>2, <2>3, <2>4
<1>6. ASSUME NEW j \in Alerters, NEW c \in CardIds, Alert(j, c)
      PROVE  ClaimsAreOwn'
  <2>1. wallet[c].alerted /\ alerts[c] = 0 /\ \A k \in Alerters : c \in alerter[k].claimed => k = j
    BY <1>6 DEF Alert, ClaimsAreOwn
  <2>2. /\ wallet' = wallet
        /\ alerts'[c] = 1 /\ \A d \in CardIds \ {c} : alerts'[d] = alerts[d]
        /\ \A k \in Alerters \ {j} : alerter'[k] = alerter[k]
        /\ alerter'[j].claimed = {}
    BY <1>0, <1>6, <2>1 DEF Alert, CardsTypeOK, Alerter
  <2>3. QED
    BY <1>0, <2>1, <2>2 DEF ClaimsAreOwn
<1>7. CASE CardsCrash
  BY <1>7 DEF CardsCrash, NoAlert, ClaimsAreOwn
<1>8. ASSUME (\E a \in Adders : CountCards(a) \/ AddFails(a)) \/ UNCHANGED cardVars
      PROVE  ClaimsAreOwn'
  BY <1>8 DEF CountCards, AddFails, cardVars, ClaimsAreOwn
<1> QED
  BY <1>1, <1>2, <1>3, <1>4, <1>5, <1>6, <1>7, <1>8 DEF CardsNext

-----------------------------------------------------------------------------
(* Stored cards: the theorems *)

LEMMA CardInvInit == CardsInit => CardInv
<1> SUFFICES ASSUME CardsInit
             PROVE  CardInv
  OBVIOUS
<1>1. CardsTypeOK /\ OneDefault /\ ClaimsAreOwn
  BY DEF CardsInit, CardsTypeOK, WalletRow, Alerter, NoAlert, OneDefault, ClaimsAreOwn
<1>2. InWallet = {} /\ Adding = {}
  BY DEF CardsInit, InWallet, Adding
<1>3. WalletIsCounted
  BY <1>2, FS_EmptySet, MaxCardsAssumption, AddingIsFinite DEF WalletIsCounted
<1> QED
  BY <1>1, <1>3 DEF CardInv

LEMMA CardInvHolds == CardsSpec => []CardInv
<1>1. CardInv /\ [CardsNext]_cardVars => CardInv'
  BY CardsTypeStep, WalletIsCountedStep, OneDefaultStep, ClaimsAreOwnStep DEF CardInv
<1> QED
  BY <1>1, CardInvInit, PTL DEF CardsSpec

\* However many requests count at once, the cards exceed their maximum by fewer
\* than there are of them, and one card at most is the default
\* (handleConfirmPaymentMethod, handleUpdatePaymentMethod).
THEOREM WalletSound == CardsSpec => []WalletIsSound
<1>1. CardInv => WalletIsSound
  <2> SUFFICES ASSUME CardInv
               PROVE  WalletIsSound
    OBVIOUS
  <2>1. Cardinality(InWallet) \in Nat
    BY FS_CardinalityType DEF CardInv, WalletIsCounted
  <2>2. Cardinality(InWallet) <= MaxCards + Cardinality(Adders) - 1
    BY <2>1, AddingIsFinite, MaxCardsAssumption DEF CardInv, WalletIsCounted
  <2>3. QED
    BY <2>2 DEF CardInv, OneDefault, WalletIsSound, InWallet
<1> QED
  BY <1>1, CardInvHolds, PTL

\* Nobody is told twice that a card expires, although every instance runs the
\* job and any may restart (MarkExpirationAlertSent).
THEOREM AlertsOnce == CardsSpec => []AlertedOnce
<1>1. CardInv => AlertedOnce
  BY DEF CardInv, ClaimsAreOwn, AlertedOnce
<1> QED
  BY <1>1, CardInvHolds, PTL

-----------------------------------------------------------------------------
(* OAuth connections: types *)

OAuthInv == OAuthTypeOK /\ VaultInv

LEMMA RefresherFields ==
    ASSUME OAuthTypeOK, NEW r \in Refreshers, refresher[r].pc # "idle"
    PROVE  /\ refresher[r] \in [pc : {"loaded", "asking", "failed", "flip", "store"}, conn : ConnIds,
                                access : SecretIds \cup {NoSecret}, refresh : SecretIds \cup {NoSecret},
                                token : Nat, answer : Nat]
           /\ refresher[r].conn \in ConnIds
           /\ refresher[r].access \in SecretIds \cup {NoSecret}
           /\ refresher[r].refresh \in SecretIds \cup {NoSecret}
           /\ refresher[r].token \in Nat /\ refresher[r].answer \in Nat
BY DEF OAuthTypeOK, Refresher

LEMMA InsertTypes ==
    ASSUME OAuthTypeOK, NEW c \in ConnIds, NEW withRefresh \in BOOLEAN,
           NEW rows_ \in [ConnIds -> Conn], NEW vault \in [SecretIds -> {Empty, AccessToken} \cup SecretIds],
           NEW kept \in SecretIds \cup {NoSecret}, Insert(c, withRefresh, rows_, vault, kept)
    PROVE  OAuthTypeOK'
<1>1. /\ minted \in Nat /\ issued \in Nat /\ MaxSecrets \in Nat
      /\ minted + 2 <= MaxSecrets /\ issued + 1 <= MaxSecrets
  BY MaxSecretsAssumption DEF OAuthTypeOK, Insert
<1>2. /\ minted + 1 \in SecretIds /\ minted + 2 \in SecretIds /\ issued + 1 \in SecretIds
      /\ minted' \in 0..MaxSecrets /\ issued' \in 0..MaxSecrets
  BY <1>1 DEF Insert, SecretIds, OAuthTypeOK
<1>3. secrets' \in [SecretIds -> {Empty, AccessToken} \cup SecretIds]
  BY <1>2 DEF Insert
<1>4. conns' \in [ConnIds -> Conn]
  BY <1>2 DEF Insert, Conn
<1>5. good' \in SUBSET SecretIds
  BY <1>2 DEF Insert, OAuthTypeOK
<1> QED
  BY <1>2, <1>3, <1>4, <1>5 DEF Insert, OAuthTypeOK

LEMMA WithoutType ==
    ASSUME OAuthTypeOK, NEW ids
    PROVE  Without(secrets, ids) \in [SecretIds -> {Empty, AccessToken} \cup SecretIds]
BY DEF OAuthTypeOK, Without

\* What the vault is left with by the deletions that succeed, and the new tokens.
LEMMA StoreDoes ==
    ASSUME OAuthInv, NEW r \in Refreshers, Store(r)
    PROVE  \E failed \in SUBSET Outdated(r) :
               /\ \A s \in SecretIds \ {minted + 1, minted + 2} :
                     secrets'[s] = IF s \in Outdated(r) \ failed THEN Empty ELSE secrets[s]
               /\ secrets'[minted + 1] = AccessToken
               /\ secrets'[minted + 2] = IF Rotated(r) THEN refresher[r].answer ELSE Empty
               /\ secrets' \in [SecretIds -> {Empty, AccessToken} \cup SecretIds]
               /\ undeleted' = undeleted \cup failed
<1>1. minted \in Nat /\ MaxSecrets \in Nat /\ minted + 2 <= MaxSecrets
  BY MaxSecretsAssumption DEF OAuthInv, OAuthTypeOK, Store
<1>2. minted + 1 \in SecretIds /\ minted + 2 \in SecretIds /\ secrets[minted + 2] = Empty
  BY <1>1 DEF SecretIds, OAuthInv, VaultInv, SecretsAreFresh
<1>3. refresher[r].answer \in SecretIds
  BY RefresherFields DEF OAuthInv, Store, VaultInv, RefreshIsSound
<1>4. PICK failed \in SUBSET Outdated(r) :
          /\ secrets' = [Without(secrets, Outdated(r) \ failed)
                 EXCEPT ![minted + 1] = AccessToken,
                        ![minted + 2] = IF Rotated(r) THEN refresher[r].answer ELSE @]
          /\ undeleted' = undeleted \cup failed
  BY DEF Store
<1> DEFINE gone == Outdated(r) \ failed
           vault == Without(secrets, gone)
<1> HIDE DEF gone
<1>5. /\ vault \in [SecretIds -> {Empty, AccessToken} \cup SecretIds]
      /\ \A s \in SecretIds : vault[s] = IF s \in gone THEN Empty ELSE secrets[s]
  BY WithoutType DEF OAuthInv, Without
<1>6. secrets' = [vault EXCEPT ![minted + 1] = AccessToken,
                               ![minted + 2] = IF Rotated(r) THEN refresher[r].answer ELSE @]
  BY <1>4 DEF gone
<1> HIDE DEF vault
<1>7. vault[minted + 2] = Empty
  BY <1>2, <1>5
<1>8. /\ \A s \in SecretIds \ {minted + 1, minted + 2} : secrets'[s] = vault[s]
      /\ secrets'[minted + 1] = AccessToken
      /\ secrets'[minted + 2] = IF Rotated(r) THEN refresher[r].answer ELSE Empty
      /\ secrets' \in [SecretIds -> {Empty, AccessToken} \cup SecretIds]
  BY <1>1, <1>2, <1>3, <1>5, <1>6, <1>7
<1> QED
  BY <1>4, <1>5, <1>8 DEF gone

LEMMA StoreTypes ==
    ASSUME OAuthInv, NEW r \in Refreshers, Store(r)
    PROVE  OAuthTypeOK'
<1>1. /\ refresher[r].conn \in ConnIds /\ refresher[r].access \in SecretIds
      /\ refresher[r].refresh \in SecretIds
  BY RefresherFields, MaxSecretsAssumption DEF OAuthInv, OAuthTypeOK, Store, VaultInv, RefreshIsSound, SecretIds, NoSecret
<1>2. minted \in Nat /\ MaxSecrets \in Nat /\ minted + 2 <= MaxSecrets
  BY MaxSecretsAssumption DEF OAuthInv, OAuthTypeOK, Store
<1>3. /\ minted + 1 \in SecretIds /\ minted + 2 \in SecretIds /\ minted' \in 0..MaxSecrets
  BY <1>2 DEF Store, SecretIds
<1>4. Outdated(r) \subseteq SecretIds
  BY <1>1 DEF Outdated
<1>5. secrets' \in [SecretIds -> {Empty, AccessToken} \cup SecretIds] /\ undeleted' \in SUBSET SecretIds
  BY <1>4, StoreDoes DEF OAuthInv, OAuthTypeOK
<1>6. Refreshed(r, minted + 1, minted + 2) \in Conn
  BY <1>1, <1>3 DEF Refreshed, Conn
<1>7. conns' \in [ConnIds -> Conn]
  BY <1>1, <1>6 DEF Store, OAuthInv, OAuthTypeOK
<1>8. raced' \in BOOLEAN
  BY DEF Store, OAuthInv, OAuthTypeOK
<1>9. refresher' \in [Refreshers -> Refresher]
  BY DEF Store, OAuthInv, OAuthTypeOK, Waiting, Refresher
<1> QED
  BY <1>3, <1>5, <1>7, <1>8, <1>9 DEF Store, OAuthInv, OAuthTypeOK

LEMMA OAuthTypeStep == OAuthInv /\ [OAuthNext]_oauthVars => OAuthTypeOK'
<1> SUFFICES ASSUME OAuthInv, [OAuthNext]_oauthVars
             PROVE  OAuthTypeOK'
  OBVIOUS
<1>0. OAuthTypeOK
  BY DEF OAuthInv
<1>1. ASSUME NEW c \in ConnIds, NEW withRefresh \in BOOLEAN, Authorize(c, withRefresh)
      PROVE  OAuthTypeOK'
  <2>1. /\ conns \in [ConnIds -> Conn] /\ secrets \in [SecretIds -> {Empty, AccessToken} \cup SecretIds]
        /\ NoSecret \in SecretIds \cup {NoSecret}
    BY <1>0 DEF OAuthTypeOK
  <2>2. QED
    BY <1>0, <1>1, <2>1, InsertTypes DEF Authorize
<1>2. ASSUME NEW c \in ConnIds, NEW old \in ConnIds, NEW withRefresh \in BOOLEAN,
             Reauthorize(old, c, withRefresh)
      PROVE  OAuthTypeOK'
  <2> DEFINE rows_ == [conns EXCEPT ![old] = NoConn("deleted")]
             vault == Without(secrets, Replaced(old, withRefresh))
  <2>1. rows_ \in [ConnIds -> Conn]
    BY <1>0 DEF OAuthTypeOK, NoConn, Conn
  <2>2. vault \in [SecretIds -> {Empty, AccessToken} \cup SecretIds]
    BY <1>0, WithoutType
  <2>3. conns[old].refresh \in SecretIds \cup {NoSecret}
    BY <1>0 DEF OAuthTypeOK, Conn
  <2>4. Insert(c, withRefresh, rows_, vault, conns[old].refresh)
    BY <1>2 DEF Reauthorize
  <2> HIDE DEF rows_, vault
  <2>5. QED
    BY <1>0, <2>1, <2>2, <2>3, <2>4, InsertTypes
<1>3. ASSUME NEW c \in ConnIds, Disconnect(c)
      PROVE  OAuthTypeOK'
  <2>1. secrets' \in [SecretIds -> {Empty, AccessToken} \cup SecretIds]
    BY <1>0, <1>3, WithoutType DEF Disconnect
  <2>2. conns' \in [ConnIds -> Conn]
    BY <1>0, <1>3 DEF Disconnect, OAuthTypeOK, NoConn, Conn
  <2>3. QED
    BY <1>0, <1>3, <2>1, <2>2 DEF Disconnect, OAuthTypeOK
<1>4. ASSUME NEW c \in ConnIds, Age(c)
      PROVE  OAuthTypeOK'
  <2>1. conns[c] \in Conn
    BY <1>0 DEF OAuthTypeOK
  <2>2. conns' \in [ConnIds -> Conn]
    BY <1>0, <1>4, <2>1 DEF Age, OAuthTypeOK, Conn
  <2>3. QED
    BY <1>0, <1>4, <2>2 DEF Age, OAuthTypeOK
<1>5. ASSUME NEW r \in Refreshers, NEW c \in ConnIds, Load(r, c)
      PROVE  OAuthTypeOK'
  <2>1. conns[c] \in Conn
    BY <1>0 DEF OAuthTypeOK
  <2>2. refresher' \in [Refreshers -> Refresher]
    BY <1>0, <1>5, <2>1 DEF Load, OAuthTypeOK, Conn, Refresher
  <2>3. QED
    BY <1>0, <1>5, <2>2 DEF Load, OAuthTypeOK
<1>6. ASSUME NEW r \in Refreshers, ReadToken(r)
      PROVE  OAuthTypeOK'
  <2>1. /\ refresher[r] \in [pc : {"loaded", "asking", "failed", "flip", "store"}, conn : ConnIds,
                             access : SecretIds \cup {NoSecret}, refresh : SecretIds \cup {NoSecret},
                             token : Nat, answer : Nat]
        /\ refresher[r].refresh \in SecretIds
    BY <1>0, <1>6, RefresherFields DEF ReadToken, OAuthInv, VaultInv, RefreshIsSound
  <2>2. secrets[refresher[r].refresh] # Empty => secrets[refresher[r].refresh] \in Nat
    BY <1>0, <2>1 DEF OAuthTypeOK, AccessToken, SecretIds
  <2>3. refresher' \in [Refreshers -> Refresher]
    BY <1>0, <1>6, <2>1, <2>2 DEF ReadToken, OAuthTypeOK, Refresher, Waiting
  <2>4. QED
    BY <1>0, <1>6, <2>3 DEF ReadToken, OAuthTypeOK
<1>7. ASSUME NEW r \in Refreshers, ProviderAccepts(r)
      PROVE  OAuthTypeOK'
  <2>1. refresher[r] \in [pc : {"loaded", "asking", "failed", "flip", "store"}, conn : ConnIds,
                          access : SecretIds \cup {NoSecret}, refresh : SecretIds \cup {NoSecret},
                          token : Nat, answer : Nat]
    BY <1>0, <1>7, RefresherFields DEF ProviderAccepts
  <2>2. issued \in Nat /\ MaxSecrets \in Nat
    BY <1>0, MaxSecretsAssumption DEF OAuthTypeOK
  <2>3. issued' \in 0..MaxSecrets /\ good' \in SUBSET SecretIds
    BY <1>0, <1>7, <2>2 DEF ProviderAccepts, OAuthTypeOK, SecretIds
  <2>4. refresher' \in [Refreshers -> Refresher]
    BY <1>0, <1>7, <2>1, <2>2 DEF ProviderAccepts, OAuthTypeOK, Refresher
  <2>5. QED
    BY <1>0, <1>7, <2>3, <2>4 DEF ProviderAccepts, OAuthTypeOK
<1>8. ASSUME NEW r \in Refreshers, ProviderRefuses(r)
      PROVE  OAuthTypeOK'
  <2>1. refresher[r] \in [pc : {"loaded", "asking", "failed", "flip", "store"}, conn : ConnIds,
                          access : SecretIds \cup {NoSecret}, refresh : SecretIds \cup {NoSecret},
                          token : Nat, answer : Nat]
    BY <1>0, <1>8, RefresherFields DEF ProviderRefuses
  <2>2. QED
    BY <1>0, <1>8, <2>1 DEF ProviderRefuses, OAuthTypeOK, Refresher
<1>9. ASSUME NEW r \in Refreshers, Reload(r)
      PROVE  OAuthTypeOK'
  <2>1. /\ refresher[r] \in [pc : {"loaded", "asking", "failed", "flip", "store"}, conn : ConnIds,
                             access : SecretIds \cup {NoSecret}, refresh : SecretIds \cup {NoSecret},
                             token : Nat, answer : Nat]
        /\ refresher[r].conn \in ConnIds
    BY <1>0, <1>9, RefresherFields DEF Reload
  <2>2. conns[refresher[r].conn] \in Conn
    BY <1>0, <2>1 DEF OAuthTypeOK
  <2>3. refresher' \in [Refreshers -> Refresher]
    BY <1>0, <1>9, <2>1, <2>2 DEF Reload, OAuthTypeOK, Refresher, Conn, Waiting
  <2>4. QED
    BY <1>0, <1>9, <2>3 DEF Reload, OAuthTypeOK
<1>10. ASSUME NEW r \in Refreshers, Flip(r)
       PROVE  OAuthTypeOK'
  <2>1. refresher[r].conn \in ConnIds
    BY <1>0, <1>10, RefresherFields DEF Flip
  <2>2. conns[refresher[r].conn] \in Conn
    BY <1>0, <2>1 DEF OAuthTypeOK
  <2>3. conns' \in [ConnIds -> Conn]
    BY <1>0, <1>10, <2>1, <2>2 DEF Flip, OAuthTypeOK, Conn
  <2>4. QED
    BY <1>0, <1>10, <2>3 DEF Flip, OAuthTypeOK, Waiting, Refresher
<1>11. ASSUME NEW r \in Refreshers, Store(r)
       PROVE  OAuthTypeOK'
  BY <1>11, StoreTypes
<1>12. ASSUME NEW r \in Refreshers, StoreRolledBack(r)
       PROVE  OAuthTypeOK'
  BY <1>0, <1>12 DEF StoreRolledBack, OAuthTypeOK, Waiting, Refresher
<1>13. CASE OAuthCrash
  BY <1>0, <1>13 DEF OAuthCrash, OAuthTypeOK, Waiting, Refresher
<1>14. CASE UNCHANGED oauthVars
  BY <1>0, <1>14 DEF oauthVars, OAuthTypeOK
<1> QED
  BY <1>1, <1>2, <1>3, <1>4, <1>5, <1>6, <1>7, <1>8, <1>9, <1>10, <1>11, <1>12, <1>13, <1>14 DEF OAuthNext

-----------------------------------------------------------------------------
(* OAuth connections: what the steps do to the tables *)

\* The tables stay, but for a row's status and age.
TablesStay ==
    /\ \A c \in ConnIds : /\ conns'[c].access = conns[c].access
                          /\ conns'[c].refresh = conns[c].refresh
                          /\ conns'[c].status = "unused" => conns[c].status = "unused"
    /\ Connected' = Connected
    /\ UNCHANGED <<secrets, minted, raced, undeleted>>

\* Row c gets a new access token and a refresh token that is new or no other
\* connection's; it is that of a row it replaces, and kept, unless refreshes
\* overlapped.  The rows lost and the secrets gone are deleted.
Replaces(c, lost, gone) ==
    /\ lost \subseteq Connected \ {c}
    /\ c \in Connected \/ conns[c].status = "unused"
    /\ Connected' = (Connected \ lost) \cup {c}
    /\ \A d \in ConnIds : conns'[d].status = "unused" => conns[d].status = "unused"
    /\ \A d \in Connected \ (lost \cup {c}) : conns'[d] = conns[d]
    /\ minted + 2 <= MaxSecrets
    /\ conns'[c].access = minted + 1
    /\ secrets'[minted + 1] = AccessToken
    /\ \A s \in SecretIds \ {minted + 1, minted + 2} :
          secrets'[s] = IF s \in gone THEN Empty ELSE secrets[s]
    /\ \/ /\ minted' = minted + 2
          /\ conns'[c].refresh = minted + 2
          /\ secrets'[minted + 2] \in SecretIds
       \/ /\ minted' = minted + 1
          /\ secrets'[minted + 2] = Empty
          /\ conns'[c].refresh \in 0..minted
          /\ \A d \in Connected \ (lost \cup {c}) : conns'[c].refresh \notin Tokens(d)
          /\ \A q \in Refreshers :
                refresher[q].pc # "idle" /\ refresher[q].conn \in Connected \ (lost \cup {c}) =>
                    conns'[c].refresh \notin Held(q)
          /\ ~raced' /\ conns'[c].refresh # NoSecret =>
                /\ conns'[c].refresh \notin gone
                /\ \E e \in Connected \cap (lost \cup {c}) : conns'[c].refresh = conns[e].refresh
    /\ \A d \in Connected \ (lost \cup {c}) : gone \cap Tokens(d) = {}
    /\ undeleted \subseteq undeleted'
    /\ ~raced' => /\ ~raced
                  /\ \A e \in Connected \cap (lost \cup {c}) :
                        Tokens(e) \subseteq gone \cup undeleted' \cup {conns'[c].refresh}

RefreshersStayOrEnd == \A r \in Refreshers : refresher'[r] \in {refresher[r], Waiting}

\* A goroutine that is idle again is sound.
LEMMA IdleIsSound ==
    ASSUME NEW r \in Refreshers, refresher'[r] = Waiting
    PROVE  RefreshIsSound(r)'
BY DEF RefreshIsSound, Waiting

LEMMA StaysSound ==
    ASSUME OAuthInv, TablesStay
    PROVE  /\ SecretsAreFresh' /\ RowsAreApart' /\ \A c \in ConnIds : RowIsSound(c)'
           /\ NoTokenLeftBehind => NoTokenLeftBehind'
<1>1. \A c \in Connected : c \in ConnIds
  BY DEF Connected
<1>2. SecretsAreFresh'
  BY DEF TablesStay, OAuthInv, VaultInv, SecretsAreFresh
<1>3. RowsAreApart'
  BY <1>1 DEF TablesStay, OAuthInv, VaultInv, RowsAreApart, Tokens
<1>4. ASSUME NEW c \in ConnIds
      PROVE  RowIsSound(c)'
  <2>1. RowIsSound(c)
    BY DEF OAuthInv, VaultInv
  <2>2. QED
    BY <2>1 DEF TablesStay, RowIsSound, KeepsAccess, KeepsRefresh
<1>5. NoTokenLeftBehind => NoTokenLeftBehind'
  BY <1>1 DEF TablesStay, NoTokenLeftBehind
<1> QED
  BY <1>2, <1>3, <1>4, <1>5

LEMMA StaysRefreshSound ==
    ASSUME OAuthInv, TablesStay, NEW r \in Refreshers, refresher'[r] = refresher[r]
    PROVE  RefreshIsSound(r)'
<1>1. RefreshIsSound(r)
  BY DEF OAuthInv, VaultInv
<1>2. CASE refresher[r].pc = "idle"
  BY <1>2 DEF RefreshIsSound
<1>3. CASE refresher[r].pc # "idle"
  <2>1. refresher[r].conn \in ConnIds
    BY <1>3, RefresherFields DEF OAuthInv
  <2>2. \A d \in Connected : d \in ConnIds /\ Tokens(d)' = Tokens(d)
    BY DEF TablesStay, Connected, Tokens
  <2>3. Held(r)' = Held(r)
    BY DEF Held
  <2>4. QED
    BY <1>1, <1>3, <2>1, <2>2, <2>3 DEF RefreshIsSound, TablesStay
<1> QED
  BY <1>2, <1>3

LEMMA ReplacesSound ==
    ASSUME OAuthInv, NEW c \in ConnIds, NEW lost, NEW gone, Replaces(c, lost, gone)
    PROVE  SecretsAreFresh' /\ RowsAreApart' /\ \A d \in ConnIds : RowIsSound(d)'
<1>0. /\ minted \in Nat /\ MaxSecrets \in Nat /\ minted + 2 <= MaxSecrets
      /\ minted' \in Nat /\ minted <= minted'
      /\ minted + 1 \in SecretIds /\ minted + 2 \in SecretIds
  BY MaxSecretsAssumption DEF OAuthInv, OAuthTypeOK, Replaces, SecretIds
<1>1. \A d \in Connected : d \in ConnIds /\ RowIsSound(d)
  BY DEF Connected, OAuthInv, VaultInv
<1>2. SecretsAreFresh'
  BY <1>0 DEF SecretsAreFresh, OAuthInv, VaultInv, Replaces, SecretIds
<1>3. ASSUME NEW d \in Connected \ (lost \cup {c})
      PROVE  /\ RowIsSound(d)' /\ Tokens(d)' = Tokens(d)
             /\ minted + 1 \notin Tokens(d) /\ minted + 2 \notin Tokens(d)
  <2>1. conns'[d] = conns[d] /\ gone \cap Tokens(d) = {} /\ d \in Connected /\ d \in ConnIds
    BY <1>1 DEF Replaces
  <2>2. /\ conns[d].access \in 1..minted /\ conns[d].refresh \in 0..minted
        /\ conns[d].access # conns[d].refresh
        /\ secrets[conns[d].access] = AccessToken
        /\ raced \/ (conns[d].refresh # NoSecret => secrets[conns[d].refresh] \in SecretIds)
        /\ raced => raced'
    BY <1>1 DEF RowIsSound, KeepsAccess, KeepsRefresh, Replaces
  <2>3. \A s \in Tokens(d) : s \in SecretIds \ {minted + 1, minted + 2} /\ s \notin gone
    BY <1>0, <2>1, <2>2 DEF Tokens, SecretIds, NoSecret
  <2>4. \A s \in Tokens(d) : secrets'[s] = secrets[s]
    BY <2>3 DEF Replaces
  <2>5. conns[d].access \in Tokens(d) /\ (conns[d].refresh # NoSecret => conns[d].refresh \in Tokens(d))
    BY <2>2 DEF Tokens, NoSecret
  <2>6. Tokens(d)' = Tokens(d)
    BY <2>1 DEF Tokens
  <2>7. conns[d].access \in 1..minted' /\ conns[d].refresh \in 0..minted'
    BY <1>0, <2>2
  <2>8. RowIsSound(d)'
    BY <2>1, <2>2, <2>4, <2>5, <2>7 DEF RowIsSound, KeepsAccess, KeepsRefresh
  <2>9. QED
    BY <1>0, <2>3, <2>6, <2>8
<1>4. /\ conns'[c].access = minted + 1
      /\ conns'[c].refresh \in 0..minted'
      /\ conns'[c].access # conns'[c].refresh
      /\ \A d \in Connected \ (lost \cup {c}) : conns'[c].refresh \notin Tokens(d)
  <2>1. CASE minted' = minted + 2 /\ conns'[c].refresh = minted + 2
    BY <1>0, <1>3, <2>1 DEF Replaces
  <2>2. CASE minted' = minted + 1
    <3>1. /\ conns'[c].refresh \in 0..minted
          /\ \A d \in Connected \ (lost \cup {c}) : conns'[c].refresh \notin Tokens(d)
      BY <1>0, <2>2 DEF Replaces
    <3>2. QED
      BY <1>0, <2>2, <3>1 DEF Replaces
  <2>3. QED
    BY <2>1, <2>2 DEF Replaces
<1>45. ASSUME ~raced', conns'[c].refresh # NoSecret
       PROVE  secrets'[conns'[c].refresh] \in SecretIds
  <2>1. CASE minted' = minted + 2 /\ conns'[c].refresh = minted + 2 /\ secrets'[minted + 2] \in SecretIds
    BY <2>1
  <2>2. CASE minted' = minted + 1
    <3>1. ~raced /\ conns'[c].refresh \notin gone
      BY <1>0, <1>45, <2>2 DEF Replaces
    <3>2. PICK e \in Connected \cap (lost \cup {c}) : conns'[c].refresh = conns[e].refresh
      BY <1>0, <1>45, <2>2 DEF Replaces
    <3>3. conns[e].refresh \in 0..minted /\ secrets[conns[e].refresh] \in SecretIds
      BY <1>1, <1>45, <3>1, <3>2 DEF RowIsSound, KeepsRefresh
    <3>4. conns[e].refresh \in SecretIds \ {minted + 1, minted + 2}
      BY <1>0, <1>45, <3>2, <3>3 DEF NoSecret, SecretIds
    <3>5. secrets'[conns[e].refresh] = secrets[conns[e].refresh]
      BY <3>1, <3>2, <3>4 DEF Replaces
    <3>6. QED
      BY <3>2, <3>3, <3>5
  <2>3. QED
    BY <2>1, <2>2 DEF Replaces
<1>5. RowIsSound(c)'
  <2>1. minted + 1 \in 1..minted' /\ secrets'[minted + 1] = AccessToken
    BY <1>0 DEF Replaces
  <2>2. QED
    BY <1>4, <1>45, <2>1 DEF RowIsSound, KeepsAccess, KeepsRefresh
<1>6. \A d \in ConnIds : RowIsSound(d)'
  <2>1. \A d \in ConnIds : d \in Connected' => d = c \/ d \in Connected \ (lost \cup {c})
    BY DEF Replaces
  <2>2. \A d \in ConnIds : d \notin Connected' => RowIsSound(d)'
    BY DEF RowIsSound
  <2>3. QED
    BY <1>3, <1>5, <2>1, <2>2
<1>7. \A d \in Connected \ (lost \cup {c}) : Tokens(c)' \cap Tokens(d)' = {}
  BY <1>3, <1>4 DEF Tokens
<1>8. RowsAreApart'
  <2> SUFFICES ASSUME NEW d \in Connected', NEW e \in Connected', d # e
               PROVE  Tokens(d)' \cap Tokens(e)' = {}
    BY DEF RowsAreApart
  <2>1. \A x \in Connected' : x = c \/ x \in Connected \ (lost \cup {c})
    BY DEF Replaces
  <2>2. CASE d = c \/ e = c
    BY <1>7, <2>1, <2>2
  <2>3. CASE d # c /\ e # c
    BY <1>3, <2>1, <2>3 DEF OAuthInv, VaultInv, RowsAreApart
  <2>4. QED
    BY <2>2, <2>3
<1> QED
  BY <1>2, <1>6, <1>8

\* A refresh of another connection, or of the row itself, is as sound as before.
LEMMA ReplacesRefreshSound ==
    ASSUME OAuthInv, NEW c \in ConnIds, NEW lost, NEW gone, Replaces(c, lost, gone),
           NEW r \in Refreshers, refresher'[r] = refresher[r]
    PROVE  RefreshIsSound(r)'
<1>1. CASE refresher[r].pc = "idle"
  BY <1>1 DEF RefreshIsSound
<1>2. CASE refresher[r].pc # "idle"
  <2> DEFINE x == refresher[r].conn
  <2>1. x \in ConnIds
    BY <1>2, RefresherFields DEF OAuthInv
  <2>2. RefreshIsSound(r)
    BY DEF OAuthInv, VaultInv
  <2>3. /\ minted \in Nat /\ minted' \in Nat /\ minted <= minted'
    BY DEF OAuthInv, OAuthTypeOK, Replaces
  <2>4. /\ conns[x].status # "unused"
        /\ refresher[r].access \in 1..minted
        /\ refresher[r].refresh \in 0..minted
        /\ x \in Connected =>
              /\ conns[x].access = refresher[r].access => conns[x].refresh = refresher[r].refresh
              /\ \A d \in Connected \ {x} : Held(r) \cap Tokens(d) = {}
    BY <1>2, <2>2 DEF RefreshIsSound
  <2>5. /\ conns'[x].status # "unused"
        /\ refresher[r].access \in 1..minted' /\ refresher[r].refresh \in 0..minted'
    BY <2>1, <2>3, <2>4 DEF Replaces
  <2>6. ASSUME x \in Connected'
        PROVE  /\ conns'[x].access = refresher[r].access => conns'[x].refresh = refresher[r].refresh
               /\ \A d \in Connected' \ {x} : Held(r) \cap Tokens(d)' = {}
    <3>1. x \in Connected /\ x \notin lost
      BY <2>4, <2>6 DEF Replaces
    <3>2. conns'[x].access = refresher[r].access => conns'[x].refresh = refresher[r].refresh
      <4>1. CASE x = c
        BY <2>3, <2>4, <4>1 DEF Replaces
      <4>2. CASE x # c
        BY <2>4, <3>1, <4>2 DEF Replaces
      <4>3. QED
        BY <4>1, <4>2
    <3>3. ASSUME NEW d \in Connected' \ {x}
          PROVE  Held(r) \cap Tokens(d)' = {}
      <4>1. CASE d # c
        <5>1. d \in Connected \ {x} /\ conns'[d] = conns[d]
          BY <4>1 DEF Replaces
        <5>2. QED
          BY <2>4, <3>1, <5>1 DEF Tokens
      <4>2. CASE d = c
        <5>1. \A s \in Held(r) : s \in 1..minted
          BY <2>3, <2>4 DEF Held, NoSecret
        <5>2. conns'[c].access \notin Held(r)
          BY <2>3, <5>1 DEF Replaces
        <5>3. conns'[c].refresh \notin Held(r)
          <6>1. x \in Connected \ (lost \cup {c})
            BY <3>1, <4>2
          <6>2. CASE conns'[c].refresh = minted + 2
            BY <2>3, <5>1, <6>2
          <6>3. CASE conns'[c].refresh # minted + 2
            BY <1>2, <6>1, <6>3 DEF Replaces
          <6>4. QED
            BY <6>2, <6>3
        <5>4. QED
          BY <4>2, <5>2, <5>3 DEF Tokens
      <4>3. QED
        BY <4>1, <4>2
    <3>4. QED
      BY <3>2, <3>3
  <2>7. Held(r)' = Held(r)
    BY DEF Held
  <2>8. /\ refresher[r].access # refresher[r].refresh
        /\ refresher[r].pc \in {"loaded", "asking", "store"} => refresher[r].refresh # NoSecret
        /\ refresher[r].pc = "store" => refresher[r].answer \in SecretIds
    BY <1>2, <2>2 DEF RefreshIsSound
  <2> HIDE DEF x
  <2>9. QED
    BY <2>5, <2>6, <2>7, <2>8 DEF RefreshIsSound, x
<1> QED
  BY <1>1, <1>2

\* What was deleted with a row, and what the new row refers to, is all there was.
LEMMA ReplacesLeavesNothing ==
    ASSUME OAuthInv, NoTokenLeftBehind, NEW c \in ConnIds, NEW lost, NEW gone, Replaces(c, lost, gone)
    PROVE  NoTokenLeftBehind'
<1> SUFFICES ASSUME ~raced', NEW s \in SecretIds \ undeleted', secrets'[s] # Empty
             PROVE  \E d \in Connected' : s \in {conns'[d].access, conns'[d].refresh}
  BY DEF NoTokenLeftBehind
<1>1. c \in Connected' /\ conns'[c].access = minted + 1
  BY DEF Replaces
<1>2. CASE s = minted + 1
  BY <1>1, <1>2
<1>3. CASE s = minted + 2
  <2>1. conns'[c].refresh = minted + 2
    BY <1>3 DEF Replaces
  <2>2. QED
    BY <1>1, <1>3, <2>1
<1>4. CASE s \notin {minted + 1, minted + 2}
  <2>1. secrets[s] # Empty /\ s \notin gone /\ ~raced /\ s \notin undeleted
    BY <1>4 DEF Replaces
  <2>2. PICK e \in Connected : s \in {conns[e].access, conns[e].refresh}
    BY <2>1 DEF NoTokenLeftBehind
  <2>3. s # NoSecret
    BY DEF SecretIds, NoSecret
  <2>4. CASE e \in lost \cup {c}
    <3>1. s \in Tokens(e)
      BY <2>2, <2>3 DEF Tokens
    <3>2. s = conns'[c].refresh
      BY <2>1, <2>2, <2>4, <3>1 DEF Replaces
    <3>3. QED
      BY <1>1, <3>2
  <2>5. CASE e \notin lost \cup {c}
    <3>1. e \in Connected' /\ conns'[e] = conns[e]
      BY <2>2, <2>5 DEF Replaces
    <3>2. QED
      BY <2>2, <3>1
  <2>6. QED
    BY <2>4, <2>5
<1> QED
  BY <1>2, <1>3, <1>4

LEMMA ReplacesApart ==
    ASSUME OAuthInv, NEW c \in ConnIds, NEW lost, NEW gone, Replaces(c, lost, gone), RefreshersStayOrEnd
    PROVE  RefreshesAreApart'
<1> SUFFICES ASSUME NEW q \in Refreshers, NEW r \in Refreshers,
                    refresher'[q].pc # "idle", refresher'[r].pc # "idle",
                    refresher'[q].conn \in Connected', refresher'[r].conn \in Connected',
                    refresher'[q].conn # refresher'[r].conn
             PROVE  Held(q)' \cap Held(r)' = {}
  BY DEF RefreshesAreApart
<1>1. refresher'[q] = refresher[q] /\ refresher'[r] = refresher[r]
  BY DEF RefreshersStayOrEnd, Waiting
<1>2. conns[refresher[q].conn].status # "unused" /\ conns[refresher[r].conn].status # "unused"
  BY <1>1 DEF OAuthInv, VaultInv, RefreshIsSound
<1>3. refresher[q].conn \in Connected /\ refresher[r].conn \in Connected
  BY <1>1, <1>2 DEF Replaces
<1>4. Held(q) \cap Held(r) = {}
  BY <1>1, <1>3 DEF OAuthInv, VaultInv, RefreshesAreApart
<1> QED
  BY <1>1, <1>4 DEF Held

LEMMA ReplacesKeepsInv ==
    ASSUME OAuthInv, NEW c \in ConnIds, NEW lost, NEW gone, Replaces(c, lost, gone), RefreshersStayOrEnd
    PROVE  VaultInv' /\ (NoTokenLeftBehind => NoTokenLeftBehind')
<1>1. \A r \in Refreshers : RefreshIsSound(r)'
  BY ReplacesRefreshSound, IdleIsSound DEF RefreshersStayOrEnd
<1>2. NoTokenLeftBehind => NoTokenLeftBehind'
  BY ReplacesLeavesNothing
<1>3. SecretsAreFresh' /\ RowsAreApart' /\ \A d \in ConnIds : RowIsSound(d)'
  BY ReplacesSound
<1>4. RefreshesAreApart'
  BY ReplacesApart
<1> QED
  BY <1>1, <1>2, <1>3, <1>4 DEF VaultInv

-----------------------------------------------------------------------------
(* OAuth connections: the actions *)

\* What Insert does to the row, the vault and the counter.
LEMMA InsertDoes ==
    ASSUME OAuthInv, NEW c \in ConnIds, NEW withRefresh \in BOOLEAN,
           NEW rows_ \in [ConnIds -> Conn], NEW vault \in [SecretIds -> {Empty, AccessToken} \cup SecretIds],
           NEW kept \in SecretIds \cup {NoSecret}, Insert(c, withRefresh, rows_, vault, kept),
           vault[minted + 2] = Empty
    PROVE  /\ conns[c].status = "unused" /\ c \notin Connected
           /\ minted + 2 <= MaxSecrets
           /\ conns'[c].status = "active" /\ conns'[c].access = minted + 1
           /\ \A d \in ConnIds \ {c} : conns'[d] = rows_[d]
           /\ secrets'[minted + 1] = AccessToken
           /\ \A s \in SecretIds \ {minted + 1, minted + 2} : secrets'[s] = vault[s]
           /\ IF withRefresh
              THEN minted' = minted + 2 /\ conns'[c].refresh = minted + 2 /\ secrets'[minted + 2] \in SecretIds
              ELSE minted' = minted + 1 /\ conns'[c].refresh = kept /\ secrets'[minted + 2] = Empty
           /\ UNCHANGED <<refresher, raced, undeleted>>
<1>1. /\ minted \in Nat /\ issued \in Nat /\ MaxSecrets \in Nat
      /\ minted + 2 <= MaxSecrets /\ issued + 1 <= MaxSecrets
  BY MaxSecretsAssumption DEF OAuthInv, OAuthTypeOK, Insert
<1>2. minted + 1 \in SecretIds /\ minted + 2 \in SecretIds /\ issued + 1 \in SecretIds
  BY <1>1 DEF SecretIds
<1>3. /\ secrets'[minted + 1] = AccessToken
      /\ \A s \in SecretIds \ {minted + 1, minted + 2} : secrets'[s] = vault[s]
      /\ secrets'[minted + 2] = IF withRefresh THEN issued + 1 ELSE Empty
  BY <1>1, <1>2 DEF Insert
<1>4. /\ conns'[c].status = "active" /\ conns'[c].access = minted + 1
      /\ conns'[c].refresh = IF withRefresh THEN minted + 2 ELSE kept
      /\ \A d \in ConnIds \ {c} : conns'[d] = rows_[d]
  BY DEF Insert
<1>5. conns[c].status = "unused" /\ c \notin Connected
  BY DEF Insert, Connected
<1> QED
  BY <1>1, <1>2, <1>3, <1>4, <1>5 DEF Insert

LEMMA AuthorizeReplaces ==
    ASSUME OAuthInv, NEW c \in ConnIds, NEW withRefresh \in BOOLEAN, Authorize(c, withRefresh)
    PROVE  Replaces(c, {}, {}) /\ RefreshersStayOrEnd
<1>1. /\ conns \in [ConnIds -> Conn] /\ secrets \in [SecretIds -> {Empty, AccessToken} \cup SecretIds]
      /\ NoSecret \in SecretIds \cup {NoSecret}
      /\ minted \in Nat
  BY DEF OAuthInv, OAuthTypeOK
<1>2. minted + 2 \in SecretIds /\ secrets[minted + 2] = Empty
  BY <1>1, MaxSecretsAssumption DEF Authorize, Insert, OAuthInv, VaultInv, SecretsAreFresh, SecretIds
<1>3. /\ conns[c].status = "unused" /\ c \notin Connected
      /\ minted + 2 <= MaxSecrets
      /\ conns'[c].status = "active" /\ conns'[c].access = minted + 1
      /\ \A d \in ConnIds \ {c} : conns'[d] = conns[d]
      /\ secrets'[minted + 1] = AccessToken
      /\ \A s \in SecretIds \ {minted + 1, minted + 2} : secrets'[s] = secrets[s]
      /\ IF withRefresh
         THEN minted' = minted + 2 /\ conns'[c].refresh = minted + 2 /\ secrets'[minted + 2] \in SecretIds
         ELSE minted' = minted + 1 /\ conns'[c].refresh = NoSecret /\ secrets'[minted + 2] = Empty
      /\ UNCHANGED <<refresher, raced, undeleted>>
  BY <1>1, <1>2, InsertDoes DEF Authorize
<1>4. Connected' = Connected \cup {c}
  BY <1>3 DEF Connected
<1>5. \A d \in Connected : d \in ConnIds
  BY DEF Connected
<1>6. /\ 0 \in 0..minted
      /\ \A d \in Connected : NoSecret \notin Tokens(d)
      /\ \A q \in Refreshers : NoSecret \notin Held(q)
  BY <1>1 DEF Tokens, Held
<1> QED
  BY <1>3, <1>4, <1>5, <1>6 DEF Replaces, RefreshersStayOrEnd, NoSecret

LEMMA ReauthorizeReplaces ==
    ASSUME OAuthInv, NEW c \in ConnIds, NEW old \in ConnIds, NEW withRefresh \in BOOLEAN,
           Reauthorize(old, c, withRefresh)
    PROVE  Replaces(c, {old}, Replaced(old, withRefresh)) /\ RefreshersStayOrEnd
<1> DEFINE rows_ == [conns EXCEPT ![old] = NoConn("deleted")]
           vault == Without(secrets, Replaced(old, withRefresh))
           kept == conns[old].refresh
           gone == Replaced(old, withRefresh)
<1>1. /\ rows_ \in [ConnIds -> Conn] /\ kept \in SecretIds \cup {NoSecret} /\ minted \in Nat
      /\ rows_[old].status = "deleted" /\ \A d \in ConnIds \ {old} : rows_[d] = conns[d]
  BY DEF OAuthInv, OAuthTypeOK, NoConn, Conn
<1>2. /\ vault \in [SecretIds -> {Empty, AccessToken} \cup SecretIds]
      /\ \A s \in SecretIds : vault[s] = IF s \in gone THEN Empty ELSE secrets[s]
  BY WithoutType DEF OAuthInv, Without
<1>3. Insert(c, withRefresh, rows_, vault, kept) /\ old \in Connected
  BY DEF Reauthorize
<1>4. gone = {conns[old].access} \cup (IF withRefresh THEN {kept} ELSE {})
  BY DEF Replaced
<1> HIDE DEF rows_, vault, gone
<1>5. vault[minted + 2] = Empty
  <2>1. minted + 2 \in SecretIds /\ secrets[minted + 2] = Empty
    BY <1>1, <1>3, MaxSecretsAssumption DEF Insert, OAuthInv, VaultInv, SecretsAreFresh, SecretIds
  <2>2. QED
    BY <1>2, <2>1
<1>6. /\ conns[c].status = "unused" /\ c \notin Connected
      /\ minted + 2 <= MaxSecrets
      /\ conns'[c].status = "active" /\ conns'[c].access = minted + 1
      /\ \A d \in ConnIds \ {c} : conns'[d] = rows_[d]
      /\ secrets'[minted + 1] = AccessToken
      /\ \A s \in SecretIds \ {minted + 1, minted + 2} : secrets'[s] = vault[s]
      /\ IF withRefresh
         THEN minted' = minted + 2 /\ conns'[c].refresh = minted + 2 /\ secrets'[minted + 2] \in SecretIds
         ELSE minted' = minted + 1 /\ conns'[c].refresh = kept /\ secrets'[minted + 2] = Empty
      /\ UNCHANGED <<refresher, raced, undeleted>>
  BY <1>1, <1>2, <1>3, <1>5, InsertDoes
<1>7. c # old /\ conns'[old].status = "deleted" /\ \A d \in ConnIds \ {c, old} : conns'[d] = conns[d]
  BY <1>1, <1>3, <1>6
<1>8. Connected' = (Connected \ {old}) \cup {c}
  BY <1>6, <1>7 DEF Connected
<1>9. \A d \in Connected : d \in ConnIds
  BY DEF Connected
<1>10. /\ conns[old].access \in 1..minted /\ kept \in 0..minted /\ conns[old].access # kept
  BY <1>3 DEF OAuthInv, VaultInv, RowIsSound
<1>11. \A d \in Connected \ {old, c} : gone \cap Tokens(d) = {}
  <2>1. gone \subseteq Tokens(old) \cup {NoSecret}
    BY <1>4 DEF Tokens
  <2>2. \A d \in Connected \ {old, c} : Tokens(old) \cap Tokens(d) = {} /\ NoSecret \notin Tokens(d)
    BY <1>3 DEF OAuthInv, VaultInv, RowsAreApart, Tokens
  <2>3. QED
    BY <2>1, <2>2
<1>12. Tokens(old) \subseteq gone \cup {conns'[c].refresh}
  BY <1>4, <1>6 DEF Tokens
<1>13. ~withRefresh => kept \notin gone
  BY <1>4, <1>10
<1>14. Connected \cap ({old} \cup {c}) = {old}
  BY <1>3, <1>6
<1>15. \A s \in SecretIds \ {minted + 1, minted + 2} : secrets'[s] = IF s \in gone THEN Empty ELSE secrets[s]
  BY <1>2, <1>6
<1>16. /\ \A d \in Connected \ {old, c} : kept \notin Tokens(d)
       /\ \A q \in Refreshers : refresher[q].pc # "idle" /\ refresher[q].conn \in Connected \ {old, c} =>
             kept \notin Held(q)
  <2>1. \A d \in Connected \ {old, c} : Tokens(old) \cap Tokens(d) = {}
    BY <1>3 DEF OAuthInv, VaultInv, RowsAreApart
  <2>2. \A q \in Refreshers : refresher[q].pc # "idle" /\ refresher[q].conn \in Connected \ {old, c} =>
            Held(q) \cap Tokens(old) = {}
    BY <1>3 DEF OAuthInv, VaultInv, RefreshIsSound
  <2>3. kept = NoSecret \/ kept \in Tokens(old)
    BY DEF Tokens
  <2>4. \A d \in Connected : NoSecret \notin Tokens(d)
    BY DEF Tokens
  <2>5. \A q \in Refreshers : NoSecret \notin Held(q)
    BY DEF Held
  <2>6. QED
    BY <2>1, <2>2, <2>3, <2>4, <2>5
<1>17. {old} \cup {c} = {old, c}
  OBVIOUS
<1> HIDE DEF kept
<1>18. kept = conns[old].refresh
  BY DEF kept
<1>19. Replaces(c, {old}, gone)
  BY <1>3, <1>6, <1>7, <1>8, <1>9, <1>10, <1>11, <1>12, <1>13, <1>14, <1>15, <1>16, <1>17, <1>18 DEF Replaces
<1> QED
  BY <1>6, <1>19 DEF gone, RefreshersStayOrEnd

LEMMA StoreReplaces ==
    ASSUME OAuthInv, NEW r \in Refreshers, Store(r)
    PROVE  \E gone : Replaces(refresher[r].conn, {}, gone) /\ RefreshersStayOrEnd
<1> DEFINE c == refresher[r].conn
           held == refresher[r].refresh
<1>1. /\ refresher[r].pc = "store" /\ c \in Connected /\ minted + 2 <= MaxSecrets
      /\ minted' = IF Rotated(r) THEN minted + 2 ELSE minted + 1
      /\ conns' = [conns EXCEPT ![c] = Refreshed(r, minted + 1, minted + 2)]
      /\ raced' = (raced \/ conns[c].access # refresher[r].access)
      /\ refresher' = [refresher EXCEPT ![r] = Waiting]
  BY DEF Store
<1>2. c \in ConnIds
  BY <1>1 DEF Connected
<1>3. /\ refresher[r].access \in 1..minted
      /\ held \in 0..minted
      /\ refresher[r].access # held
      /\ held # NoSecret
      /\ refresher[r].answer \in SecretIds
      /\ conns[c].access = refresher[r].access => conns[c].refresh = held
      /\ \A d \in Connected \ {c} : Held(r) \cap Tokens(d) = {}
  BY <1>1 DEF OAuthInv, VaultInv, RefreshIsSound
<1>4. minted \in Nat /\ conns \in [ConnIds -> Conn] /\ refresher \in [Refreshers -> Refresher] /\ raced \in BOOLEAN
  BY DEF OAuthInv, OAuthTypeOK
<1>5. Outdated(r) = {refresher[r].access} \cup (IF Rotated(r) THEN {held} ELSE {})
  BY DEF Outdated
<1>6. Outdated(r) \subseteq Held(r) /\ held \in Held(r)
  BY <1>3, <1>5 DEF Held, NoSecret
<1>7. PICK failed \in SUBSET Outdated(r) :
          /\ \A s \in SecretIds \ {minted + 1, minted + 2} :
                secrets'[s] = IF s \in Outdated(r) \ failed THEN Empty ELSE secrets[s]
          /\ secrets'[minted + 1] = AccessToken
          /\ secrets'[minted + 2] = IF Rotated(r) THEN refresher[r].answer ELSE Empty
          /\ undeleted' = undeleted \cup failed
  BY StoreDoes
<1> DEFINE gone == Outdated(r) \ failed
<1>8. \A q \in Refreshers : refresher[q].pc # "idle" /\ refresher[q].conn \in Connected \ {c} => held \notin Held(q)
  BY <1>1, <1>6 DEF OAuthInv, VaultInv, RefreshesAreApart
<1>9. /\ conns'[c].status = "active" /\ conns'[c].access = minted + 1
      /\ conns'[c].refresh = IF Rotated(r) THEN minted + 2 ELSE held
      /\ \A d \in ConnIds \ {c} : conns'[d] = conns[d]
  BY <1>1, <1>2, <1>4 DEF Refreshed
<1> HIDE DEF c, held
<1>10. Connected' = Connected
  BY <1>1, <1>9 DEF Connected
<1>11. \A d \in Connected \ {c} : d \in ConnIds /\ gone \cap Tokens(d) = {} /\ held \notin Tokens(d)
  BY <1>3, <1>6 DEF Connected
<1>12. ~raced' => /\ ~raced /\ conns[c].refresh = held
                  /\ Tokens(c) \subseteq gone \cup undeleted' \cup {conns'[c].refresh}
  <2>1. Tokens(c) \subseteq {conns[c].access, conns[c].refresh}
    BY DEF Tokens
  <2>2. refresher[r].access \in Outdated(r) /\ (Rotated(r) => held \in Outdated(r))
    BY <1>5
  <2>3. Outdated(r) \subseteq gone \cup undeleted'
    BY <1>7
  <2>4. QED
    BY <1>1, <1>3, <1>9, <2>1, <2>2, <2>3
<1>13. ~Rotated(r) => held \notin gone
  BY <1>3, <1>5
<1>14. Connected \cap ({} \cup {c}) = {c} /\ {} \cup {c} = {c}
  BY <1>1
<1>15. \A d \in ConnIds : conns'[d].status = "unused" => conns[d].status = "unused"
  BY <1>9
<1>16. undeleted \subseteq undeleted'
  BY <1>7
<1> HIDE DEF gone
<1>17. \A s \in SecretIds \ {minted + 1, minted + 2} : secrets'[s] = IF s \in gone THEN Empty ELSE secrets[s]
  BY <1>7 DEF gone
<1>18. Replaces(c, {}, gone)
  <2>1. CASE Rotated(r)
    BY <1>1, <1>3, <1>7, <1>9, <1>10, <1>11, <1>12, <1>14, <1>15, <1>16, <1>17, <2>1 DEF Replaces
  <2>2. CASE ~Rotated(r)
    BY <1>1, <1>3, <1>7, <1>8, <1>9, <1>10, <1>11, <1>12, <1>13, <1>14, <1>15, <1>16, <1>17, <2>2 DEF Replaces
  <2>3. QED
    BY <2>1, <2>2
<1>19. RefreshersStayOrEnd
  BY <1>1, <1>4 DEF RefreshersStayOrEnd
<1> QED
  BY <1>18, <1>19 DEF c

\* Disconnecting takes the row's secrets and no other's.
LEMMA DisconnectKeepsInv ==
    ASSUME OAuthInv, NEW c \in ConnIds, Disconnect(c)
    PROVE  VaultInv' /\ (NoTokenLeftBehind => NoTokenLeftBehind')
<1>1. /\ c \in Connected
      /\ \A s \in SecretIds : secrets'[s] = IF s \in {conns[c].access, conns[c].refresh} THEN Empty ELSE secrets[s]
      /\ \A d \in ConnIds \ {c} : conns'[d] = conns[d]
      /\ conns'[c].status = "deleted"
      /\ UNCHANGED <<minted, issued, good, refresher, raced, undeleted>>
  BY DEF Disconnect, Without, NoConn, OAuthInv, OAuthTypeOK
<1>2. Connected' = Connected \ {c} /\ \A d \in Connected : d \in ConnIds
  BY <1>1 DEF Connected
<1>3. \A d \in Connected' : conns'[d] = conns[d] /\ Tokens(d)' = Tokens(d)
  BY <1>1, <1>2 DEF Tokens
<1>4. SecretsAreFresh'
  BY <1>1 DEF OAuthInv, VaultInv, SecretsAreFresh
<1>5. RowsAreApart'
  BY <1>2, <1>3 DEF OAuthInv, VaultInv, RowsAreApart
<1>6. ASSUME NEW d \in ConnIds
      PROVE  RowIsSound(d)'
  <2>1. CASE d \notin Connected'
    BY <2>1 DEF RowIsSound
  <2>2. CASE d \in Connected'
    <3>1. /\ conns[d].access \in 1..minted /\ conns[d].refresh \in 0..minted
          /\ conns[d].access # conns[d].refresh
          /\ secrets[conns[d].access] = AccessToken
          /\ raced \/ (conns[d].refresh # NoSecret => secrets[conns[d].refresh] \in SecretIds)
      BY <1>2, <2>2 DEF OAuthInv, VaultInv, RowIsSound, KeepsAccess, KeepsRefresh
    <3>2. minted \in 0..MaxSecrets
      BY DEF OAuthInv, OAuthTypeOK
    <3>3. \A s \in Tokens(d) : s \in SecretIds
      BY <3>1, <3>2, MaxSecretsAssumption DEF Tokens, SecretIds, NoSecret
    <3>4. Tokens(c) \cap Tokens(d) = {}
      BY <1>1, <1>2, <2>2 DEF OAuthInv, VaultInv, RowsAreApart
    <3>5. \A s \in Tokens(d) : secrets'[s] = secrets[s]
      BY <1>1, <3>3, <3>4 DEF Tokens
    <3>6. conns[d].access \in Tokens(d) /\ (conns[d].refresh # NoSecret => conns[d].refresh \in Tokens(d))
      BY <3>1 DEF Tokens, NoSecret
    <3>7. QED
      BY <1>1, <1>3, <2>2, <3>1, <3>5, <3>6 DEF RowIsSound, KeepsAccess, KeepsRefresh
  <2>3. QED
    BY <2>1, <2>2
<1>7. ASSUME NEW r \in Refreshers
      PROVE  RefreshIsSound(r)'
  <2>1. RefreshIsSound(r) /\ Held(r)' = Held(r)
    BY <1>1 DEF OAuthInv, VaultInv, Held
  <2>2. \A d \in ConnIds : conns'[d].status = "unused" => conns[d].status = "unused"
    BY <1>1
  <2>3. refresher[r].pc # "idle" => refresher[r].conn \in ConnIds
    BY RefresherFields DEF OAuthInv
  <2>4. QED
    BY <1>1, <1>2, <1>3, <2>1, <2>2, <2>3 DEF RefreshIsSound
<1>8. NoTokenLeftBehind => NoTokenLeftBehind'
  <2> SUFFICES ASSUME NoTokenLeftBehind, ~raced, NEW s \in SecretIds \ undeleted, secrets'[s] # Empty
               PROVE  \E d \in Connected' : s \in {conns'[d].access, conns'[d].refresh}
    BY <1>1 DEF NoTokenLeftBehind
  <2>1. secrets[s] # Empty /\ s \notin {conns[c].access, conns[c].refresh}
    BY <1>1
  <2>2. PICK d \in Connected : s \in {conns[d].access, conns[d].refresh}
    BY <2>1 DEF NoTokenLeftBehind
  <2>3. d \in Connected'
    BY <1>2, <2>1, <2>2
  <2>4. QED
    BY <1>3, <2>2, <2>3
<1>9. RefreshesAreApart'
  BY <1>1, <1>2 DEF OAuthInv, VaultInv, RefreshesAreApart, Held
<1> QED
  BY <1>4, <1>5, <1>6, <1>7, <1>8, <1>9 DEF VaultInv

\* A goroutine ends, goes on with what it holds, or takes what a row holds.
Moves(r) ==
    \/ refresher'[r].pc = "idle"
    \/ /\ refresher[r].pc # "idle"
       /\ refresher'[r].conn = refresher[r].conn
       /\ refresher'[r].access = refresher[r].access /\ refresher'[r].refresh = refresher[r].refresh
    \/ /\ refresher'[r].conn \in Connected
       /\ refresher'[r].access = conns[refresher'[r].conn].access
       /\ refresher'[r].refresh = conns[refresher'[r].conn].refresh

LEMMA StayingMoves ==
    ASSUME NEW r \in Refreshers, refresher'[r] \in {refresher[r], Waiting}
    PROVE  Moves(r)
BY DEF Moves, Waiting

LEMMA StaysApart ==
    ASSUME OAuthInv, TablesStay, \A r \in Refreshers : Moves(r)
    PROVE  RefreshesAreApart'
<1> SUFFICES ASSUME NEW q \in Refreshers, NEW r \in Refreshers,
                    refresher'[q].pc # "idle", refresher'[r].pc # "idle",
                    refresher'[q].conn \in Connected', refresher'[r].conn \in Connected',
                    refresher'[q].conn # refresher'[r].conn
             PROVE  Held(q)' \cap Held(r)' = {}
  BY DEF RefreshesAreApart
<1>1. Connected' = Connected
  BY DEF TablesStay
<1> DEFINE Goes(x) == /\ refresher[x].pc # "idle" /\ refresher[x].conn = refresher'[x].conn
                      /\ Held(x)' = Held(x)
           Takes(x) == Held(x)' = Tokens(refresher'[x].conn)
<1>2. \A x \in {q, r} : Goes(x) \/ Takes(x)
  BY DEF Moves, Held, Tokens
<1>3. CASE Goes(q) /\ Goes(r)
  BY <1>1, <1>3 DEF OAuthInv, VaultInv, RefreshesAreApart
<1>4. ASSUME NEW x \in Refreshers, NEW y \in Refreshers, Goes(x), Takes(y),
             refresher'[x].conn \in Connected, refresher'[y].conn \in Connected,
             refresher'[x].conn # refresher'[y].conn
      PROVE  Held(x)' \cap Held(y)' = {}
  <2>1. RefreshIsSound(x)
    BY DEF OAuthInv, VaultInv
  <2>2. Held(x) \cap Tokens(refresher'[y].conn) = {}
    BY <1>4, <2>1 DEF RefreshIsSound
  <2>3. QED
    BY <1>4, <2>2
<1>5. CASE Takes(q) /\ Takes(r)
  BY <1>1, <1>5 DEF OAuthInv, VaultInv, RowsAreApart
<1> HIDE DEF Goes, Takes
<1> QED
  BY <1>1, <1>2, <1>3, <1>4, <1>5

\* A step that leaves the tables and all goroutines but one as they are.
LEMMA StaysKeepsInv ==
    ASSUME OAuthInv, TablesStay, \A r \in Refreshers : Moves(r),
           \A r \in Refreshers : refresher'[r] = refresher[r] \/ RefreshIsSound(r)'
    PROVE  VaultInv' /\ (NoTokenLeftBehind => NoTokenLeftBehind')
<1>1. \A r \in Refreshers : RefreshIsSound(r)'
  BY StaysRefreshSound
<1>2. /\ SecretsAreFresh' /\ RowsAreApart' /\ \A c \in ConnIds : RowIsSound(c)'
      /\ NoTokenLeftBehind => NoTokenLeftBehind'
  BY StaysSound
<1>3. RefreshesAreApart'
  BY StaysApart
<1> QED
  BY <1>1, <1>2, <1>3 DEF VaultInv

LEMMA SameTables ==
    ASSUME UNCHANGED <<conns, secrets, minted, raced, undeleted>>
    PROVE  TablesStay
BY DEF TablesStay, Connected

\* A goroutine that has just read its row holds what the row holds.
LEMMA HoldsItsRow ==
    ASSUME OAuthInv, UNCHANGED <<conns, secrets, minted, raced, undeleted>>,
           NEW r \in Refreshers, NEW c \in Connected,
           refresher'[r].conn = c,
           refresher'[r].access = conns[c].access, refresher'[r].refresh = conns[c].refresh,
           refresher'[r].pc \in {"loaded", "failed"},
           refresher'[r].pc = "loaded" => conns[c].refresh # NoSecret
    PROVE  RefreshIsSound(r)'
<1>1. c \in ConnIds /\ conns[c].status # "unused" /\ Connected' = Connected
  BY DEF Connected
<1>2. /\ conns[c].access \in 1..minted /\ conns[c].refresh \in 0..minted
      /\ conns[c].access # conns[c].refresh
  BY <1>1 DEF OAuthInv, VaultInv, RowIsSound
<1>3. Held(r)' = Tokens(c)
  BY DEF Held, Tokens
<1>4. \A d \in Connected \ {c} : Tokens(c) \cap Tokens(d)' = {}
  BY DEF OAuthInv, VaultInv, RowsAreApart, Tokens
<1> QED
  BY <1>1, <1>2, <1>3, <1>4 DEF RefreshIsSound

\* A goroutine that goes on with what it holds stays sound.
LEMMA GoesOn ==
    ASSUME OAuthInv, UNCHANGED <<conns, secrets, minted, raced, undeleted>>,
           NEW r \in Refreshers, refresher[r].pc # "idle",
           refresher'[r].conn = refresher[r].conn, refresher'[r].access = refresher[r].access,
           refresher'[r].refresh = refresher[r].refresh,
           refresher'[r].pc \in {"asking", "failed", "flip", "store"},
           refresher'[r].pc \in {"asking", "store"} => refresher[r].pc \in {"loaded", "asking", "store"},
           refresher'[r].pc = "store" => refresher'[r].answer \in SecretIds
    PROVE  RefreshIsSound(r)'
<1>1. RefreshIsSound(r) /\ Connected' = Connected
  BY DEF OAuthInv, VaultInv, Connected
<1>2. Held(r)' = Held(r) /\ \A d \in Connected : Tokens(d)' = Tokens(d)
  BY DEF Held, Tokens
<1> QED
  BY <1>1, <1>2 DEF RefreshIsSound

LEMMA VaultStep ==
    ASSUME OAuthInv, [OAuthNext]_oauthVars
    PROVE  VaultInv' /\ (NoTokenLeftBehind => NoTokenLeftBehind')
<1> DEFINE Goal == VaultInv' /\ (NoTokenLeftBehind => NoTokenLeftBehind')
<1>0. /\ conns \in [ConnIds -> Conn] /\ refresher \in [Refreshers -> Refresher]
      /\ good \in SUBSET SecretIds /\ issued \in Nat
  BY DEF OAuthInv, OAuthTypeOK
<1>1. ASSUME NEW c \in ConnIds, NEW withRefresh \in BOOLEAN, Authorize(c, withRefresh)
      PROVE  Goal
  BY <1>1, AuthorizeReplaces, ReplacesKeepsInv
<1>2. ASSUME NEW c \in ConnIds, NEW old \in ConnIds, NEW withRefresh \in BOOLEAN,
             Reauthorize(old, c, withRefresh)
      PROVE  Goal
  BY <1>2, ReauthorizeReplaces, ReplacesKeepsInv
<1>3. ASSUME NEW c \in ConnIds, Disconnect(c)
      PROVE  Goal
  BY <1>3, DisconnectKeepsInv
<1>4. ASSUME NEW c \in ConnIds, Age(c)
      PROVE  Goal
  <2>1. conns[c] \in Conn
    BY <1>0
  <2>2. \A d \in ConnIds : /\ conns'[d].access = conns[d].access /\ conns'[d].refresh = conns[d].refresh
                           /\ conns'[d].status = conns[d].status
    BY <1>0, <1>4, <2>1 DEF Age, Conn
  <2>3. TablesStay /\ refresher' = refresher
    BY <1>4, <2>2 DEF Age, TablesStay, Connected
  <2>4. QED
    BY <2>3, StaysKeepsInv, StayingMoves
<1>5. ASSUME NEW r \in Refreshers, NEW c \in ConnIds, Load(r, c)
      PROVE  Goal
  <2>1. UNCHANGED <<conns, secrets, minted, raced, undeleted>> /\ c \in Connected
    BY <1>5 DEF Load, Connected
  <2>2. /\ \A q \in Refreshers \ {r} : refresher'[q] = refresher[q]
        /\ refresher'[r].conn = c
        /\ refresher'[r].access = conns[c].access /\ refresher'[r].refresh = conns[c].refresh
        /\ refresher'[r].pc = IF conns[c].refresh = NoSecret THEN "failed" ELSE "loaded"
    BY <1>0, <1>5 DEF Load
  <2>3. RefreshIsSound(r)'
    BY <2>1, <2>2, HoldsItsRow
  <2>4. TablesStay
    BY <2>1, SameTables
  <2>5. Moves(r)
    BY <2>1, <2>2 DEF Moves, Waiting
  <2>6. \A q \in Refreshers \ {r} : Moves(q)
    BY <2>2, StayingMoves
  <2>7. \A q \in Refreshers : Moves(q)
    BY <2>5, <2>6
  <2>8. QED
    BY <2>2, <2>3, <2>4, StaysKeepsInv, <2>7
<1>6. ASSUME NEW r \in Refreshers, ReadToken(r)
      PROVE  Goal
  <2>1. UNCHANGED <<conns, secrets, minted, raced, undeleted>> /\ refresher[r].pc = "loaded"
    BY <1>6 DEF ReadToken
  <2>2. refresher[r] \in [pc : {"loaded", "asking", "failed", "flip", "store"}, conn : ConnIds,
                          access : SecretIds \cup {NoSecret}, refresh : SecretIds \cup {NoSecret},
                          token : Nat, answer : Nat]
    BY <2>1, RefresherFields DEF OAuthInv
  <2>3. /\ \A q \in Refreshers \ {r} : refresher'[q] = refresher[q]
        /\ \/ refresher'[r] = Waiting
           \/ /\ refresher'[r].conn = refresher[r].conn /\ refresher'[r].access = refresher[r].access
              /\ refresher'[r].refresh = refresher[r].refresh /\ refresher'[r].pc = "asking"
    BY <1>0, <1>6, <2>2 DEF ReadToken
  <2>4. RefreshIsSound(r)'
    BY <2>1, <2>3, GoesOn, IdleIsSound
  <2>5. TablesStay
    BY <2>1, SameTables
  <2>6. Moves(r)
    BY <2>1, <2>3 DEF Moves, Waiting
  <2>7. \A q \in Refreshers \ {r} : Moves(q)
    BY <2>3, StayingMoves
  <2>8. \A q \in Refreshers : Moves(q)
    BY <2>6, <2>7
  <2>9. QED
    BY <2>3, <2>4, <2>5, StaysKeepsInv, <2>8
<1>7. ASSUME NEW r \in Refreshers, ProviderAccepts(r)
      PROVE  Goal
  <2>1. UNCHANGED <<conns, secrets, minted, raced, undeleted>> /\ refresher[r].pc = "asking"
    BY <1>7 DEF ProviderAccepts
  <2>2. refresher[r] \in [pc : {"loaded", "asking", "failed", "flip", "store"}, conn : ConnIds,
                          access : SecretIds \cup {NoSecret}, refresh : SecretIds \cup {NoSecret},
                          token : Nat, answer : Nat]
    BY <2>1, RefresherFields DEF OAuthInv
  <2>3. issued < MaxSecrets => issued + 1 \in SecretIds
    BY <1>0, MaxSecretsAssumption DEF SecretIds
  <2>4. /\ \A q \in Refreshers \ {r} : refresher'[q] = refresher[q]
        /\ refresher'[r].conn = refresher[r].conn /\ refresher'[r].access = refresher[r].access
        /\ refresher'[r].refresh = refresher[r].refresh /\ refresher'[r].pc = "store"
        /\ refresher'[r].answer \in SecretIds
    BY <1>0, <1>7, <2>2, <2>3 DEF ProviderAccepts
  <2>5. RefreshIsSound(r)'
    BY <2>1, <2>4, GoesOn
  <2>6. TablesStay
    BY <2>1, SameTables
  <2>7. Moves(r)
    BY <2>1, <2>4 DEF Moves, Waiting
  <2>8. \A q \in Refreshers \ {r} : Moves(q)
    BY <2>4, StayingMoves
  <2>9. \A q \in Refreshers : Moves(q)
    BY <2>7, <2>8
  <2>10. QED
    BY <2>4, <2>5, <2>6, StaysKeepsInv, <2>9
<1>8. ASSUME NEW r \in Refreshers, ProviderRefuses(r)
      PROVE  Goal
  <2>1. UNCHANGED <<conns, secrets, minted, raced, undeleted>> /\ refresher[r].pc = "asking"
    BY <1>8 DEF ProviderRefuses
  <2>2. refresher[r] \in [pc : {"loaded", "asking", "failed", "flip", "store"}, conn : ConnIds,
                          access : SecretIds \cup {NoSecret}, refresh : SecretIds \cup {NoSecret},
                          token : Nat, answer : Nat]
    BY <2>1, RefresherFields DEF OAuthInv
  <2>3. /\ \A q \in Refreshers \ {r} : refresher'[q] = refresher[q]
        /\ refresher'[r].conn = refresher[r].conn /\ refresher'[r].access = refresher[r].access
        /\ refresher'[r].refresh = refresher[r].refresh /\ refresher'[r].pc = "failed"
    BY <1>0, <1>8, <2>2 DEF ProviderRefuses
  <2>4. RefreshIsSound(r)'
    BY <2>1, <2>3, GoesOn
  <2>5. TablesStay
    BY <2>1, SameTables
  <2>6. Moves(r)
    BY <2>1, <2>3 DEF Moves, Waiting
  <2>7. \A q \in Refreshers \ {r} : Moves(q)
    BY <2>3, StayingMoves
  <2>8. \A q \in Refreshers : Moves(q)
    BY <2>6, <2>7
  <2>9. QED
    BY <2>3, <2>4, <2>5, StaysKeepsInv, <2>8
<1>9. ASSUME NEW r \in Refreshers, Reload(r)
      PROVE  Goal
  <2> DEFINE c == refresher[r].conn
  <2>1. UNCHANGED <<conns, secrets, minted, raced, undeleted>> /\ refresher[r].pc = "failed"
    BY <1>9 DEF Reload
  <2>2. /\ refresher[r] \in [pc : {"loaded", "asking", "failed", "flip", "store"}, conn : ConnIds,
                             access : SecretIds \cup {NoSecret}, refresh : SecretIds \cup {NoSecret},
                             token : Nat, answer : Nat]
        /\ c \in ConnIds
    BY <2>1, RefresherFields DEF OAuthInv
  <2>3. RefreshedMeanwhile(r) => c \in Connected
    BY <2>2 DEF RefreshedMeanwhile, Connected
  <2>4. /\ \A q \in Refreshers \ {r} : refresher'[q] = refresher[q]
        /\ \/ refresher'[r] = Waiting
           \/ /\ RefreshedMeanwhile(r) /\ conns[c].refresh # NoSecret
              /\ refresher'[r].conn = c /\ refresher'[r].access = conns[c].access
              /\ refresher'[r].refresh = conns[c].refresh /\ refresher'[r].pc = "loaded"
           \/ /\ refresher'[r].conn = refresher[r].conn /\ refresher'[r].access = refresher[r].access
              /\ refresher'[r].refresh = refresher[r].refresh /\ refresher'[r].pc = "flip"
    BY <1>0, <1>9, <2>2 DEF Reload
  <2> HIDE DEF c
  <2>5. RefreshIsSound(r)'
    BY <2>1, <2>3, <2>4, HoldsItsRow, GoesOn, IdleIsSound
  <2>6. TablesStay
    BY <2>1, SameTables
  <2>7. Moves(r)
    BY <2>1, <2>3, <2>4 DEF Moves, Waiting
  <2>8. \A q \in Refreshers \ {r} : Moves(q)
    BY <2>4, StayingMoves
  <2>9. \A q \in Refreshers : Moves(q)
    BY <2>7, <2>8
  <2>10. QED
    BY <2>4, <2>5, <2>6, StaysKeepsInv, <2>9
<1>10. ASSUME NEW r \in Refreshers, Flip(r)
       PROVE  Goal
  <2> DEFINE c == refresher[r].conn
  <2>1. c \in ConnIds /\ conns[c] \in Conn
    BY <1>0, <1>10, RefresherFields DEF OAuthInv, Flip
  <2>2. /\ \A d \in ConnIds : /\ conns'[d].access = conns[d].access /\ conns'[d].refresh = conns[d].refresh
                              /\ d # c => conns'[d].status = conns[d].status
        /\ \/ c \in Connected /\ conns'[c].status = "needs_reauth"
           \/ c \notin Connected /\ conns'[c].status = conns[c].status
    BY <1>0, <1>10, <2>1 DEF Flip, Conn
  <2>3. Connected' = Connected
    BY <2>1, <2>2 DEF Connected
  <2>4. TablesStay
    BY <1>10, <2>2, <2>3 DEF Flip, TablesStay
  <2>5. \A q \in Refreshers : refresher'[q] = refresher[q] \/ refresher'[q] = Waiting
    BY <1>0, <1>10 DEF Flip
  <2>6. QED
    BY <2>4, <2>5, IdleIsSound, StaysKeepsInv, StayingMoves
<1>11. ASSUME NEW r \in Refreshers, Store(r)
       PROVE  Goal
  <2>1. refresher[r].conn \in ConnIds
    BY <1>11 DEF Store, Connected
  <2>2. QED
    BY <1>11, <2>1, StoreReplaces, ReplacesKeepsInv
<1>12. ASSUME NEW r \in Refreshers, StoreRolledBack(r)
       PROVE  Goal
  <2>1. TablesStay
    BY <1>12, SameTables DEF StoreRolledBack
  <2>2. \A q \in Refreshers : refresher'[q] = refresher[q] \/ refresher'[q] = Waiting
    BY <1>0, <1>12 DEF StoreRolledBack
  <2>3. QED
    BY <2>1, <2>2, IdleIsSound, StaysKeepsInv, StayingMoves
<1>13. CASE OAuthCrash
  <2>1. TablesStay /\ \A q \in Refreshers : refresher'[q] = Waiting
    BY <1>13, SameTables DEF OAuthCrash
  <2>2. QED
    BY <2>1, IdleIsSound, StaysKeepsInv, StayingMoves
<1>14. CASE UNCHANGED oauthVars
  <2>1. TablesStay /\ refresher' = refresher
    BY <1>14, SameTables DEF oauthVars
  <2>2. QED
    BY <2>1, StaysKeepsInv, StayingMoves
<1> QED
  BY <1>1, <1>2, <1>3, <1>4, <1>5, <1>6, <1>7, <1>8, <1>9, <1>10, <1>11, <1>12, <1>13, <1>14 DEF OAuthNext

-----------------------------------------------------------------------------
(* OAuth connections: the theorems *)

LEMMA OAuthInvInit == OAuthInit => OAuthInv /\ NoTokenLeftBehind
<1> SUFFICES ASSUME OAuthInit
             PROVE  OAuthInv /\ NoTokenLeftBehind
  OBVIOUS
<1>1. Connected = {} /\ \A r \in Refreshers : refresher[r].pc = "idle"
  BY DEF OAuthInit, Connected, NoConn, Waiting
<1>2. OAuthTypeOK
  <2>1. NoConn("unused") \in Conn /\ Waiting \in Refresher
    BY DEF NoConn, Conn, Waiting, Refresher
  <2>2. 0 \in 0..MaxSecrets /\ Empty \in {Empty, AccessToken} \cup SecretIds
    BY MaxSecretsAssumption
  <2>3. conns \in [ConnIds -> Conn] /\ refresher \in [Refreshers -> Refresher]
    BY <2>1 DEF OAuthInit
  <2>4. secrets \in [SecretIds -> {Empty, AccessToken} \cup SecretIds]
    BY <2>2 DEF OAuthInit
  <2>5. QED
    BY <2>2, <2>3, <2>4 DEF OAuthInit, OAuthTypeOK
<1>3. VaultInv
  BY <1>1 DEF OAuthInit, VaultInv, SecretsAreFresh, RowIsSound, RowsAreApart, RefreshIsSound, RefreshesAreApart
<1>4. NoTokenLeftBehind
  BY DEF OAuthInit, NoTokenLeftBehind
<1> QED
  BY <1>2, <1>3, <1>4 DEF OAuthInv

LEMMA OAuthInvHolds == OAuthSpec => [](OAuthInv /\ NoTokenLeftBehind)
<1>1. OAuthInv /\ NoTokenLeftBehind /\ [OAuthNext]_oauthVars => OAuthInv' /\ NoTokenLeftBehind'
  BY OAuthTypeStep, VaultStep DEF OAuthInv
<1> QED
  BY <1>1, OAuthInvInit, PTL DEF OAuthSpec

\* Every value authorizations, refreshes, disconnections and restarts leave in
\* oauth_connections and the vault has its type.
THEOREM OAuthTyped == OAuthSpec => []OAuthTypeOK
<1>1. OAuthInv => OAuthTypeOK
  BY DEF OAuthInv
<1> QED
  BY <1>1, OAuthInvHolds, PTL

\* A connection's access token is never lost, whatever refreshes, new
\* authorizations, disconnections and restarts overlap and whichever answers
\* rotate, and its refresh token only once a refresh has overwritten another's
\* (StoreRefreshedTokens, storeOAuthTokens).
THEOREM TokensKept == OAuthSpec => []TokensAreKept
<1>1. OAuthInv => TokensAreKept
  BY DEF OAuthInv, VaultInv, RowIsSound, TokensAreKept, Connected
<1> QED
  BY <1>1, OAuthInvHolds, PTL

\* Only overlapping refreshes of one connection can leave a token in the vault
\* that no connection refers to (StoreRefreshedTokens in its transaction,
\* handleDeleteOAuthConnection).
THEOREM NothingLeftBehind == OAuthSpec => []NoTokenLeftBehind
BY OAuthInvHolds, PTL
==============================================================================
