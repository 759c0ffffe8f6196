---------------------------- MODULE MatchingProofs ----------------------------
(***************************************************************************)
(* A request only runs under a standing approval that lets it through, and *)
(* as its data window and relative dates let it, for any documents,        *)
(* requests and schema.                                                    *)
(*                                                                         *)
(* Both follow from what one candidate's evaluation means; the loop only   *)
(* has to leave the request alone and carry the window parameters along.   *)
(***************************************************************************)
EXTENDS Matching, TLAPS

-----------------------------------------------------------------------------
(* What an evaluation means *)

How == {"plain", "flat", "recipient"}

\* A value that matches an entry is covered by it.
LEMMA MatchCovers ==
    ASSUME NEW c, IsEntry(c), NEW v, v # Unset, NEW how \in How, ValueMatches(c, v, how)
    PROVE  \/ IsWildcard(c)
           \/ how = "recipient" /\ v.elems \cap c.of # {}
           \/ how # "recipient" /\ v.elems \subseteq c.of
BY DEF ValueMatches

\* A scalar that has an element in common with an entry matches it, and so do
\* recipients.
LEMMA CommonMatches ==
    ASSUME NEW c, IsEntry(c), ~IsWildcard(c), NEW v, v # Unset, IsValue(v), NEW how \in How,
           IF how = "recipient" THEN v.array ELSE ~v.array,
           v.elems \cap c.of # {}
    PROVE  ValueMatches(c, v, how)
<1>1. CASE how = "recipient"
  BY <1>1 DEF ValueMatches
<1>2. CASE how # "recipient"
  <2>1. PICK x : x \in v.elems /\ x \in c.of
    OBVIOUS
  <2>2. v.elems = {x}
    BY <1>2, <2>1 DEF IsValue
  <2>3. CASE c.kind = "fixed"
    <3>1. c.of = {x}
      BY <2>1, <2>3 DEF IsEntry
    <3>2. QED
      BY <1>2, <2>2, <2>3, <3>1 DEF ValueMatches
  <2>4. CASE c.kind = "pattern"
    BY <1>2, <2>1, <2>2, <2>4 DEF ValueMatches
  <2>5. QED
    BY <2>3, <2>4 DEF IsEntry, IsWildcard
<1> QED
  BY <1>1, <1>2

\* What the documents promise of the conditions of a field, or, for an array that
\* is not one of recipients, what is kept of it.
Sound(f, v, recipient) == IF IsArray(v) /\ ~recipient THEN AllowsAll(f, v) ELSE Meets(f, v)

\* One of the allowed values has an element of what FieldHolds accepts, or, in an
\* array, all of them.
LEMMA FieldAllows ==
    ASSUME NEW f, \A c \in f.allow \cup f.deny : IsEntry(c),
           NEW v, v # Unset, IsValue(v), NEW how \in How, FieldHolds(f, v, how)
    PROVE  \/ f.allow = {}
           \/ \E c \in f.allow :
                 \/ IsWildcard(c)
                 \/ IF IsArray(v) /\ how # "recipient" THEN v.elems \subseteq c.of
                                                       ELSE v.elems \cap c.of # {}
<1>1. SUFFICES ASSUME f.allow # {}
               PROVE  \E c \in f.allow :
                         \/ IsWildcard(c)
                         \/ IF IsArray(v) /\ how # "recipient" THEN v.elems \subseteq c.of
                                                               ELSE v.elems \cap c.of # {}
  OBVIOUS
<1>2. PICK c \in f.allow : ValueMatches(c, v, how)
  BY <1>1 DEF FieldHolds
<1>3. IsEntry(c)
  OBVIOUS
<1>4. \/ IsWildcard(c)
      \/ how = "recipient" /\ v.elems \cap c.of # {}
      \/ how # "recipient" /\ v.elems \subseteq c.of
  BY <1>2, <1>3, MatchCovers
<1>5. ~v.array => v.elems # {}
  BY DEF IsValue
<1>6. how # "recipient" /\ ~v.array /\ v.elems \subseteq c.of => v.elems \cap c.of # {}
  BY <1>5
<1> QED
  BY <1>4, <1>6 DEF IsArray

\* Of what FieldHolds accepts, no scalar and no recipient is denied.
LEMMA FieldDenies ==
    ASSUME NEW f, \A c \in f.allow \cup f.deny : IsEntry(c),
           NEW v, v # Unset, IsValue(v), NEW how \in How,
           IF how = "recipient" THEN v.array ELSE ~v.array,
           FieldHolds(f, v, how)
    PROVE  v.elems \cap UNION {c.of : c \in {d \in f.deny : ~IsWildcard(d)}} = {}
<1>1. SUFFICES ASSUME NEW c \in f.deny, ~IsWildcard(c), v.elems \cap c.of # {}
               PROVE  FALSE
  OBVIOUS
<1>2. IsEntry(c)
  OBVIOUS
<1>3. ValueMatches(c, v, how)
  BY <1>1, <1>2, CommonMatches
<1> QED
  BY <1>1, <1>3 DEF FieldHolds, Denied

\* What FieldHolds accepts is sound.
LEMMA FieldSound ==
    ASSUME NEW f, \A c \in f.allow \cup f.deny : IsEntry(c),
           NEW v, IsValue(v), NEW how \in How, how = "recipient" /\ v # Unset => v.array,
           FieldHolds(f, v, how)
    PROVE  Sound(f, v, how = "recipient")
<1>1. CASE v = Unset
  <2>1. f.allow = {} \/ \E c \in f.allow : IsWildcard(c)
    BY <1>1 DEF FieldHolds, ValueMatches
  <2>2. f.compare = {}
    BY <1>1 DEF FieldHolds
  <2>3. QED
    BY <1>1, <2>1, <2>2 DEF Sound, Meets, IsArray
<1>2. CASE v # Unset /\ v.array /\ how # "recipient"
  <2>1. f.compare = {}
    BY <1>2 DEF FieldHolds
  <2>2. f.allow = {} \/ \E c \in f.allow : IsWildcard(c) \/ v.elems \subseteq c.of
    BY <1>2, FieldAllows DEF IsArray
  <2>3. QED
    BY <1>2, <2>1, <2>2 DEF Sound, AllowsAll, IsArray
<1>3. CASE v # Unset /\ ~(v.array /\ how # "recipient")
  <2>1. f.allow = {} \/ \E c \in f.allow : IsWildcard(c) \/ v.elems \cap c.of # {}
    BY <1>3, FieldAllows DEF IsArray
  <2>2. IF how = "recipient" THEN v.array ELSE ~v.array
    BY <1>3
  <2>3. v.elems \cap UNION {c.of : c \in {d \in f.deny : ~IsWildcard(d)}} = {}
    BY <1>3, <2>2, FieldDenies
  <2>4. \A s \in f.compare : v.elems \subseteq s
    BY DEF FieldHolds
  <2>5. Meets(f, v)
    BY <1>3, <2>1, <2>3, <2>4 DEF Meets
  <2>6. QED
    BY <1>3, <2>5 DEF Sound, IsArray
<1> QED
  BY <1>1, <1>2, <1>3

-----------------------------------------------------------------------------
(* Groups and documents *)

\* Filling in wildcards leaves groups with conditions, and their metadata alone.
LEMMA FilledGroup ==
    ASSUME NEW groups, NEW i \in DOMAIN groups,
           groups[i] = [params |-> groups[i].params, meta |-> groups[i].meta],
           AreConditions(groups[i].params)
    PROVE  /\ AreConditions(Filled(groups)[i].params)
           /\ Filled(groups)[i].meta = groups[i].meta
<1> DEFINE missing == Schema \ UNION {DOMAIN groups[j].params : j \in DOMAIN groups}
           old == groups[i].params
           new == [f \in DOMAIN old \cup missing |-> IF f \in missing THEN AnyValue ELSE old[f]]
<1>1. Filled(groups)[i] = [groups[i] EXCEPT !.params = new]
  BY DEF Filled
<1> HIDE DEF missing
<1>2. Filled(groups)[i].params = new /\ Filled(groups)[i].meta = groups[i].meta
  BY <1>1
<1>3. AreConditions(new)
  <2> SUFFICES ASSUME NEW f \in DOMAIN old \cup missing, NEW c \in new[f].allow \cup new[f].deny
               PROVE  IsEntry(c)
    BY DEF AreConditions
  <2>1. CASE f \in missing
    <3>1. new[f] = AnyValue
      BY <2>1
    <3>2. c = [kind |-> "wild", of |-> {}]
      BY <3>1 DEF AnyValue
    <3>3. QED
      BY <3>2 DEF IsEntry
  <2>2. CASE f \notin missing
    <3>1. new[f] = old[f] /\ f \in DOMAIN old
      BY <2>2
    <3>2. QED
      BY <3>1 DEF AreConditions
  <2>3. QED
    BY <2>1, <2>2
<1> QED
  BY <1>2, <1>3

\* Group g lets the request through: its parameters are all mentioned and, like
\* every message, sound.
Justifies(g) ==
    /\ \A f \in DOMAIN asked.params : f \in DOMAIN g.params
    /\ \A f \in DOMAIN g.params : Sound(g.params[f], Param(f), FALSE)
    /\ \A f \in DOMAIN g.meta : \A msg \in asked.meta : Sound(g.meta[f], msg[f], f \in Recipients)

LEMMA ParamIsValue ==
    ASSUME asked \in Requests, NEW f
    PROVE  IsValue(Param(f))
<1>1. \A x \in DOMAIN asked.params : IsValue(asked.params[x])
  BY RequestsAssumption
<1> QED
  BY <1>1 DEF Param, IsValue

LEMMA OutcomeJustifies ==
    ASSUME asked \in Requests, NEW g, AreConditions(g.params), AreConditions(g.meta),
           NEW form \in {"plain", "flat"},
           DOMAIN g.meta # {} => asked.meta # Unset,
           asked.meta # Unset => \A msg \in asked.meta : DOMAIN g.meta \subseteq DOMAIN msg,
           GroupOutcome(g, form, asked.meta) = "match"
    PROVE  Justifies(g)
<1>1. /\ \A f \in DOMAIN g.params : FieldHolds(g.params[f], Param(f), form)
      /\ MetaHolds(g, asked.meta)
      /\ DOMAIN asked.params \subseteq DOMAIN g.params
  BY DEF GroupOutcome
<1>2. ASSUME NEW f \in DOMAIN g.params
      PROVE  Sound(g.params[f], Param(f), FALSE)
  <2>1. /\ \A c \in g.params[f].allow \cup g.params[f].deny : IsEntry(c)
        /\ IsValue(Param(f)) /\ form \in How /\ form # "recipient"
    BY ParamIsValue DEF AreConditions, How
  <2>2. Sound(g.params[f], Param(f), form = "recipient")
    BY <1>1, <2>1, FieldSound
  <2>3. (form = "recipient") = FALSE
    BY <2>1
  <2>4. QED
    BY <2>2, <2>3
<1>3. ASSUME NEW f \in DOMAIN g.meta, NEW msg \in asked.meta
      PROVE  Sound(g.meta[f], msg[f], f \in Recipients)
  <2> DEFINE how == IF f \in Recipients THEN "recipient" ELSE "plain"
  <2>1. asked.meta # Unset /\ f \in DOMAIN msg
    OBVIOUS
  <2>2. IsValue(msg[f]) /\ (f \in Recipients /\ msg[f] # Unset => msg[f].array)
    BY <2>1, RequestsAssumption
  <2>3. FieldHolds(g.meta[f], msg[f], how)
    BY <1>1 DEF MetaHolds
  <2>4. how \in How /\ (how = "recipient" <=> f \in Recipients)
    BY DEF How
  <2>5. \A c \in g.meta[f].allow \cup g.meta[f].deny : IsEntry(c)
    BY DEF AreConditions
  <2> HIDE DEF how
  <2>6. Sound(g.meta[f], msg[f], how = "recipient")
    BY <2>2, <2>3, <2>4, <2>5, FieldSound
  <2>7. (how = "recipient") = (f \in Recipients)
    BY <2>4
  <2>8. QED
    BY <2>6, <2>7
<1> QED
  BY <1>1, <1>2, <1>3 DEF Justifies

\* The promise of one evaluation: some group is met.
LEMMA HoldsJustifies ==
    ASSUME asked \in Requests, sas \in Candidates, NEW n \in DOMAIN sas,
           ConstraintsHold(sas[n], asked.meta)
    PROVE  \E i \in DOMAIN sas[n].groups : Justifies(Filled(sas[n].groups)[i])
<1> DEFINE groups == sas[n].groups
<1>1. /\ sas[n].form = "flat" => 1 \in DOMAIN groups
      /\ \A j \in DOMAIN groups :
            /\ groups[j] = [params |-> groups[j].params, meta |-> groups[j].meta]
            /\ AreConditions(groups[j].params) /\ AreConditions(groups[j].meta)
            /\ asked.meta # Unset => \A msg \in asked.meta : DOMAIN groups[j].meta \subseteq DOMAIN msg
  BY CandidatesAssumption
<1>2. DOMAIN Filled(groups) = DOMAIN groups
  BY DEF Filled
<1>3. PICK i \in DOMAIN groups, form \in {"plain", "flat"} : GroupOutcome(Filled(groups)[i], form, asked.meta) = "match"
  BY <1>1, <1>2 DEF ConstraintsHold, StructuredHolds, FlatHolds
<1>4. AreConditions(Filled(groups)[i].params) /\ Filled(groups)[i].meta = groups[i].meta
  <2>1. /\ groups[i] = [params |-> groups[i].params, meta |-> groups[i].meta]
        /\ AreConditions(groups[i].params)
    BY <1>1
  <2> HIDE DEF groups
  <2>2. QED
    BY <2>1, FilledGroup
<1>5. DOMAIN groups[i].meta # {} => asked.meta # Unset
  BY DEF ConstraintsHold, NeedsMeta
<1> HIDE DEF groups
<1>6. Justifies(Filled(groups)[i])
  BY <1>1, <1>3, <1>4, <1>5, OutcomeJustifies
<1> QED
  BY <1>6 DEF groups

-----------------------------------------------------------------------------
(* Whole seconds *)

LEMMA TruncBelow ==
    ASSUME NEW t \in Int
    PROVE  Trunc(t) \in Int /\ Trunc(t) <= t
<1> DEFINE n == WholeSecond
           q == t \div n
<1>1. n \in Nat /\ n > 0
  BY WholeSecondAssumption
<1>2. q \in Int /\ t = n * q + (t % n) /\ t % n \in 0..(n - 1)
  BY <1>1
<1>3. Trunc(t) = q * n
  BY DEF Trunc
<1> HIDE DEF q
<1>4. q * n \in Int /\ q * n = n * q
  BY <1>1, <1>2
<1> QED
  BY <1>1, <1>2, <1>3, <1>4

\* No whole second lies between an instant and its truncation.
LEMMA TruncLargest ==
    ASSUME NEW s \in Int, NEW t \in Int, Trunc(s) <= t
    PROVE  Trunc(s) <= Trunc(t)
<1> DEFINE n == WholeSecond
           p == s \div n
           q == t \div n
<1>1. n \in Nat /\ n > 0
  BY WholeSecondAssumption
<1>2. p \in Int /\ q \in Int /\ t = n * q + (t % n) /\ t % n \in 0..(n - 1)
  BY <1>1
<1>3. Trunc(s) = n * p /\ Trunc(t) = n * q
  <2> HIDE DEF p, q
  <2>1. p * n = n * p /\ q * n = n * q
    BY <1>1, <1>2
  <2>2. QED
    BY <2>1 DEF Trunc, p, q
<1>4. n * p <= t
  BY <1>3
<1> HIDE DEF p, q, n
<1>5. SUFFICES ASSUME p > q PROVE FALSE
  <2>1. p <= q => n * p <= n * q
    BY <1>1, <1>2
  <2>2. QED
    BY <1>2, <1>3, <2>1
<1>6. n * p >= n * (q + 1)
  BY <1>1, <1>2, <1>5
<1>7. n * (q + 1) = n * q + n
  BY <1>1, <1>2
<1>8. n * p \in Int /\ n * q \in Int
  BY <1>1, <1>2
<1>9. QED
  BY <1>1, <1>2, <1>4, <1>6, <1>7, <1>8

\* A later instant is in the same second or a later one.
LEMMA TruncMonotone ==
    ASSUME NEW s \in Int, NEW t \in Int, s <= t
    PROVE  Trunc(s) <= Trunc(t)
<1>1. Trunc(s) \in Int /\ Trunc(s) <= s
  BY TruncBelow
<1>2. Trunc(s) <= t
  BY <1>1
<1> QED
  BY <1>2, TruncLargest

-----------------------------------------------------------------------------
(* Windows and dates *)

LEMMA LaterEarlier ==
    ASSUME NEW t \in Int \cup {Unset}, NEW u \in Int
    PROVE  /\ Later(t, u) \in Int /\ Later(t, u) >= u /\ (t # Unset => Later(t, u) >= t)
           /\ Earlier(t, u) \in Int /\ Earlier(t, u) <= u /\ (t # Unset => Earlier(t, u) <= t)
BY UnsetAssumption DEF Later, Earlier

\* Span s begins and ends where window w lets it.
StartsIn(s, w) == w.start # Unset => s.start # Unset /\ s.start >= Trunc(Opens(w))
EndsIn(s, w) == w.end # Unset => s.end # Unset /\ s.end <= Closes(w)

LEMMA OpensCloses ==
    ASSUME NEW w, IsSpan(w)
    PROVE  /\ w.start # Unset => Opens(w) \in Int
           /\ w.end # Unset => Closes(w) \in Int
BY UnsetAssumption DEF IsSpan, LeavesNothing, Opens, Closes

LEMMA WindowedWithin ==
    ASSUME NEW s, IsSpan(s), NEW w, IsSpan(w)
    PROVE  /\ IsSpan(Windowed(s, w))
           /\ StartsIn(Windowed(s, w), w) /\ EndsIn(Windowed(s, w), w)
<1> DEFINE start == Later(s.start, w.start)
           end == Earlier(s.end, w.end)
           first == IF w.end # Unset /\ start >= w.end THEN w.end - 1 ELSE start
           last == IF w.start # Unset /\ end <= w.start THEN w.start + 1 ELSE end
<1>1. /\ s.start \in Int \cup {Unset} /\ s.end \in Int \cup {Unset}
      /\ w.start \in Int \cup {Unset} /\ w.end \in Int \cup {Unset}
  BY DEF IsSpan
<1>2. /\ Windowed(s, w).start = IF w.start = Unset THEN s.start ELSE Trunc(first)
      /\ Windowed(s, w).end = IF w.end = Unset THEN s.end ELSE Trunc(last)
  BY DEF Windowed
<1>3. ASSUME w.start # Unset
      PROVE  Trunc(first) \in Int /\ Trunc(first) >= Trunc(Opens(w))
  <2>1. w.start \in Int /\ start \in Int /\ start >= w.start
    BY <1>1, <1>3, LaterEarlier
  <2>2. first \in Int /\ Opens(w) \in Int
    BY <1>1, <1>3, <2>1, OpensCloses
  <2>3. Opens(w) <= first
    BY <1>1, <1>3, <2>1 DEF LeavesNothing, Opens
  <2> HIDE DEF first
  <2>4. Trunc(first) \in Int /\ Trunc(Opens(w)) \in Int
    BY <2>2, TruncBelow
  <2>5. Trunc(Opens(w)) <= Trunc(first)
    BY <2>2, <2>3, TruncMonotone
  <2>6. QED
    BY <2>4, <2>5
<1>4. ASSUME w.end # Unset
      PROVE  Trunc(last) \in Int /\ Trunc(last) <= Closes(w)
  <2>1. w.end \in Int /\ end \in Int /\ end <= w.end
    BY <1>1, <1>4, LaterEarlier
  <2>2. last \in Int /\ Closes(w) \in Int
    BY <1>1, <1>4, <2>1, OpensCloses
  <2>3. last <= Closes(w)
    BY <1>1, <1>4, <2>1 DEF LeavesNothing, Closes
  <2> HIDE DEF last
  <2>4. Trunc(last) \in Int /\ Trunc(last) <= last
    BY <2>2, TruncBelow
  <2>5. QED
    BY <2>2, <2>3, <2>4
<1> HIDE DEF first, last
<1>5. IsSpan(Windowed(s, w))
  BY <1>1, <1>2, <1>3, <1>4 DEF IsSpan
<1>6. StartsIn(Windowed(s, w), w)
  BY <1>2, <1>3, UnsetAssumption DEF StartsIn
<1>7. EndsIn(Windowed(s, w), w)
  BY <1>2, <1>4, UnsetAssumption DEF EndsIn
<1> QED
  BY <1>5, <1>6, <1>7

\* A parameter that was bounded obeys the bound; a lower bound never takes it
\* below a second it was not below, an upper one never above anything.
LEMMA BoundedObeys ==
    ASSUME NEW t \in Int \cup {Unset}, NEW b, IsBound(b)
    PROVE  /\ Bounded(t, b) \in Int \cup {Unset}
           /\ Obeys(Bounded(t, b), b)
           /\ (b # Unset => b.role = "lower") =>
                 \A u \in Int : t # Unset /\ t >= Trunc(u) =>
                     Bounded(t, b) # Unset /\ Bounded(t, b) >= Trunc(u)
           /\ (b # Unset => b.role = "upper") =>
                 \A u \in Int : t # Unset /\ t <= u => Bounded(t, b) # Unset /\ Bounded(t, b) <= u
<1>1. CASE b = Unset
  BY <1>1 DEF Bounded, Obeys
<1>2. CASE b # Unset /\ b.role = "upper"
  <2> DEFINE e == Earlier(t, b.at)
  <2>1. b.at \in Int /\ Bounded(t, b) = Trunc(e)
    BY <1>2 DEF IsBound, Bounded
  <2>2. e \in Int /\ e <= b.at /\ (t # Unset => e <= t)
    BY <2>1, LaterEarlier
  <2> HIDE DEF e
  <2>3. Trunc(e) \in Int /\ Trunc(e) <= e
    BY <2>2, TruncBelow
  <2>4. Trunc(e) # Unset
    BY <2>3, UnsetAssumption
  <2>5. Trunc(e) <= b.at /\ (t # Unset => Trunc(e) <= t)
    BY <2>1, <2>2, <2>3
  <2>6. QED
    BY <1>2, <2>1, <2>3, <2>4, <2>5 DEF Obeys
<1>3. CASE b # Unset /\ b.role = "lower"
  <2> DEFINE e == Later(t, b.at)
  <2>1. b.at \in Int /\ Bounded(t, b) = Trunc(e)
    BY <1>3 DEF IsBound, Bounded
  <2>2. e \in Int /\ e >= b.at /\ (t # Unset => e >= t)
    BY <2>1, LaterEarlier
  <2> HIDE DEF e
  <2>3. Trunc(e) \in Int /\ Trunc(b.at) \in Int /\ Trunc(b.at) <= Trunc(e)
    BY <2>1, <2>2, TruncBelow, TruncMonotone
  <2>4. Trunc(e) # Unset
    BY <2>3, UnsetAssumption
  <2>5. ASSUME NEW u \in Int, t # Unset, t >= Trunc(u)
        PROVE  Trunc(e) >= Trunc(u)
    <3>1. Trunc(u) \in Int
      BY TruncBelow
    <3>2. Trunc(u) <= e
      BY <2>2, <2>5, <3>1
    <3>3. Trunc(u) <= Trunc(e)
      BY <2>2, <3>2, TruncLargest
    <3>4. QED
      BY <2>3, <3>1, <3>3
  <2>6. QED
    BY <1>3, <2>1, <2>3, <2>4, <2>5 DEF Obeys
<1> QED
  BY <1>1, <1>2, <1>3 DEF IsBound

\* Relative dates are obeyed, and those of the parameter's own role keep it where
\* the window lets it.
LEMMA DatedWithin ==
    ASSUME NEW s, IsSpan(s), NEW d, IsBound(d.start), IsBound(d.end)
    PROVE  /\ IsSpan(Dated(s, d))
           /\ Obeys(Dated(s, d).start, d.start) /\ Obeys(Dated(s, d).end, d.end)
           /\ \A w : IsSpan(w) =>
                 /\ StartsIn(s, w) /\ (d.start # Unset => d.start.role = "lower") =>
                       StartsIn(Dated(s, d), w)
                 /\ EndsIn(s, w) /\ (d.end # Unset => d.end.role = "upper") =>
                       EndsIn(Dated(s, d), w)
<1>1. s.start \in Int \cup {Unset} /\ s.end \in Int \cup {Unset}
  BY DEF IsSpan
<1>2. Dated(s, d).start = Bounded(s.start, d.start) /\ Dated(s, d).end = Bounded(s.end, d.end)
  BY DEF Dated
<1>3. IsSpan(Dated(s, d)) /\ Obeys(Dated(s, d).start, d.start) /\ Obeys(Dated(s, d).end, d.end)
  <2>1. Bounded(s.start, d.start) \in Int \cup {Unset} /\ Obeys(Bounded(s.start, d.start), d.start)
    BY <1>1, BoundedObeys
  <2>2. Bounded(s.end, d.end) \in Int \cup {Unset} /\ Obeys(Bounded(s.end, d.end), d.end)
    BY <1>1, BoundedObeys
  <2>3. QED
    BY <1>2, <2>1, <2>2 DEF IsSpan
<1>4. ASSUME NEW w, IsSpan(w), StartsIn(s, w), d.start # Unset => d.start.role = "lower"
      PROVE  StartsIn(Dated(s, d), w)
  <2>1. SUFFICES ASSUME w.start # Unset
                 PROVE  Dated(s, d).start # Unset /\ Dated(s, d).start >= Trunc(Opens(w))
    BY DEF StartsIn
  <2>2. Opens(w) \in Int /\ s.start # Unset /\ s.start >= Trunc(Opens(w))
    BY <1>4, <2>1, OpensCloses DEF StartsIn
  <2>3. QED
    BY <1>1, <1>2, <1>4, <2>2, BoundedObeys
<1>5. ASSUME NEW w, IsSpan(w), EndsIn(s, w), d.end # Unset => d.end.role = "upper"
      PROVE  EndsIn(Dated(s, d), w)
  <2>1. SUFFICES ASSUME w.end # Unset
                 PROVE  Dated(s, d).end # Unset /\ Dated(s, d).end <= Closes(w)
    BY DEF EndsIn
  <2>2. Closes(w) \in Int /\ s.end # Unset /\ s.end <= Closes(w)
    BY <1>5, <2>1, OpensCloses DEF EndsIn
  <2>3. QED
    BY <1>1, <1>2, <1>5, <2>2, BoundedObeys
<1> QED
  BY <1>3, <1>4, <1>5

-----------------------------------------------------------------------------
(* The loop *)

MatchTypes ==
    /\ asked \in Requests
    /\ sas \in Candidates
    /\ at \in Nat \ {0}
    /\ IsSpan(span)
    /\ chosen \in Nat \cup {Unset}

MatchInv == MatchTypes /\ MatchIsJustified /\ WindowIsKept

LEMMA MatchInvInit == MatchInit => MatchInv
<1> SUFFICES ASSUME MatchInit
             PROVE  MatchInv
  OBVIOUS
<1>1. MatchTypes
  BY RequestsAssumption DEF MatchInit, MatchTypes
<1>2. ~Found
  BY CandidatesAssumption DEF MatchInit, Found
<1> QED
  BY <1>1, <1>2 DEF MatchInv, MatchIsJustified, WindowIsKept

\* Where the loop stands is a candidate.
LEMMA AtIsCandidate ==
    ASSUME MatchTypes, Trying
    PROVE  /\ at \in DOMAIN sas
           /\ sas[at].window # Unset => IsSpan(sas[at].window)
           /\ IsBound(sas[at].dates.start) /\ IsBound(sas[at].dates.end)
<1>1. Len(sas) \in Nat /\ DOMAIN sas = 1..Len(sas)
  BY CandidatesAssumption DEF MatchTypes
<1>2. at \in DOMAIN sas
  BY <1>1 DEF MatchTypes, Trying
<1> QED
  BY <1>2, CandidatesAssumption DEF MatchTypes

\* The window leaves parameters that can be compared.
LEMMA AfterWindowWithin ==
    ASSUME MatchTypes, Trying
    PROVE  /\ IsSpan(AfterWindow)
           /\ AppliedWindow(sas[at]) # Unset =>
                 /\ IsSpan(AppliedWindow(sas[at]))
                 /\ StartsIn(AfterWindow, AppliedWindow(sas[at]))
                 /\ EndsIn(AfterWindow, AppliedWindow(sas[at]))
<1>1. AppliedWindow(sas[at]) # Unset => IsSpan(AppliedWindow(sas[at]))
  BY AtIsCandidate DEF AppliedWindow
<1>2. IsSpan(span)
  BY DEF MatchTypes
<1>3. CASE AppliedWindow(sas[at]) = Unset
  BY <1>2, <1>3 DEF AfterWindow
<1>4. CASE AppliedWindow(sas[at]) # Unset
  <2>1. AfterWindow = Windowed(span, AppliedWindow(sas[at]))
    BY <1>4 DEF AfterWindow
  <2>2. QED
    BY <1>1, <1>2, <1>4, <2>1, WindowedWithin
<1> QED
  BY <1>3, <1>4

\* While nothing is chosen, nothing has to be shown.
LEMMA UndecidedIsFine ==
    ASSUME MatchTypes', chosen' \in {0, Unset}
    PROVE  MatchInv'
<1>1. Len(sas') \in Nat /\ DOMAIN sas' = 1..Len(sas')
  BY CandidatesAssumption DEF MatchTypes
<1>2. chosen' \notin DOMAIN sas'
  BY <1>1, UnsetAssumption
<1>3. ~Found'
  BY <1>2 DEF Found
<1> QED
  BY <1>3 DEF MatchInv, MatchIsJustified, WindowIsKept

LEMMA MatchInvStep == MatchInv /\ [MatchNext]_matchVars => MatchInv'
<1> SUFFICES ASSUME MatchInv, [MatchNext]_matchVars
             PROVE  MatchInv'
  OBVIOUS
<1>0. MatchTypes
  BY DEF MatchInv
<1>1. CASE TakeUnconstrained
  <2>1. chosen' = at /\ UNCHANGED <<asked, sas, at, span>> /\ sas[at].form = "none"
    BY <1>1 DEF TakeUnconstrained
  <2>2. MatchTypes'
    BY <1>0, <2>1 DEF MatchTypes
  <2>3. QED
    BY <2>1, <2>2 DEF MatchInv, MatchIsJustified, WindowIsKept
<1>2. CASE Mismatch \/ WindowFails
  <2>1. chosen' = 0 /\ at' = at + 1 /\ UNCHANGED <<asked, sas, span>>
    BY <1>2 DEF Mismatch, WindowFails, Matches, Trying
  <2>2. MatchTypes'
    BY <1>0, <2>1 DEF MatchTypes
  <2>3. QED
    BY <2>1, <2>2, UndecidedIsFine
<1>3. CASE DatesFail
  <2>1. chosen' = 0 /\ at' = at + 1 /\ UNCHANGED <<asked, sas>> /\ span' = AfterWindow /\ Trying
    BY <1>3 DEF DatesFail, Matches, Trying
  <2>2. IsSpan(span')
    BY <1>0, <2>1, AfterWindowWithin
  <2>3. MatchTypes'
    BY <1>0, <2>1, <2>2 DEF MatchTypes
  <2>4. QED
    BY <2>1, <2>3, UndecidedIsFine
<1>4. CASE Take
  <2> DEFINE w == AppliedWindow(sas[at])
             d == sas[at].dates
  <2>1. /\ chosen' = at /\ UNCHANGED <<asked, sas, at>> /\ span' = Dated(AfterWindow, d)
        /\ Trying /\ ConstraintsHold(sas[at], asked.meta)
    BY <1>4 DEF Take, Matches
  <2>2. at \in DOMAIN sas /\ IsBound(d.start) /\ IsBound(d.end)
    BY <1>0, <2>1, AtIsCandidate
  <2>3. /\ IsSpan(AfterWindow)
        /\ w # Unset => IsSpan(w) /\ StartsIn(AfterWindow, w) /\ EndsIn(AfterWindow, w)
    BY <1>0, <2>1, AfterWindowWithin
  <2> HIDE DEF w, d
  <2>4. /\ IsSpan(span') /\ Obeys(span'.start, d.start) /\ Obeys(span'.end, d.end)
        /\ w # Unset =>
              /\ (d.start # Unset => d.start.role = "lower") => StartsIn(span', w)
              /\ (d.end # Unset => d.end.role = "upper") => EndsIn(span', w)
    BY <2>1, <2>2, <2>3, DatedWithin
  <2>5. MatchTypes'
    BY <1>0, <2>1, <2>4 DEF MatchTypes
  <2>6. WindowIsKept'
    BY <2>1, <2>4 DEF WindowIsKept, StartsIn, EndsIn, w, d
  <2>7. \E i \in DOMAIN sas[at].groups : Justifies(Filled(sas[at].groups)[i])
    BY <1>0, <2>1, <2>2, HoldsJustifies DEF MatchTypes
  <2>8. MatchIsJustified'
    BY <2>1, <2>7 DEF MatchIsJustified, Justifies, Sound, Param
  <2>9. QED
    BY <2>5, <2>6, <2>8 DEF MatchInv
<1>5. CASE AskApprover
  <2>1. chosen' = Unset /\ UNCHANGED <<asked, sas, at, span>>
    BY <1>5 DEF AskApprover
  <2>2. MatchTypes'
    BY <1>0, <2>1 DEF MatchTypes
  <2>3. QED
    BY <2>1, <2>2, UndecidedIsFine
<1>6. CASE UNCHANGED matchVars
  BY <1>6 DEF matchVars, MatchInv, MatchTypes, MatchIsJustified, WindowIsKept, Found, Param
<1> QED
  BY <1>1, <1>2, <1>3, <1>4, <1>5, <1>6 DEF MatchNext

LEMMA MatchInvHolds == MatchSpec => []MatchInv
<1> QED
  BY MatchInvInit, MatchInvStep, PTL DEF MatchSpec

\* A request only runs under a standing approval one of whose groups mentions all
\* its parameters and whose conditions on scalars, recipients and missing values
\* it meets as they are documented; of an array, all is allowed by one entry
\* (ValidateParametersAgainstStructuredConfig, validateFlatParametersAgainstConfig).
THEOREM MatchJustified == MatchSpec => []MatchIsJustified
<1>1. MatchInv => MatchIsJustified
  BY DEF MatchInv
<1> QED
  BY <1>1, MatchInvHolds, PTL

\* What runs obeys the relative dates and lies, up to the fraction of a second at
\* its start, between the bounds of the data window, in whichever order they are
\* and whatever earlier candidates left in the parameters, as far as no relative
\* date of another role moves it (ApplyDataWindowToParams,
\* ApplyRelativeDateConstraintsToParams).
THEOREM WindowKept == MatchSpec => []WindowIsKept
<1>1. MatchInv => WindowIsKept
  BY DEF MatchInv
<1> QED
  BY <1>1, MatchInvHolds, PTL
===============================================================================
