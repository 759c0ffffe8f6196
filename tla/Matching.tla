------------------------------ MODULE Matching ------------------------------
(***************************************************************************)
(* Whether a request runs under a standing approval: the evaluation of     *)
(* constraints, and the loop over the candidates that picks the first      *)
(* whose constraints hold and narrows the request to its data window.      *)
(*                                                                         *)
(* A scalar stands for a JSON string, number or boolean.  A value is a     *)
(* scalar or an array of them, whose order does not matter.  A pattern is  *)
(* the set of strings it matches, a comparison the set of scalars that     *)
(* satisfy it.  Instants are in ticks; the two parameters a data window    *)
(* and relative dates bound are kept apart from the others, as span.       *)
(***************************************************************************)
EXTENDS Integers, Sequences

CONSTANTS
    Schema,       \* parameters the action's schema declares
    Recipients,   \* metadata fields that hold recipients: to, cc, bcc
    Candidates,   \* lists of standing approvals that may be found, in order
    Requests,     \* [params, meta, span]: parameters, verified metadata, window
    WholeSecond,  \* ticks in a second
    MatchFaults,  \* failures: "metadata", "window", "dates"
    Unset         \* a parameter, bound, window or metadata that is not there

ASSUME WholeSecondAssumption == WholeSecond \in Nat \ {0}
ASSUME UnsetAssumption == Unset \notin Int

\* A scalar has one element, and so has a fixed value.
IsValue(v) == v # Unset => v.array \in BOOLEAN /\ (~v.array => v.elems # {} /\ \A x, y \in v.elems : x = y)
IsEntry(c) == /\ c.kind \in {"wild", "fixed", "pattern"}
              /\ c.kind = "fixed" => c.of # {} /\ \A x, y \in c.of : x = y
AreConditions(fs) == \A f \in DOMAIN fs : \A c \in fs[f].allow \cup fs[f].deny : IsEntry(c)
IsSpan(s) == {s.start, s.end} \subseteq Int \cup {Unset}
IsBound(b) == b # Unset => b.role \in {"lower", "upper"} /\ b.at \in Int

\* Recipients are lists, and a message has every field, if only Unset.
ASSUME RequestsAssumption ==
    \A q \in Requests :
        /\ \A f \in DOMAIN q.params : IsValue(q.params[f])
        /\ q.meta # Unset => \A msg \in q.meta : \A f \in DOMAIN msg :
              IsValue(msg[f]) /\ (f \in Recipients /\ msg[f] # Unset => msg[f].array)
        /\ IsSpan(q.span)

\* Documents are lists of groups; a flat one has a group.
ASSUME CandidatesAssumption ==
    \A l \in Candidates :
        /\ Len(l) \in Nat /\ DOMAIN l = 1..Len(l)
        /\ \A i \in DOMAIN l :
              /\ l[i].form = "flat" => 1 \in DOMAIN l[i].groups
              /\ \A j \in DOMAIN l[i].groups :
                    LET g == l[i].groups[j] IN
                    /\ g = [params |-> g.params, meta |-> g.meta]
                    /\ AreConditions(g.params) /\ AreConditions(g.meta)
                    /\ \A q \in Requests : q.meta # Unset =>
                          \A msg \in q.meta : DOMAIN g.meta \subseteq DOMAIN msg
              /\ l[i].window # Unset => IsSpan(l[i].window)
              /\ IsBound(l[i].dates.start) /\ IsBound(l[i].dates.end)

VARIABLES
    asked,   \* the request
    sas,     \* the candidates
    at,      \* which of them is tried next
    span,    \* the window parameters as they now stand
    chosen   \* 0 while trying, the candidate's place, or Unset: ask the approver

matchVars == <<asked, sas, at, span, chosen>>

MatchInit ==
    /\ asked \in Requests
    /\ sas \in Candidates
    /\ at = 1
    /\ span = asked.span
    /\ chosen = 0

-----------------------------------------------------------------------------
(* Conditions: [allow, deny: sets of [kind, of], compare: set of sets] *)

IsWildcard(c) == c.kind = "wild"

\* One configured value against one of the request: a pattern must match every
\* element, a fixed value is a scalar, and of recipients one must match.
ValueMatches(c, v, how) ==
    \/ IsWildcard(c)
    \/ /\ v # Unset
       /\ \/ how = "recipient" /\ v.array /\ v.elems \cap c.of # {}
          \/ how # "recipient" /\ c.kind = "fixed" /\ ~v.array /\ v.elems = c.of
          \/ how # "recipient" /\ c.kind = "pattern" /\ v.elems \subseteq c.of
             /\ (how = "flat" => v.elems # {})

Denied(deny, v, how) ==
    v # Unset /\ \E c \in deny : ~IsWildcard(c) /\ ValueMatches(c, v, how)

\* Mutant: a wildcard among the allowed values ends the evaluation.
FieldHoldsShortCircuit(f, v, how) ==
    \/ \E c \in f.allow : IsWildcard(c)
    \/ /\ \A s \in f.compare : v # Unset /\ ~v.array /\ v.elems \subseteq s
       /\ f.allow = {} \/ \E c \in f.allow : ValueMatches(c, v, how)
       /\ ~Denied(f.deny, v, how)

\* evaluateExecFieldConditions and evaluateMetaSource: all comparisons, one of
\* the allowed values if there are any, none of the denied ones.
FieldHolds(f, v, how) ==
    /\ \A s \in f.compare : v # Unset /\ ~v.array /\ v.elems \subseteq s
    /\ f.allow = {} \/ \E c \in f.allow : ValueMatches(c, v, how)
    /\ ~Denied(f.deny, v, how)

Param(f) == IF f \in DOMAIN asked.params THEN asked.params[f] ELSE Unset

\* The metadata is a set of messages, each of which must pass.
MetaHolds(g, messages) ==
    \A f \in DOMAIN g.meta :
        /\ messages # {}
        /\ \A msg \in messages :
              FieldHolds(g.meta[f], msg[f], IF f \in Recipients THEN "recipient" ELSE "plain")

\* evaluateConstraintGroup.  A parameter the group does not mention is an error,
\* which ends the evaluation, but only if all conditions hold.
GroupOutcome(g, form, messages) ==
    IF \/ \E f \in DOMAIN g.params : ~FieldHolds(g.params[f], Param(f), form)
       \/ ~MetaHolds(g, messages)
    THEN "no"
    ELSE IF DOMAIN asked.params \subseteq DOMAIN g.params THEN "match" ELSE "extra"

-----------------------------------------------------------------------------
(* Documents: [form: "none", "flat" or "plain" (v2), groups, window, dates] *)

AnyValue == [allow |-> {[kind |-> "wild", of |-> {}]}, deny |-> {}, compare |-> {}]

\* fillMissingSchemaParameterWildcards: what no group mentions may be anything.
Filled(groups) ==
    LET configured == UNION {DOMAIN groups[i].params : i \in DOMAIN groups}
        missing == Schema \ configured
    IN  [i \in DOMAIN groups |-> [groups[i] EXCEPT !.params =
            [f \in DOMAIN @ \cup missing |-> IF f \in missing THEN AnyValue ELSE @[f]]]]

NeedsMeta(sa) == \E i \in DOMAIN sa.groups : DOMAIN sa.groups[i].meta # {}

\* ValidateParametersAgainstStructuredConfig: the first group that does not
\* simply fail decides.
StructuredHolds(groups, meta) ==
    \E i \in DOMAIN groups :
        /\ GroupOutcome(groups[i], "plain", meta) = "match"
        /\ \A j \in 1..(i - 1) : GroupOutcome(groups[j], "plain", meta) = "no"

\* validateFlatParametersAgainstConfig: a flat document is one group.
FlatHolds(groups, meta) == GroupOutcome(groups[1], "flat", meta) = "match"

\* validateActionConstraints
ConstraintsHold(sa, meta) ==
    /\ NeedsMeta(sa) => meta # Unset
    /\ \/ sa.form = "plain" /\ StructuredHolds(Filled(sa.groups), meta)
       \/ sa.form = "flat" /\ FlatHolds(Filled(sa.groups), meta)

-----------------------------------------------------------------------------
(* Narrowing the request *)

\* RFC3339 has whole seconds.
Trunc(t) == (t \div WholeSecond) * WholeSecond

Later(t, u) == IF t = Unset \/ t < u THEN u ELSE t
Earlier(t, u) == IF t = Unset \/ t > u THEN u ELSE t

\* Mutant: a bound the request gives is left as it is.
WindowedIfMissing(s, w) ==
    [start |-> IF w.start = Unset \/ s.start # Unset THEN s.start ELSE Trunc(w.start),
     end |-> IF w.end = Unset \/ s.end # Unset THEN s.end ELSE Trunc(w.end)]

\* ApplyDataWindowToParams
Windowed(s, w) ==
    LET start == Later(s.start, w.start)
        end == Earlier(s.end, w.end)
    IN  [start |-> IF w.start = Unset THEN s.start
                   ELSE Trunc(IF w.end # Unset /\ start >= w.end THEN w.end - 1 ELSE start),
         end |-> IF w.end = Unset THEN s.end
                 ELSE Trunc(IF w.start # Unset /\ end <= w.start THEN w.start + 1 ELSE end)]

\* ExtractDataWindowConstraint looks for the key $data_window at the top, where
\* only the flat form has it.
AppliedWindow(sa) == IF sa.form = "flat" THEN sa.window ELSE Unset

AfterWindow == IF AppliedWindow(sas[at]) = Unset THEN span ELSE Windowed(span, AppliedWindow(sas[at]))

\* One parameter against a relative date.  RelativeDateBoundRoleForToken takes the
\* role from the schema or else the token, and never makes it "exact".
Bounded(t, b) ==
    IF b = Unset THEN t ELSE Trunc(IF b.role = "upper" THEN Earlier(t, b.at) ELSE Later(t, b.at))

\* ApplyRelativeDateConstraintsToParams
Dated(s, d) == [start |-> Bounded(s.start, d.start), end |-> Bounded(s.end, d.end)]

-----------------------------------------------------------------------------
(* tryStandingApprovalAutoApprove, one candidate at a time *)

Trying == chosen = 0 /\ at <= Len(sas)

\* A standing approval without constraints takes the request as it now is.
TakeUnconstrained ==
    /\ Trying
    /\ sas[at].form = "none"
    /\ chosen' = at
    /\ UNCHANGED <<asked, sas, at, span>>

\* The constraints do not hold, or the metadata cannot be resolved.
Mismatch ==
    /\ Trying
    /\ sas[at].form # "none"
    /\ \E meta \in {asked.meta} \cup (IF "metadata" \in MatchFaults THEN {Unset} ELSE {}) :
          ~ConstraintsHold(sas[at], meta)
    /\ at' = at + 1
    /\ UNCHANGED <<asked, sas, span, chosen>>

Matches == Trying /\ sas[at].form # "none" /\ ConstraintsHold(sas[at], asked.meta)

\* The action has no window parameters, or the request's cannot be parsed.
WindowFails ==
    /\ Matches
    /\ AppliedWindow(sas[at]) # Unset
    /\ "window" \in MatchFaults
    /\ at' = at + 1
    /\ UNCHANGED <<asked, sas, span, chosen>>

\* The relative dates cannot be applied: the next candidate is tried with the
\* parameters this one's window has narrowed.
DatesFail ==
    /\ Matches
    /\ "dates" \in MatchFaults
    /\ span' = AfterWindow
    /\ at' = at + 1
    /\ UNCHANGED <<asked, sas, chosen>>

Take ==
    /\ Matches
    /\ span' = Dated(AfterWindow, sas[at].dates)
    /\ chosen' = at
    /\ UNCHANGED <<asked, sas, at>>

\* No candidate is left.
AskApprover ==
    /\ chosen = 0
    /\ at > Len(sas)
    /\ chosen' = Unset
    /\ UNCHANGED <<asked, sas, at, span>>

MatchNext ==
    \/ TakeUnconstrained
    \/ Mismatch
    \/ WindowFails
    \/ DatesFail
    \/ Take
    \/ AskApprover

MatchSpec == MatchInit /\ [][MatchNext]_matchVars

-----------------------------------------------------------------------------
(* Properties *)

Found == chosen \in DOMAIN sas

\* What the conditions of a field mean, by docs/standing-approval-constraints.md: of
\* an array one element is allowed and none is denied, as with recipients.
Meets(f, v) ==
    LET denied == UNION {c.of : c \in {d \in f.deny : ~IsWildcard(d)}}
        any == f.allow = {} \/ \E c \in f.allow : IsWildcard(c)
    IN  IF v = Unset THEN any /\ f.compare = {}
        ELSE /\ any \/ \E c \in f.allow : v.elems \cap c.of # {}
             /\ v.elems \cap denied = {}
             /\ \A s \in f.compare : v.elems \subseteq s

\* What is left of that for an array that is not one of recipients: nothing is
\* compared, and one entry allows it whole.
AllowsAll(f, v) ==
    /\ f.compare = {}
    /\ f.allow = {} \/ \E c \in f.allow : IsWildcard(c) \/ v.elems \subseteq c.of

IsArray(v) == v # Unset /\ v.array

\* A request only runs under a standing approval one of whose groups mentions, or
\* is filled with, all its parameters; it meets every condition of that group on
\* scalars, on recipients and on what is missing, in every message, and an array
\* is allowed as a whole (evaluateConstraintGroup).
MatchIsJustified ==
    Found /\ sas[chosen].form # "none" =>
        \E i \in DOMAIN sas[chosen].groups :
            LET g == Filled(sas[chosen].groups)[i] IN
            /\ \A f \in DOMAIN asked.params : f \in DOMAIN g.params
            /\ \A f \in DOMAIN g.params :
                  IF IsArray(Param(f)) THEN AllowsAll(g.params[f], Param(f))
                                       ELSE Meets(g.params[f], Param(f))
            /\ \A f \in DOMAIN g.meta : \A msg \in asked.meta :
                  IF IsArray(msg[f]) /\ f \notin Recipients THEN AllowsAll(g.meta[f], msg[f])
                                                            ELSE Meets(g.meta[f], msg[f])

\* Where what a data window lets through begins and ends: at its bounds, or, if
\* they leave nothing between them, a tick beyond them the wrong way round.  Such
\* a window is accepted if it has last_days and ends_at.
LeavesNothing(w) == w.start # Unset /\ w.end # Unset /\ w.end <= w.start
Opens(w) == IF LeavesNothing(w) THEN w.end - 1 ELSE w.start
Closes(w) == IF LeavesNothing(w) THEN w.start + 1 ELSE w.end

Obeys(t, b) ==
    b # Unset => t # Unset /\ (IF b.role = "upper" THEN t <= b.at ELSE t >= Trunc(b.at))

\* What runs obeys the relative dates of the standing approval it runs under, and
\* begins no earlier, but for the fraction of a second, and ends no later than its
\* data window lets through, whatever earlier candidates did to the parameters; a
\* relative date may move the same parameter out again only if its role is not
\* that of the parameter (tryStandingApprovalAutoApprove).
WindowIsKept ==
    Found /\ sas[chosen].form # "none" =>
        LET w == AppliedWindow(sas[chosen])
            d == sas[chosen].dates
        IN
        /\ Obeys(span.start, d.start) /\ Obeys(span.end, d.end)
        /\ w # Unset /\ w.start # Unset /\ (d.start # Unset => d.start.role = "lower") =>
              span.start # Unset /\ span.start >= Trunc(Opens(w))
        /\ w # Unset /\ w.end # Unset /\ (d.end # Unset => d.end.role = "upper") =>
              span.end # Unset /\ span.end <= Closes(w)

Within(s, w) ==
    /\ w.start # Unset => s.start # Unset /\ s.start >= w.start
    /\ w.end # Unset => s.end # Unset /\ s.end <= w.end

\* What the comment of ApplyDataWindowToParams says: "Never widens beyond the
\* resolved approval window".
NeverWidens ==
    Found /\ sas[chosen].form # "none" /\ AppliedWindow(sas[chosen]) # Unset =>
        Within(span, AppliedWindow(sas[chosen]))

\* What docs/standing-approval-constraints.md says of a v2 document: its
\* "constraints are validated on every auto-approve match", each of them by its
\* documented meaning, and a condition's field may be $data_window
\* (evaluateDenyList, ExtractDataWindowConstraint).
ConstraintsAreEnforced ==
    Found /\ sas[chosen].form = "plain" =>
        /\ \E i \in DOMAIN sas[chosen].groups :
              LET g == Filled(sas[chosen].groups)[i] IN
              /\ \A f \in DOMAIN g.params : Meets(g.params[f], Param(f))
              /\ \A f \in DOMAIN g.meta : \A msg \in asked.meta : Meets(g.meta[f], msg[f])
        /\ sas[chosen].window # Unset => Within(span, sas[chosen].window)
=============================================================================
