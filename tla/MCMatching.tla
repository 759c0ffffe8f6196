---- MODULE MCMatching ----
(* Small instances of Matching: parameters p and q, metadata to and from. *)
EXTENDS Matching, TLC

Scalar(x) == [array |-> FALSE, elems |-> {x}]
Array(xs) == [array |-> TRUE, elems |-> xs]
Fixed(x) == [kind |-> "fixed", of |-> {x}]
Pattern(xs) == [kind |-> "pattern", of |-> xs]
Wild == [kind |-> "wild", of |-> {}]

NoSpan == [start |-> Unset, end |-> Unset]
Nothing == << >>

MCParams ==
    {Nothing} \cup {("p" :> v) : v \in {Scalar(1), Scalar(2), Array({1, 2}), Array({})}}
        \cup {("p" :> v) @@ ("q" :> Scalar(1)) : v \in {Scalar(1), Scalar(2), Array({1, 2})}}
Message(to, from) == ("to" :> Array(to)) @@ ("from" :> from)
MCMeta ==
    {Unset, {}, {Message({1, 2}, Scalar(1))}, {Message({1}, Scalar(1)), Message({2}, Scalar(2))},
     {Message({1}, Unset)}}
MCSpans == [start : {Unset, 0, 3, 6}, end : {Unset, 0, 3, 6}]

MCRequests ==
    [params : MCParams, meta : MCMeta, span : {NoSpan}]
        \cup [params : {Nothing}, meta : {Unset}, span : MCSpans]

Conditions ==
    [allow : {{}, {Wild}, {Fixed(1)}, {Pattern({1})}, {Pattern({2}), Fixed(1)}},
     deny : {{}, {Wild}, {Fixed(2)}, {Pattern({2})}}, compare : {{}, {{1}}}]
Allowing(c) == [allow |-> {c}, deny |-> {}, compare |-> {}]
Denying(c) == [allow |-> {}, deny |-> {c}, compare |-> {}]

ParamGroups == {Nothing, "q" :> Allowing(Fixed(1))} \cup {("p" :> c) : c \in Conditions}
MetaGroups ==
    {Nothing, "to" :> Allowing(Fixed(1)), "to" :> Denying(Fixed(2)), "from" :> Allowing(Pattern({1}))}
Groups == [params : ParamGroups, meta : MetaGroups]
FlatGroups ==
    [params : {Nothing} \cup {("p" :> Allowing(c)) : c \in {Wild, Fixed(1), Pattern({1})}},
     meta : {Nothing, "to" :> Allowing(Fixed(1))}]
Anything == [params |-> Nothing, meta |-> Nothing]

Document(form, groups, window, dates) ==
    [form |-> form, groups |-> groups, window |-> window, dates |-> dates]
Plain(form, groups) == Document(form, groups, Unset, NoSpan)

Windows == {Unset} \cup [start : {1}, end : {Unset, 3}] \cup [start : {Unset, 3, 6}, end : {5}]
Lower(t) == [role |-> "lower", at |-> t]
Upper(t) == [role |-> "upper", at |-> t]
Dates ==
    {NoSpan} \cup [start : {Lower(2), Upper(2)}, end : {Unset}]
        \cup [start : {Unset}, end : {Upper(2), Lower(4)}]
Timed ==
    {Plain("none", <<Anything>>)}
        \cup {Document("flat", <<Anything>>, w, d) : w \in Windows, d \in Dates}

\* Candidates for the passing run,
MCCandidates ==
    {<<Plain("plain", <<g>>)>> : g \in Groups}
        \cup {<<Plain("plain", <<g, h>>)>> : g \in [params : ParamGroups, meta : {Nothing}],
                  h \in [params : {"q" :> Allowing(Wild)}, meta : {Nothing}]}
        \cup {<<Plain("flat", <<g>>), Plain("none", <<Anything>>)>> : g \in FlatGroups}
        \cup {<<d, e>> : d \in Timed, e \in Timed}

\* a window that leaves nothing: the last days begin after its end,
EmptyWindow == {<<Document("flat", <<Anything>>, [start |-> 8, end |-> 4], NoSpan)>>}

\* and a v2 document that denies a value and has a data window,
DenyingWindow ==
    {<<Document("plain", <<[params |-> ("p" :> Denying(Fixed(2))), meta |-> Nothing]>>,
                [start |-> 4, end |-> 8], NoSpan)>>}

\* with a request for that value among others, and for all of time.
MixedArray == {[params |-> ("p" :> Array({1, 2})), meta |-> Unset, span |-> NoSpan]}
====
