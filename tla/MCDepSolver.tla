---------------------------- MODULE MCDepSolver ----------------------------
EXTENDS DepSolver, TLC

CONSTANTS a, b, c, cap

Plain == [needs |-> <<>>, oneof |-> <<>>, bars |-> {}, drops |-> {}, gives |-> {}, wants |-> {}]
Needing(needs) == [Plain EXCEPT !.needs = needs]

AnyOf(p) == <<p, Version>>
OfC == {<<>>} \cup {<<<<c, S>>>> : S \in {{1}, {3}, {1, 2}, Version}}

\* The newest a may ask for everything, in either order.
ManifestsOfA ==
    {[Needing(needs) EXCEPT !.oneof = oneof, !.wants = wants] :
        needs \in {<<>>, <<AnyOf(c)>>, <<AnyOf(b), AnyOf(c)>>, <<AnyOf(c), AnyOf(b)>>, <<<<b, {1}>>, AnyOf(c)>>},
        oneof \in {<<>>, <<<<b, {2}>>, <<c, {1, 2}>>>>},
        wants \in {{}, {{cap}}}}

ManifestsOfB ==
    {Needing(needs) : needs \in OfC}
    \cup {[Plain EXCEPT !.bars = {p}] : p \in {a, c}}
    \cup {[Needing(<<AnyOf(c)>>) EXCEPT !.drops = {c}], [Plain EXCEPT !.gives = {cap}]}

WorldsDef ==
    {(a :> <<a1, a2, None>>) @@ (b :> <<b1, b2, None>>) @@ (c :> <<Plain, c2, c3>>) :
        a1 \in {None, Plain, Needing(<<<<c, {1}>>>>)}, a2 \in ManifestsOfA,
        b1 \in {Needing(needs) : needs \in OfC}, b2 \in ManifestsOfB,
        c2 \in {None, Plain}, c3 \in {Plain, [Plain EXCEPT !.gives = {cap}]}}

RootListsDef == {<<AnyOf(a), AnyOf(b)>>, <<<<c, {3}>>, AnyOf(a)>>, <<<<c, {1, 2}>>, AnyOf(a)>>, <<AnyOf(c), AnyOf(a), AnyOf(b)>>}
=============================================================================
