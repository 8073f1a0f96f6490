-------------------------- MODULE MCConditionalDeps --------------------------
EXTENDS ConditionalDeps, TLC

CONSTANTS r, a, b, c, tag

Nothing == [p \in Pkg |-> {}]
Needs(p, S) == [Nothing EXCEPT ![p] = S]
If(all, no, dep, S) == [all |-> all, no |-> no, dep |-> dep, accepts |-> S]

Plain == [needs |-> Nothing, drops |-> {}, brings |-> {}, when |-> {}, gives |-> {}]
Only(m) == <<m, None>>

\* r may need b, and has up to two conditions.
EdgesOfR == {If({r}, {}, a, Version), If({r}, {b}, a, {1}), If({tag}, {}, c, Version),
             If({b, a}, {}, c, {2}), If({}, {c}, b, Version)}
ManifestsOfR ==
    {[Plain EXCEPT !.needs = needs, !.when = when] :
        needs \in {Nothing, Needs(b, Version), Needs(c, Version)},
        when \in {{e, f} : e \in EdgesOfR, f \in EdgesOfR}}

\* a gives the tag, needs c, may bring c in, or has a condition of its own.
ManifestsOfA ==
    {[Plain EXCEPT !.gives = gives, !.needs = needs, !.when = when] :
        gives \in {{}, {tag}},
        needs \in {Nothing, Needs(c, {1}), Needs(b, Version)},
        when \in {{}, {If({a}, {}, b, Version)}}}
    \cup {[Plain EXCEPT !.brings = {c}, !.gives = {tag}]}

\* b may obsolete c, or r.
ManifestsOfB ==
    {[Plain EXCEPT !.needs = needs, !.when = when] :
        needs \in {Nothing, Needs(c, Version)}, when \in {{}, {If({tag}, {}, c, {1})}}}
    \cup {[Plain EXCEPT !.drops = {p}] : p \in {c, r}}

RegistriesDef ==
    {(r :> Only(mr)) @@ (a :> Only(ma)) @@ (b :> mb) @@ (c :> mc) :
        mr \in ManifestsOfR, ma \in ManifestsOfA,
        mb \in {Only(m) : m \in ManifestsOfB} \cup {<<Plain, m>> : m \in ManifestsOfB},
        mc \in {Only(Plain), <<Plain, Plain>>,
                <<Plain, [Plain EXCEPT !.needs = Needs(b, {1})]>>,
                <<Plain, [Plain EXCEPT !.drops = {b}]>>}}

RootSetsDef == {Needs(r, Version), [Needs(r, Version) EXCEPT ![c] = {1}]}
=============================================================================
