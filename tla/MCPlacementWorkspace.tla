------------------------- MODULE MCPlacementWorkspace -------------------------
(* Two models, a rules unit "r" with the components "u" and "w", and views  *)
(* that agree with each other or do not.                                    *)
EXTENDS PlacementWorkspace

Sequences2(S) == {<< >>} \cup {<<x>> : x \in S} \cup {<<x, y>> : x, y \in S}

MCRequests ==
    [kind : Kinds, unit : {"r", "u"}, player : {"p"},
     models : {<< >>, <<"a">>, <<"a", "b">>},
     components : {<< >>, <<"u">>, <<"u", "w">>},
     created : {{}, {"a"}}, army : {Nothing, "A"}]

Own(unit, owner, destroyed) == [unit |-> unit, owner |-> owner, destroyed |-> destroyed]

Physicals ==
    {Own(u, o, d) : u \in {"u", "w"}, o \in {"p", "q"}, d \in BOOLEAN} \cup {Nothing}

Displays ==
    {Nothing} \cup [owner : {"p", "q"}, models : {<<"a">>, <<"a", "b">>, <<"b", "b">>}]

Tables == {[u \in Units |-> s] : s \in {<< >>, <<"b">>, <<"a", "b">>}}

MCViews ==
    [physical : [Models -> Physicals] \cup {Nothing}, shown : Tables, display : Displays,
     placed : {<<"A">>}, mustered : {Nothing}]
    \cup
    [physical : {Nothing, [m \in Models |-> Own("u", "p", TRUE)]}, shown : Tables,
     display : {Nothing}, placed : Sequences2(Armies), mustered : Sequences2(Armies) \cup {Nothing}]
=============================================================================
