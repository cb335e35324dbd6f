---------------------------- MODULE MCDeclarations ----------------------------
(* Small inventories of each kind for TLC. *)
EXTENDS Declarations

Gun(model, weapon, deck) == [model |-> model, weapon |-> weapon, deck |-> deck]

Aim(weapon, target, legal, families) ==
    [weapon |-> weapon, target |-> target, legal |-> legal, families |-> families,
     bound |-> FALSE, deck |-> Nothing]

(* The target is bound to a firing deck source. *)
For(aim, deck) == [aim EXCEPT !.bound = TRUE, !.deck = deck]

None2 == << >>
OneFamily == << {"i"} >>
TwoOptions == << {"i", "j"} >>

(* The target of the borrowed weapon is for its own source, for another's,  *)
(* or listed for both.                                                      *)
Borrowed ==
    LET mine   == For(Aim("z", "e", TRUE, None2), "d")
        others == For(Aim("z", "e", TRUE, OneFamily), Nothing)
    IN  {<<mine>>, <<others>>, <<others, mine>>, <<mine, others>>}

Shooting ==
    {[kind |-> "shooting", complete |-> c, typed |-> y, history |-> h, cargo |-> g,
      weapons |-> w, targets |-> t, targetless |-> l] :
        c \in BOOLEAN, y \in BOOLEAN, h \in BOOLEAN, g \in {{}, {"d"}},
        w \in {<<Gun("m", "x", Nothing), Gun("m", "z", "d")>>,
               <<Gun("m", "x", Nothing), Gun("n", "x", Nothing)>>},
        t \in {<<Aim("x", "e", TRUE, f), Aim("x", "f", l2, None2), Aim("z", "e", TRUE, None2)>> :
                  f \in {None2, OneFamily, TwoOptions}, l2 \in BOOLEAN}
              \cup {<<Aim("x", "e", TRUE, TwoOptions)>> \o z : z \in Borrowed},
        l \in {<< >>, <<[model |-> "m", weapon |-> "x", deck |-> Nothing, families |-> OneFamily]>>}}

Blade(model, weapon, extra, engaged, families) ==
    [model |-> model, weapon |-> weapon, extra |-> extra, engaged |-> engaged, families |-> families]

Melee ==
    {[kind |-> "melee", complete |-> c, weapons |-> w] :
        c \in BOOLEAN,
        w \in {<<Blade("m", "x", FALSE, e, f), Blade("m", "y", b, <<"e", "f">>, None2),
                 Blade("n", "x", FALSE, <<"e">>, None2)>> :
                  e \in {<< >>, <<"e">>}, f \in {None2, OneFamily, TwoOptions}, b \in BOOLEAN}}

Stratagems ==
    [kind : {"stratagem"}, complete : BOOLEAN, given : {Nothing, "u"},
     offered : {Nothing, << >>, <<"e">>, <<"u", "e">>}, heroic : BOOLEAN,
     modes : {<< >>, <<"k", "l">>, <<"k", "k">>}, friendly : BOOLEAN]

MCRequests == Shooting \cup Melee \cup Stratagems
=============================================================================
