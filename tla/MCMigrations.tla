---------------------------- MODULE MCMigrations ----------------------------
(***************************************************************************)
(* An instance of Migrations: a universe with two books, each book opened  *)
(* by a tab of its own, and three projects to migrate.                     *)
(***************************************************************************)
EXTENDS Migrations

CONSTANTS universe, first, second, t1, t2, hero, Hero, town

Names == {hero, Hero, town}
Lowered == [n \in Names |-> IF n = Hero THEN hero ELSE n]
Layers == {universe, first, second}
Chains == [l \in Layers |-> IF l = universe THEN <<l>> ELSE <<universe, l>>]
TwoTabs == {t1, t2}
Roots == [t \in TwoTabs |-> IF t = t1 THEN first ELSE second]
BothFirst == [t \in TwoTabs |-> first]

Of(version, yaml, tags, docs, cards, scenes) ==
    [version |-> version, yaml |-> yaml, tags |-> tags, docs |-> docs, cards |-> cards, scenes |-> scenes]
Bare(version) == Of(version, <<>>, <<>>, <<>>, <<>>, <<>>)
Card(scene, written, rank) == [scene |-> scene, body |-> written, rank |-> rank]
Scene(summary, bracketed) == [summary |-> summary, bracketed |-> bracketed]
Layers3(u, a, b) == [l \in Layers |-> IF l = universe THEN u ELSE IF l = first THEN a ELSE b]

\* Both books go by a name of the universe, the first cased its own way; one
\* of them is opened after the universe was stamped.
Sharing == Layers3(Of(0, <<hero>>, <<>>, <<hero>>, <<>>, <<>>),
                   Of(0, <<Hero>>, <<>>, <<Hero>>, <<>>, <<Scene(0, FALSE)>>),
                   Of(0, <<>>, <<>>, <<hero, town>>, <<>>, <<>>))

\* Nothing is shared; a book has a tag node already, and one mentions it.
Apart == Layers3(Bare(0),
                 Of(0, <<Hero, town>>, <<>>, <<hero>>, <<>>, <<>>),
                 Of(0, <<>>, <<[id |-> 1, title |-> town]>>, <<1, town>>, <<>>, <<>>))

\* Two cards of one scene, out of reading order, and a scene with a summary.
Cards == Layers3(Bare(2),
                 Of(1, <<>>, <<>>, <<>>, <<Card(2, TRUE, 0), Card(2, TRUE, 0), Card(1, TRUE, 0)>>,
                    <<Scene(9, TRUE), Scene(0, FALSE)>>),
                 Of(0, <<>>, <<>>, <<>>, <<Card(1, FALSE, 3), Card(0, TRUE, 0), Card(1, TRUE, 4)>>,
                    <<Scene(0, FALSE)>>))

Starts == {Sharing, Apart, Cards}
=============================================================================
