----------------------------- MODULE MCPagePlan -----------------------------
(***************************************************************************)
(* Small histories for PagePlan: four actors, of which up to two have a    *)
(* second operation, one more than a request of these runs can name.       *)
(***************************************************************************)
EXTENDS PagePlan

Undamaged(deps, gen, end) ==
    [deps |-> deps, gen |-> gen, noIndex |-> {}, noHeader |-> {}, fragile |-> {}, start |-> end, end |-> end]
\* Each actor waits for the next one, whose id is larger.
Descending ==
    Undamaged(<< <<{<<2, 1>>}, {<<1, 1>>}>>, <<{<<3, 1>>}>>, <<{<<4, 1>>}>>, <<{}>> >>,
              << <<4, 5>>, <<3>>, <<2>>, <<1>> >>, <<2, 1, 1, 1>>)
\* The second operation of one actor waits for a chain through the others.
Woven ==
    Undamaged(<< <<{}, {<<1, 1>>, <<2, 2>>}>>, <<{}, {<<2, 1>>, <<3, 1>>}>>,
                 <<{<<4, 1>>}>>, <<{<<1, 1>>}>> >>,
              << <<1, 5>>, <<1, 4>>, <<3>>, <<2>> >>, <<2, 2, 1, 1>>)
\* One operation joins the others and is joined again.
Joined ==
    Undamaged(<< <<{}, {<<1, 1>>, <<4, 1>>}>>, <<{}>>, <<{}>>, <<{<<1, 1>>, <<2, 1>>, <<3, 1>>}>> >>,
              << <<1, 3>>, <<1>>, <<1>>, <<2>> >>, <<2, 1, 1, 1>>)

Small == <<Descending, Woven, Joined,
           [Woven EXCEPT !.start = <<1, 1, 1, 1>>], [Woven EXCEPT !.noHeader = {<<3, 1>>}],
           [Joined EXCEPT !.fragile = {<<2, 1>>}], [Woven EXCEPT !.noIndex = {<<1, 1>>}]>>

ASSUME GenerationsAssumption ==
    \A i \in DOMAIN Small : \A a \in DOMAIN Small[i].gen : \A s \in DOMAIN Small[i].gen[a] :
        Small[i].gen[a][s] =
            1 + Max({0} \cup {Small[i].gen[d[1]][d[2]] : d \in Small[i].deps[a][s]})
=============================================================================
