------------------------------ MODULE MCExpansion ------------------------------
(* Two files, whose texts move, drop and borrow the method asked for.           *)
EXTENDS Expansion, TLC

CONSTANTS here, there

D(class, method) == [class |-> class, method |-> method]

\* The method first, the method one line further down, another class's method
\* in the same file.
SmallTexts == {<<D("C", "m")>>, <<D("C", "n"), D("C", "m")>>, <<D("D", "m"), D("C", "n")>>,
               <<D("D", "m"), D("C", "m")>>, <<D("D", "m")>>}

Trees == {<<"outgoing">>, <<"incoming">>, <<"outgoing", "incoming">>}

\* LiveSession::expand_calls and resolve_anchor, run_expand for a file; the demos.
EveryQuestion ==
    [live |-> {<<"resolve">>} \cup {<<"resolve">> \o t : t \in Trees} \cup {<<"incoming">>},
     demo |-> {<<"search", "resolve", "symbols", "outgoing", "incoming">>,
               <<"symbols", "outgoing">>, <<"graph">>}]

Symmetry == Permutations(Files)
===============================================================================
