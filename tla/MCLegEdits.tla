----------------------------- MODULE MCLegEdits -----------------------------
EXTENDS LegEdits

Alternative(sig, l, i) == <<"alt", <<sig, l>>, i>>

\* A leg of plan sig with n alternatives, of which the first is selected.
MCLeg(sig, l, n) ==
    [own |-> Alternative(sig, l, 1), alts |-> [i \in 1..n |-> Alternative(sig, l, i)], sel |-> 1]

MCPlan(sig, ns) ==
    [sig |-> sig, legs |-> [l \in DOMAIN ns |-> MCLeg(sig, l, ns[l])],
     line |-> [l \in DOMAIN ns |-> Alternative(sig, l, 1)]]

\* Two alternatives, none, and one.
MCPlanned == {MCPlan("a", <<2, 0>>), MCPlan("b", <<1>>)}

\* Dragging without saving, and saving without dragging.
MCBounds == {[positions |-> {1, 2}, saving |-> FALSE, turns |-> 3],
             [positions |-> {}, saving |-> TRUE, turns |-> 5]}

=============================================================================
