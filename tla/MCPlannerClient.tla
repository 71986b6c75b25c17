--------------------------- MODULE MCPlannerClient ---------------------------
EXTENDS PlannerClient
CONSTANTS t1, t2

Old(area) == [of |-> Handmade, knob |-> 1, area |-> area]
Row(area) == [name |-> "loop", plan |-> Old(area), slug |-> None]
\* Nothing to switch to on the planner, two tours to switch between on the page.
MCStarts == {[page |-> "planner", rows |-> [t \in Tours |-> IF t = t1 THEN Row("b") ELSE None]],
             [page |-> "tours", rows |-> [t \in Tours |-> Row(IF t = t1 THEN "b" ELSE "a")]]}

==============================================================================
