---------------------------- MODULE MCMapSurface ----------------------------
EXTENDS MapSurface

\* Inputs some layer is drawn from together; and every other one alone.
Together == {{"plan", "edit"}, {"plan", "pick"}, {"clusters", "caches"}, {"landuse", "shown"}}

Alone == {{i} : i \in Inputs \ UNION Together}

MCVarying == Together \cup Alone

\* The context is lost again where what is drawn comes and goes with the input.
MCLosses == [v \in MCVarying |-> IF v \in {{"parkings"}, {"graph"}, {"target"}} THEN 2 ELSE 1]

=============================================================================
